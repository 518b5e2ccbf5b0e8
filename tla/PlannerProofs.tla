--------------------------- MODULE PlannerProofs ---------------------------
(* What every plan of the chunk planner is, for every page, hyphenation,   *)
(* text and configuration: a division of its scope, inside the caps.       *)
EXTENDS Planner, FiniteSetTheorems, WellFoundedInduction, TLAPS

-----------------------------------------------------------------------------
(* Least and greatest elements. *)

LEMMA MinOfNaturals ==
    ASSUME NEW T \in SUBSET Nat, T # {}
    PROVE  Min(T) \in T /\ \A y \in T : Min(T) =< y
<1> DEFINE R == {p \in Nat \X Nat : p[1] < p[2]}
<1>1. IsWellFoundedOn(R, Nat)
  BY NatLessThanWellFounded DEF OpToRel
<1>2. PICK x \in T : \A y \in T : <<y, x>> \notin R
  <2> HIDE DEF R
  <2>1. T \subseteq Nat
    OBVIOUS
  <2> QED
    BY ONLY <1>1, <2>1, T # {}, WFMin
<1>3. ASSUME NEW y \in T
      PROVE  x =< y
  <2>1. x \in Nat /\ y \in Nat
    OBVIOUS
  <2>2. ~(y < x)
    <3>1. <<y, x>> \in R <=> y < x
      BY <2>1
    <3> QED
      BY <1>2, <3>1
  <2> QED
    BY <2>1, <2>2
<1> QED
  BY <1>3 DEF Min

LEMMA MaxOfNaturals ==
    ASSUME NEW n \in Nat, NEW T \in SUBSET (0 .. n), T # {}
    PROVE  Max(T) \in T /\ \A y \in T : y =< Max(T)
<1> DEFINE U == {n - x : x \in T}
<1>1. U \in SUBSET Nat /\ U # {}
  <2>1. PICK x : x \in T
    OBVIOUS
  <2>2. n - x \in U
    BY <2>1
  <2> QED
    BY <2>2
<1>2. PICK u \in U : \A v \in U : u =< v
  <2> HIDE DEF U
  <2> QED
    BY <1>1, MinOfNaturals
<1>3. PICK x \in T : u = n - x
  BY <1>2
<1>4. ASSUME NEW y \in T
      PROVE  x >= y
  <2>1. n - y \in U
    OBVIOUS
  <2>2. u =< n - y
    BY <1>2, <2>1
  <2> QED
    BY <1>3, <2>2
<1> QED
  BY <1>4 DEF Max

-----------------------------------------------------------------------------
(* Positions inside a scope number its lines from 1, in reading order.     *)

LEMMA ScopeSize ==
    ASSUME NEW S \in SUBSET Lines
    PROVE  /\ IsFiniteSet(S) /\ Cardinality(S) \in Nat
           /\ \A T \in SUBSET S : IsFiniteSet(T) /\ Cardinality(T) \in 0 .. Cardinality(S)
<1>1. IsFiniteSet(Lines)
  BY FS_Interval, LayoutAssumption DEF Lines
<1>2. IsFiniteSet(S)
  BY <1>1, FS_Subset
<1>3. Cardinality(S) \in Nat
  BY <1>2, FS_CardinalityType
<1>4. ASSUME NEW T \in SUBSET S
      PROVE  IsFiniteSet(T) /\ Cardinality(T) \in 0 .. Cardinality(S)
  <2>1. IsFiniteSet(T) /\ Cardinality(T) =< Cardinality(S)
    BY <1>2, FS_Subset
  <2>2. Cardinality(T) \in Nat
    BY <2>1, FS_CardinalityType
  <2> QED
    BY <1>3, <2>1, <2>2
<1> QED
  BY <1>2, <1>3, <1>4

LEMMA PosBounds ==
    ASSUME NEW S \in SUBSET Lines, NEW l \in S
    PROVE  Pos(S, l) \in 1 .. Cardinality(S)
<1> DEFINE T == {m \in S : m =< l}
<1>1. l \in T /\ T \in SUBSET S
  BY DEF Lines
<1>2. Pos(S, l) = Cardinality(T)
  BY DEF Pos
<1> HIDE DEF T
<1>3. IsFiniteSet(T) /\ Cardinality(T) \in 0 .. Cardinality(S) /\ Cardinality(S) \in Nat
  BY <1>1, ScopeSize
<1>4. Cardinality(T) # 0
  BY <1>1, <1>3, FS_EmptySet
<1> QED
  BY <1>2, <1>3, <1>4

LEMMA PosIncreases ==
    ASSUME NEW S \in SUBSET Lines, NEW l \in S, NEW m \in S, l < m
    PROVE  Pos(S, l) < Pos(S, m)
<1> DEFINE T == {k \in S : k =< l}
           U == {k \in S : k =< m}
<1>1. m \in U /\ m \notin T /\ T \subseteq U /\ U \subseteq S
  <2>1. \A k \in S : k \in Int
    BY DEF Lines
  <2>2. \A k \in S : k =< l => k =< m
    BY <2>1
  <2>3. m =< m /\ ~(m =< l)
    BY <2>1
  <2> QED
    BY <2>2, <2>3
<1>2. Pos(S, l) = Cardinality(T) /\ Pos(S, m) = Cardinality(U)
  BY DEF Pos
<1> HIDE DEF T, U
<1>3. IsFiniteSet(U) /\ Cardinality(U) \in Nat
  BY <1>1, ScopeSize
<1>4. /\ Cardinality(T) =< Cardinality(U)
      /\ Cardinality(U) = Cardinality(T) => U = T
  BY <1>1, <1>3, FS_Subset
<1>5. Cardinality(T) \in Nat
  BY <1>1, ScopeSize
<1> QED
  BY <1>1, <1>2, <1>3, <1>4, <1>5

(* Two lines are no further apart in a scope than in the document. *)
LEMMA PosGap ==
    ASSUME NEW S \in SUBSET Lines, NEW l \in S, NEW m \in S, l < m
    PROVE  Pos(S, m) =< Pos(S, l) + (m - l)
<1> DEFINE T == {k \in S : k =< l}
           U == {k \in S : k =< m}
           D == U \ T
<1>1. l \in Int /\ m \in Int /\ \A k \in S : k \in Int
  BY DEF Lines
<1>2. D \subseteq (l + 1) .. m /\ U \cap T = T /\ U \subseteq S /\ T \subseteq S
  <2>1. ASSUME NEW k \in D
        PROVE  k \in (l + 1) .. m
    <3>1. k \in S /\ k =< m /\ ~(k =< l)
      OBVIOUS
    <3> QED
      BY <1>1, <3>1
  <2>2. \A k \in S : k =< l => k =< m
    BY <1>1
  <2> QED
    BY <2>1, <2>2
<1>3. Pos(S, l) = Cardinality(T) /\ Pos(S, m) = Cardinality(U)
  BY DEF Pos
<1>4. IsFiniteSet((l + 1) .. m) /\ Cardinality((l + 1) .. m) = m - l
  <2>1. l + 1 \in Int /\ ~(l + 1 > m) /\ m - (l + 1) + 1 = m - l
    BY <1>1
  <2> QED
    BY <1>1, <2>1, FS_Interval
<1> HIDE DEF T, U
<1>5. Cardinality(D) =< m - l
  <2>1. D \in SUBSET ((l + 1) .. m)
    BY <1>2
  <2> HIDE DEF D
  <2> QED
    BY <1>4, <2>1, FS_Subset
<1>6. IsFiniteSet(U) /\ Cardinality(U) \in Nat /\ Cardinality(T) \in Nat
  BY <1>2, ScopeSize
<1>7. Cardinality(D) = Cardinality(U) - Cardinality(T)
  BY <1>2, <1>6, FS_Difference
<1> QED
  BY <1>1, <1>3, <1>5, <1>6, <1>7

LEMMA PosInjective ==
    ASSUME NEW S \in SUBSET Lines, NEW l \in S, NEW m \in S, Pos(S, l) = Pos(S, m)
    PROVE  l = m
<1>1. l \in Int /\ m \in Int /\ Pos(S, l) \in Int
  BY PosBounds DEF Lines
<1>2. ~(l < m) /\ ~(m < l)
  BY <1>1, PosIncreases
<1> QED
  BY <1>1, <1>2

LEMMA LineAtPos ==
    ASSUME NEW S \in SUBSET Lines, NEW i \in 1 .. Cardinality(S)
    PROVE  LineAt(S, i) \in S /\ Pos(S, LineAt(S, i)) = i
<1> DEFINE n == Cardinality(S)
           f == [l \in S |-> Pos(S, l)]
<1>1. n \in Nat /\ IsFiniteSet(S) /\ IsFiniteSet(1 .. n) /\ Cardinality(1 .. n) = n
  BY ScopeSize, FS_Interval
<1>2. f \in Injection(S, 1 .. n)
  <2>1. \A l \in S : Pos(S, l) \in 1 .. n
    BY PosBounds
  <2>2. f \in [S -> 1 .. n]
    BY <2>1
  <2>3. ASSUME NEW l \in S, NEW m \in S, f[l] = f[m]
        PROVE  l = m
    <3>1. Pos(S, l) = Pos(S, m)
      BY <2>3
    <3> QED
      BY <3>1, PosInjective
  <2> HIDE DEF f
  <2> QED
    BY ONLY <2>2, <2>3 DEF Injection, IsInjective
<1> HIDE DEF f
<1>3. f \in Surjection(S, 1 .. n)
  BY <1>1, <1>2, FS_Injection
<1>4. \E l \in S : Pos(S, l) = i
  BY <1>3 DEF Surjection, f
<1> QED
  BY <1>4 DEF LineAt

LEMMA SliceSize ==
    ASSUME NEW S \in SUBSET Lines, NEW i \in Nat \ {0}, NEW j \in Nat, i =< j + 1
    PROVE  Cardinality(Slice(S, i, j)) =< j - i + 1
<1> DEFINE T == Slice(S, i, j)
           f == [l \in T |-> Pos(S, l)]
<1>1. T \subseteq S /\ \A l \in T : i =< Pos(S, l) /\ Pos(S, l) =< j
  BY DEF Slice
<1>2. IsFiniteSet(i .. j) /\ Cardinality(i .. j) = j - i + 1
  <2>1. i \in Int /\ j \in Int
    OBVIOUS
  <2>2. IsFiniteSet(i .. j) /\ Cardinality(i .. j) = IF i > j THEN 0 ELSE j - i + 1
    BY <2>1, FS_Interval
  <2> QED
    BY <2>1, <2>2
<1> HIDE DEF T
<1>3. f \in Injection(T, i .. j)
  <2>1. \A l \in T : Pos(S, l) \in i .. j
    <3>1. ASSUME NEW l \in T
          PROVE  Pos(S, l) \in i .. j
      <4>1. Pos(S, l) \in 1 .. Cardinality(S)
        BY <1>1, PosBounds
      <4> QED
        BY <1>1, <4>1
    <3> QED
      BY <3>1
  <2>2. f \in [T -> i .. j]
    BY <2>1
  <2>3. ASSUME NEW l \in T, NEW m \in T, f[l] = f[m]
        PROVE  l = m
    <3>1. Pos(S, l) = Pos(S, m)
      BY <2>3
    <3>2. l \in S /\ m \in S
      BY <1>1
    <3> QED
      BY <3>1, <3>2, PosInjective
  <2> HIDE DEF f
  <2> QED
    BY ONLY <2>2, <2>3 DEF Injection, IsInjective
<1> HIDE DEF f
<1> QED
  BY <1>2, <1>3, FS_Injection DEF T

-----------------------------------------------------------------------------
(* What is reached from a line.                                            *)

LEMMA ReachableInside ==
    ASSUME NEW x, NEW S, NEW next
    PROVE  Reachable(x, S, next) \subseteq S
  BY DEF Reachable

LEMMA ReachableLeast ==
    ASSUME NEW x, NEW S, NEW next, NEW T \in SUBSET S, x \in T,
           \A y \in T : next[y] \subseteq T
    PROVE  Reachable(x, S, next) \subseteq T
  BY DEF Reachable

LEMMA ReachableClosed ==
    ASSUME NEW S, NEW x \in S, NEW next, \A y \in S : next[y] \subseteq S
    PROVE  /\ x \in Reachable(x, S, next)
           /\ \A y \in Reachable(x, S, next) : next[y] \subseteq Reachable(x, S, next)
  BY DEF Reachable

(* When the relation is symmetric, what was reached once is never reached  *)
(* from outside it.                                                        *)
LEMMA ReachableDisjoint ==
    ASSUME NEW S, NEW x \in S, NEW next, NEW G \in SUBSET S, x \notin G,
           \A y \in S : next[y] \subseteq S,
           \A y, z \in S : z \in next[y] => y \in next[z],
           \A y \in G : next[y] \subseteq G
    PROVE  Reachable(x, S, next) \cap G = {}
<1> DEFINE T == S \ G
<1>1. T \in SUBSET S /\ x \in T
  OBVIOUS
<1>2. \A y \in T : next[y] \subseteq T
  OBVIOUS
<1> HIDE DEF T
<1>3. Reachable(x, S, next) \subseteq T
  BY <1>1, <1>2, ReachableLeast
<1> QED
  BY <1>3 DEF T

(* A line's unit holds it. *)
LEMMA UnitHoldsLine ==
    ASSUME NEW lk, NEW S, NEW l \in S
    PROVE  l \in Unit(lk, l, S) /\ Unit(lk, l, S) \subseteq S
<1> DEFINE next == [m \in S |-> Linked(lk, m, S)]
<1>1. \A y \in S : next[y] \subseteq S
  BY DEF Linked
<1>2. Unit(lk, l, S) = Reachable(l, S, next)
  BY DEF Unit
<1> HIDE DEF next
<1> QED
  BY <1>1, <1>2, ReachableClosed, ReachableInside

(* The lines a block shares, and those linked with one. *)
Adjoining(lk, S) == [m \in S |-> Linked(lk, m, S) \cup {k \in S : BlockOf[k] = BlockOf[m]}]

LEMMA BlockGroups ==
    ASSUME NEW lk, NEW S, NEW l \in S
    PROVE  /\ l \in BlockGroup(lk, l, S) /\ BlockGroup(lk, l, S) \subseteq S
           /\ \A y \in BlockGroup(lk, l, S) : Adjoining(lk, S)[y] \subseteq BlockGroup(lk, l, S)
           /\ \A G \in SUBSET S :
                 l \notin G /\ (\A y \in G : Adjoining(lk, S)[y] \subseteq G)
                     => BlockGroup(lk, l, S) \cap G = {}
<1> DEFINE next == Adjoining(lk, S)
<1>1. \A y \in S : next[y] \subseteq S
  BY DEF Adjoining, Linked
<1>2. \A y, z \in S : z \in next[y] => y \in next[z]
  BY DEF Adjoining, Linked
<1>3. BlockGroup(lk, l, S) = Reachable(l, S, next)
  BY DEF BlockGroup, Adjoining
<1> HIDE DEF next
<1>4. /\ l \in Reachable(l, S, next) /\ Reachable(l, S, next) \subseteq S
      /\ \A y \in Reachable(l, S, next) : next[y] \subseteq Reachable(l, S, next)
  BY <1>1, ReachableClosed, ReachableInside
<1>5. \A G \in SUBSET S : l \notin G /\ (\A y \in G : next[y] \subseteq G)
                              => Reachable(l, S, next) \cap G = {}
  BY <1>1, <1>2, ReachableDisjoint
<1> QED
  BY <1>3, <1>4, <1>5 DEF next

-----------------------------------------------------------------------------
(* Windows: the next one starts further on, and where the last one ended   *)
(* at the latest, or the last one reached the end of the scope.            *)

LEMMA CoreEndBounds ==
    ASSUME NEW S \in SUBSET Lines, NEW i \in 1 .. Cardinality(S)
    PROVE  /\ SizeLimit(S, i) \in Nat
           /\ SizeLimit(S, i) = i + WindowSize \/ SizeLimit(S, i) = Cardinality(S) + 1
           /\ SizeLimit(S, i) =< Cardinality(S) + 1
           /\ CoreEnd(S, i) \in (i + 1) .. SizeLimit(S, i)
<1>1. WindowSize \in Nat \ {0} /\ Cardinality(S) \in Nat
  BY PlannerAssumption, ScopeSize
<1> DEFINE a == i + WindowSize
           b == Cardinality(S) + 1
           limit == SizeLimit(S, i)
           T == {e \in (i + 1) .. limit : e = i + 1 \/ TotalChars(Slice(S, i, e - 1)) =< MaxChars}
<1>2. a \in Nat /\ b \in Nat /\ i + 1 =< a /\ i + 1 =< b
  BY <1>1
<1>3. limit \in {a, b} /\ limit =< a /\ limit =< b
  <2>1. limit = Min({a, b})
    BY DEF SizeLimit
  <2> HIDE DEF a, b, limit
  <2> QED
    BY <1>2, <2>1, MinOfNaturals
<1>4. CoreEnd(S, i) = Max(T)
  BY DEF CoreEnd
<1>5. i + 1 \in T /\ T \in SUBSET (0 .. limit) /\ limit \in Nat
  BY <1>2, <1>3
<1>6. Max(T) \in T
  <2> HIDE DEF T, limit
  <2> QED
    BY <1>5, MaxOfNaturals
<1> QED
  BY <1>2, <1>3, <1>4, <1>6

LEMMA WindowBounds ==
    ASSUME NEW lk, NEW S \in SUBSET Lines, NEW i \in 1 .. Cardinality(S)
    PROVE  /\ WindowEnd(lk, S, i) \in CoreEnd(S, i) .. (Cardinality(S) + 1)
           /\ \/ WindowEnd(lk, S, i) = Cardinality(S) + 1
              \/ WindowEnd(lk, S, i) >= CoreEnd(S, i) + ExtensionSlack
              \/ UnitReach(lk, S, i, WindowEnd(lk, S, i)) =< WindowEnd(lk, S, i)
<1> DEFINE core == CoreEnd(S, i)
           a == MaxLines
           b == core - i + ExtensionSlack
           limit == Max({a, b})
           c == Cardinality(S) + 1
           d == i + limit
           maxEnd == Min({c, d})
           T == {e \in core .. maxEnd : e = maxEnd \/ UnitReach(lk, S, i, e) =< e}
<1>1. core \in Nat /\ i < core /\ core =< c /\ c \in Nat
  BY CoreEndBounds, ScopeSize
<1>2. a \in Nat /\ b \in Nat /\ b >= core - i
  BY <1>1, PlannerAssumption
<1>3. limit \in {a, b} /\ b =< limit
  <2> HIDE DEF a, b, core
  <2> QED
    BY <1>2 DEF Max
<1>4. d \in Nat /\ core =< d
  <2> HIDE DEF limit, core
  <2> QED
    BY <1>1, <1>2, <1>3
<1>5. maxEnd \in {c, d} /\ maxEnd =< c /\ core =< maxEnd
  <2> HIDE DEF c, d, core
  <2> QED
    BY <1>1, <1>4, MinOfNaturals
<1>6. WindowEnd(lk, S, i) = Min(T)
  BY DEF WindowEnd
<1>9. maxEnd = c \/ maxEnd >= core + ExtensionSlack
  <2>1. ExtensionSlack \in Nat
    BY PlannerAssumption
  <2>2. d >= core + ExtensionSlack
    <3> HIDE DEF limit, core
    <3> QED
      BY <1>1, <1>2, <1>3, <2>1
  <2> HIDE DEF c, d, core
  <2> QED
    BY <1>5, <2>2
<1> HIDE DEF core, maxEnd, c
<1>7. maxEnd \in Nat /\ maxEnd \in T /\ T \in SUBSET Nat
  BY <1>1, <1>4, <1>5
<1>8. Min(T) \in T
  <2> HIDE DEF T
  <2> QED
    BY <1>7, MinOfNaturals
<1> QED
  BY <1>1, <1>5, <1>6, <1>7, <1>8, <1>9 DEF core, c

LEMMA NextWindow ==
    ASSUME NEW lk, NEW S \in SUBSET Lines, NEW i \in 1 .. Cardinality(S)
    PROVE  /\ NextStart(S, i) \in Nat /\ NextStart(S, i) > i
           /\ \/ NextStart(S, i) =< WindowEnd(lk, S, i)
              \/ WindowEnd(lk, S, i) = Cardinality(S) + 1
           /\ \/ NextStart(S, i) =< CoreEnd(S, i)
              \/ CoreEnd(S, i) = Cardinality(S) + 1
<1> DEFINE core == CoreEnd(S, i)
           size == SizeLimit(S, i)
           step == IF core < size THEN core - WindowOverlap
                   ELSE i + (WindowSize - WindowOverlap)
           end == WindowEnd(lk, S, i)
           n == Cardinality(S)
<1>1. /\ core \in (i + 1) .. size /\ size \in Nat /\ size =< n + 1
      /\ size = i + WindowSize \/ size = n + 1
      /\ end \in core .. (n + 1) /\ n \in Nat
  BY CoreEndBounds, WindowBounds, ScopeSize
<1>2. WindowSize \in Nat /\ WindowOverlap \in Nat
  BY PlannerAssumption
<1>3. NextStart(S, i) = Max({i + 1, step})
  BY DEF NextStart
<1> HIDE DEF core, size, end, n
<1>4. step \in Int /\ i \in Int
  BY <1>1, <1>2
<1>5. step =< core \/ core = n + 1
  BY <1>1, <1>2
<1> HIDE DEF step
<1>6. Max({i + 1, step}) = IF step > i + 1 THEN step ELSE i + 1
  BY <1>4 DEF Max
<1> QED
  BY <1>1, <1>3, <1>4, <1>5, <1>6 DEF end, n, core

-----------------------------------------------------------------------------
(* Plans.                                                                  *)

Owned(plan) == {l \in Lines : \E k \in DOMAIN plan : l \in plan[k].targets}

(* A chunk sends what it owns, no line has two owners, and a request of    *)
(* any grain but WINDOW is inside the line cap.                            *)
Division(plan, S) ==
    /\ \A k \in DOMAIN plan : plan[k].targets \subseteq plan[k].lines /\ plan[k].lines \subseteq S
    /\ \A j, k \in DOMAIN plan : j # k => plan[j].targets \cap plan[k].targets = {}
    /\ \A k \in DOMAIN plan :
          plan[k].gran # "WINDOW" => Cardinality(plan[k].lines) =< MaxLines

(* Where each loop has got to: the blocks closed so far are closed under   *)
(* what makes blocks travel together, the windows hold every line before   *)
(* `at`, the lines of the LINE loop are the ones before `at`, and a        *)
(* finished plan owns its scope.                                           *)
PlanInv ==
    /\ PlanTypeOK
    /\ Division(chunks, scope)
    /\ planning = "page" => chunks = <<>>
    /\ planning \in {"page", "block"} => at = 1 /\ windows = <<>>
    /\ planning = "block" =>
          \A k \in DOMAIN chunks :
              /\ chunks[k].targets = chunks[k].lines
              /\ \A y \in chunks[k].lines : Adjoining(links, scope)[y] \subseteq chunks[k].lines
    /\ planning = "window" =>
          /\ chunks = <<>> /\ \A k \in DOMAIN windows : windows[k] \subseteq scope
          /\ \A l \in scope : Pos(scope, l) < at => \E k \in DOMAIN windows : l \in windows[k]
    /\ planning = "line" => Owned(chunks) = {l \in scope : Pos(scope, l) < at}
    /\ planning = "idle" => Owned(chunks) = scope

LEMMA AppendWhole ==
    ASSUME NEW plan \in Seq(Chunk), NEW S \in SUBSET Lines, Division(plan, S),
           NEW G \in SUBSET S, G \cap Owned(plan) = {},
           NEW g \in Grains, g # "WINDOW" => Cardinality(G) =< MaxLines
    PROVE  LET more == Append(plan, WholeChunk(g, G))
           IN  /\ more \in Seq(Chunk) /\ Division(more, S) /\ Owned(more) = Owned(plan) \cup G
               /\ DOMAIN more = 1 .. (Len(plan) + 1)
               /\ \A k \in DOMAIN plan : more[k] = plan[k]
               /\ more[Len(plan) + 1] = WholeChunk(g, G)
<1> DEFINE c == WholeChunk(g, G)
           more == Append(plan, c)
           n == Len(plan) + 1
<1>1. c \in Chunk /\ c.lines = G /\ c.targets = G /\ c.gran = g
  BY DEF WholeChunk, Chunk
<1> HIDE DEF c
<1>2. /\ more \in Seq(Chunk) /\ DOMAIN more = 1 .. n /\ n \in Nat \ {0} /\ DOMAIN plan = 1 .. (n - 1)
      /\ \A k \in DOMAIN plan : more[k] = plan[k]
      /\ more[n] = c
  BY <1>1
<1>3. \A k \in DOMAIN more : k \in DOMAIN plan \/ k = n
  BY <1>2
<1> HIDE DEF more, n
<1>4. Owned(more) = Owned(plan) \cup G
  <2>1. \A l \in Lines : (\E k \in DOMAIN more : l \in more[k].targets) <=>
            (\E k \in DOMAIN plan : l \in plan[k].targets) \/ l \in G
    <3>1. \A k \in DOMAIN plan : k \in DOMAIN more /\ more[k].targets = plan[k].targets
      BY <1>2
    <3>2. n \in DOMAIN more /\ more[n].targets = G
      BY <1>1, <1>2
    <3> QED
      BY <1>3, <3>1, <3>2
  <2> QED
    BY <2>1 DEF Owned
<1>5. Division(more, S)
  <2>1. ASSUME NEW k \in DOMAIN more
        PROVE  /\ more[k].targets \subseteq more[k].lines /\ more[k].lines \subseteq S
               /\ more[k].gran # "WINDOW" => Cardinality(more[k].lines) =< MaxLines
    BY <1>1, <1>2, <1>3 DEF Division
  <2>2. ASSUME NEW k \in DOMAIN plan
        PROVE  plan[k].targets \cap G = {}
    <3>1. plan[k] \in Chunk
      OBVIOUS
    <3>2. plan[k].targets \subseteq Owned(plan)
      BY <3>1 DEF Owned, Chunk
    <3> QED
      BY <3>2
  <2>3. ASSUME NEW j \in DOMAIN more, NEW k \in DOMAIN more, j # k
        PROVE  more[j].targets \cap more[k].targets = {}
    BY <1>1, <1>2, <1>3, <2>2, <2>3 DEF Division
  <2> QED
    BY <2>1, <2>3 DEF Division
<1> QED
  BY <1>2, <1>4, <1>5 DEF more, n, c

LEMMA NoPlan ==
    ASSUME NEW S
    PROVE  <<>> \in Seq(Chunk) /\ Division(<<>>, S) /\ Owned(<<>>) = {}
  BY DEF Division, Owned

-----------------------------------------------------------------------------
(* plan_page, wherever it is called from.                                  *)
LEMMA PlanBegins ==
    ASSUME links \in LinkSpace, splits \subseteq Lines \X Lines,
           NEW S \in SUBSET Lines, NEW first \in {"page", "block", "window", "line"},
           BeginPlan(S, first)
    PROVE  PlanInv'
<1>1. /\ planning' = first /\ scope' = S /\ at' = 1 /\ windows' = <<>> /\ chunks' = <<>>
      /\ links' = links /\ splits' = splits
  BY DEF BeginPlan
<1>2. PlanTypeOK'
  BY <1>1, NoPlan DEF PlanTypeOK
<1>3. \A l \in S : ~(Pos(S, l) < 1)
  BY PosBounds
<1>4. Division(<<>>, S) /\ Owned(<<>>) = {}
  BY NoPlan
<1>5. (planning = "line" => Owned(chunks) = {l \in scope : Pos(scope, l) < at})'
  BY <1>1, <1>3, <1>4
<1> QED
  BY <1>1, <1>2, <1>3, <1>4, <1>5 DEF PlanInv

LEMMA TryPagePlans ==
    ASSUME PlanInv, TryPage
    PROVE  PlanInv'
<1>1. /\ UNCHANGED <<links, splits, scope, at, windows>> /\ chunks = <<>>
      /\ scope \in SUBSET Lines /\ at = 1 /\ windows = <<>>
  BY DEF PlanInv, PlanTypeOK, TryPage
<1>2. CASE FitsRequest(scope)
  <2>1. chunks' = Append(<<>>, WholeChunk("PAGE", scope)) /\ planning' = "idle"
    BY <1>2 DEF TryPage
  <2>2. Cardinality(scope) =< MaxLines
    BY <1>2 DEF FitsRequest
  <2>3. /\ chunks' \in Seq(Chunk) /\ Division(chunks', scope) /\ Owned(chunks') = scope
    <3>1. /\ <<>> \in Seq(Chunk) /\ Division(<<>>, scope) /\ Owned(<<>>) = {}
          /\ scope \in SUBSET scope /\ "PAGE" \in Grains
      BY NoPlan DEF Grains
    <3>2. scope \cap Owned(<<>>) = {} /\ {} \cup scope = scope
      BY <3>1
    <3> QED
      BY ONLY <1>1, <2>1, <2>2, <3>1, <3>2, AppendWhole
  <2> QED
    BY <1>1, <2>1, <2>3 DEF PlanInv, PlanTypeOK
<1>3. CASE ~FitsRequest(scope)
  <2>1. chunks' = <<>> /\ planning' = "block"
    BY <1>3 DEF TryPage
  <2> QED
    BY <1>1, <2>1, NoPlan DEF PlanInv, PlanTypeOK
<1> QED
  BY <1>2, <1>3

LEMMA TryBlockPlans ==
    ASSUME PlanInv, TryBlock
    PROVE  PlanInv'
<1> DEFINE rest == scope \ UNION {chunks[k].lines : k \in DOMAIN chunks}
           group == BlockGroup(links, Min(rest), scope)
           c == WholeChunk("BLOCK", group)
<1>1. /\ UNCHANGED <<links, splits, scope, at, windows>> /\ planning = "block"
      /\ scope \in SUBSET Lines /\ at = 1 /\ windows = <<>>
      /\ PlanTypeOK /\ Division(chunks, scope) /\ chunks \in Seq(Chunk)
      /\ \A k \in DOMAIN chunks :
              /\ chunks[k].targets = chunks[k].lines
              /\ \A y \in chunks[k].lines : Adjoining(links, scope)[y] \subseteq chunks[k].lines
  BY DEF PlanInv, PlanTypeOK, TryBlock
<1>2. rest = scope \ Owned(chunks) /\ Owned(chunks) \subseteq scope
  <2>1. \A k \in DOMAIN chunks : chunks[k].targets = chunks[k].lines /\ chunks[k].lines \subseteq scope
    BY <1>1 DEF Division
  <2>2. UNION {chunks[k].lines : k \in DOMAIN chunks} = Owned(chunks)
    BY <1>1, <2>1 DEF Owned
  <2>3. Owned(chunks) \subseteq scope
    BY <2>1 DEF Owned
  <2> QED
    BY <2>2, <2>3
<1>3. \/ /\ rest = {} /\ chunks' = chunks
         /\ planning' = IF chunks = <<>> THEN "window" ELSE "idle"
      \/ rest # {} /\ planning' = "window" /\ chunks' = <<>>
      \/ /\ rest # {} /\ FitsRequest(group) /\ planning' = "block"
         /\ chunks' = Append(chunks, c)
  BY <1>1 DEF TryBlock
<1> HIDE DEF rest
<1>4. CASE rest = {} /\ chunks' = chunks /\ planning' = "idle"
  <2>1. Owned(chunks) = scope
    BY <1>2, <1>4
  <2> QED
    BY <1>1, <1>4, <2>1 DEF PlanInv, PlanTypeOK
<1>5. CASE planning' = "window" /\ chunks' = <<>>
  <2>1. \A l \in scope : ~(Pos(scope, l) < 1)
    <3>1. scope \in SUBSET Lines
      BY <1>1
    <3> QED
      BY <3>1, PosBounds
  <2> QED
    BY <1>1, <1>5, <2>1, NoPlan DEF PlanInv, PlanTypeOK
<1>6. CASE /\ rest # {} /\ FitsRequest(group) /\ planning' = "block"
           /\ chunks' = Append(chunks, c)
  <2>1. Min(rest) \in rest
    <3>1. rest \in SUBSET Nat /\ rest # {}
      BY <1>1, <1>2, <1>6 DEF Lines
    <3> QED
      BY <3>1, MinOfNaturals
  <2>2. /\ group \subseteq scope
        /\ \A y \in group : Adjoining(links, scope)[y] \subseteq group
        /\ \A G \in SUBSET scope :
              Min(rest) \notin G /\ (\A y \in G : Adjoining(links, scope)[y] \subseteq G)
                  => group \cap G = {}
    <3>1. Min(rest) \in scope
      BY <1>2, <2>1
    <3> QED
      BY <3>1, BlockGroups
  <2>3. ASSUME NEW k \in DOMAIN chunks
        PROVE  group \cap chunks[k].lines = {}
    <3>1. Min(rest) \notin chunks[k].lines
      BY <1>1, <1>2, <2>1 DEF Owned
    <3>2. chunks[k].lines \in SUBSET scope
      BY <1>1 DEF Division
    <3> QED
      BY <1>1, <2>2, <3>1, <3>2
  <2> HIDE DEF group
  <2>4. group \in SUBSET scope /\ group \cap Owned(chunks) = {}
    BY <1>1, <2>2, <2>3 DEF Owned
  <2>5. "BLOCK" \in Grains /\ Cardinality(group) =< MaxLines
    BY <1>6 DEF Grains, FitsRequest
  <2>6. /\ chunks' \in Seq(Chunk) /\ Division(chunks', scope)
        /\ DOMAIN chunks' = 1 .. (Len(chunks) + 1)
        /\ \A k \in DOMAIN chunks : chunks'[k] = chunks[k]
        /\ chunks'[Len(chunks) + 1] = c
    BY ONLY <1>1, <1>6, <2>4, <2>5, AppendWhole
  <2>7. \A k \in DOMAIN chunks' : k \in DOMAIN chunks \/ chunks'[k] = c
    BY <1>1, <2>6
  <2>8. c.targets = group /\ c.lines = group
    BY DEF WholeChunk
  <2> HIDE DEF c
  <2>9. \A k \in DOMAIN chunks' :
            /\ chunks'[k].targets = chunks'[k].lines
            /\ \A y \in chunks'[k].lines : Adjoining(links, scope)[y] \subseteq chunks'[k].lines
    BY <1>1, <2>2, <2>6, <2>7, <2>8
  <2>10. UNCHANGED Adjoining(links, scope)
    BY <1>1
  <2> QED
    BY <1>1, <1>6, <2>6, <2>9, <2>10 DEF PlanInv, PlanTypeOK
<1> QED
  BY <1>3, <1>4, <1>5, <1>6

LEMMA TryWindowPlans ==
    ASSUME PlanInv, TryWindow
    PROVE  PlanInv'
<1> DEFINE end == WindowEnd(links, scope, at)
           w == Slice(scope, at, end - 1)
           n == Cardinality(scope)
<1>1. /\ UNCHANGED <<links, splits, planning, scope, chunks>> /\ planning = "window"
      /\ scope \in SUBSET Lines /\ at \in Nat \ {0} /\ at =< n /\ chunks = <<>>
      /\ windows \in Seq(SUBSET Lines) /\ \A k \in DOMAIN windows : windows[k] \subseteq scope
      /\ \A l \in scope : Pos(scope, l) < at => \E k \in DOMAIN windows : l \in windows[k]
      /\ at' = NextStart(scope, at) /\ windows' = Append(windows, w)
  BY DEF PlanInv, PlanTypeOK, TryWindow
<1>2. n \in Nat /\ at \in 1 .. n
  BY <1>1, ScopeSize
<1>3. /\ at' \in Nat \ {0}
      /\ at' =< end \/ end = n + 1
      /\ end \in Nat
  BY <1>1, <1>2, NextWindow, WindowBounds, CoreEndBounds
<1>4. w \subseteq scope /\ \A l \in scope : at =< Pos(scope, l) /\ Pos(scope, l) =< end - 1 => l \in w
  BY DEF Slice
<1> HIDE DEF end, w, n
<1>5. /\ windows' \in Seq(SUBSET Lines) /\ w \in SUBSET Lines
      /\ \A k \in DOMAIN windows : k \in DOMAIN windows' /\ windows'[k] = windows[k]
      /\ Len(windows) + 1 \in DOMAIN windows' /\ windows'[Len(windows) + 1] = w
      /\ \A k \in DOMAIN windows' : k \in DOMAIN windows \/ windows'[k] = w
  BY <1>1, <1>4
<1>6. ASSUME NEW l \in scope, Pos(scope, l) < at'
      PROVE  \E k \in DOMAIN windows' : l \in windows'[k]
  <2>1. Pos(scope, l) \in 1 .. n
    BY <1>1, PosBounds DEF n
  <2>2. CASE Pos(scope, l) < at
    BY <1>1, <1>5, <2>2
  <2>3. CASE at =< Pos(scope, l)
    <3>1. Pos(scope, l) =< end - 1
      BY <1>2, <1>3, <1>6, <2>1
    <3> QED
      BY <1>4, <1>5, <2>3, <3>1
  <2> QED
    BY <1>1, <2>1, <2>2, <2>3
<1>7. PlanTypeOK'
  BY <1>1, <1>3, <1>5 DEF PlanInv, PlanTypeOK
<1>8. \A k \in DOMAIN windows' : windows'[k] \subseteq scope
  BY <1>1, <1>4, <1>5
<1>9. Division(chunks', scope')
  BY <1>1 DEF PlanInv
<1> QED
  BY <1>1, <1>6, <1>7, <1>8, <1>9 DEF PlanInv

(* The window that owns a line holds it. *)
LEMMA OwnerHoldsLine ==
    ASSUME NEW lk, NEW S \in SUBSET Lines, NEW ws \in Seq(SUBSET Lines),
           NEW l \in S, \E k \in DOMAIN ws : l \in ws[k]
    PROVE  TargetWindow(lk, S, ws, l) \in {k \in DOMAIN ws : l \in ws[k]}
<1> DEFINE common == {k \in DOMAIN ws : Unit(lk, l, S) \subseteq ws[k]}
           holding == {k \in DOMAIN ws : l \in ws[k]}
<1>1. common \subseteq holding
  BY UnitHoldsLine
<1>2. holding # {} /\ holding \in SUBSET (0 .. Len(ws)) /\ Len(ws) \in Nat
  OBVIOUS
<1>3. TargetWindow(lk, S, ws, l) = IF common # {} THEN Max(common) ELSE Max(holding)
  BY DEF TargetWindow
<1> HIDE DEF common, holding
<1>4. Max(holding) \in holding /\ (common # {} => Max(common) \in common)
  BY <1>1, <1>2, MaxOfNaturals
<1> QED
  BY <1>1, <1>3, <1>4 DEF holding

LEMMA CloseWindowsPlans ==
    ASSUME PlanInv, CloseWindows
    PROVE  PlanInv'
<1> DEFINE owner == [l \in scope |-> TargetWindow(links, scope, windows, l)]
           c(k) == [gran |-> "WINDOW", lines |-> windows[k],
                    targets |-> {l \in windows[k] : owner[l] = k}]
<1>1. /\ UNCHANGED <<links, splits, scope, at, windows>> /\ planning' = "idle"
      /\ scope \in SUBSET Lines /\ at \in Nat \ {0} /\ at > Cardinality(scope)
      /\ windows \in Seq(SUBSET Lines) /\ \A k \in DOMAIN windows : windows[k] \subseteq scope
      /\ \A l \in scope : Pos(scope, l) < at => \E k \in DOMAIN windows : l \in windows[k]
      /\ PlanTypeOK
  BY DEF PlanInv, PlanTypeOK, CloseWindows
<1>2. chunks' = [k \in 1 .. Len(windows) |-> c(k)] /\ DOMAIN windows = 1 .. Len(windows)
  BY <1>1 DEF CloseWindows, AssignWindowTargets
<1>3. ASSUME NEW l \in scope
      PROVE  owner[l] \in DOMAIN windows /\ l \in windows[owner[l]]
  <2>1. Pos(scope, l) \in 1 .. Cardinality(scope) /\ Cardinality(scope) \in Nat
    BY <1>1, PosBounds, ScopeSize
  <2>2. \E k \in DOMAIN windows : l \in windows[k]
    BY <1>1, <2>1
  <2> QED
    BY <1>1, <2>2, OwnerHoldsLine
<1> HIDE DEF owner
<1>4. ASSUME NEW k \in 1 .. Len(windows)
      PROVE  /\ c(k) \in Chunk /\ c(k).gran = "WINDOW" /\ c(k).lines = windows[k]
             /\ c(k).targets = {l \in windows[k] : owner[l] = k} /\ windows[k] \subseteq scope
  BY <1>1 DEF Chunk, Grains
<1> HIDE DEF c
<1>5. chunks' \in Seq(Chunk) /\ DOMAIN chunks' = 1 .. Len(windows)
  BY <1>2, <1>4
<1>6. Division(chunks', scope)
  BY <1>2, <1>4, <1>5 DEF Division
<1>7. Owned(chunks') = scope
  <2>1. ASSUME NEW l \in scope
        PROVE  \E k \in DOMAIN chunks' : l \in chunks'[k].targets
    BY <1>2, <1>3, <1>4, <1>5
  <2>2. \A k \in DOMAIN chunks' : chunks'[k].targets \subseteq scope
    BY <1>2, <1>4, <1>5
  <2> QED
    BY <1>1, <2>1, <2>2 DEF Owned
<1> QED
  BY <1>1, <1>5, <1>6, <1>7 DEF PlanInv, PlanTypeOK

(* A chain never leaves the request it starts, nor goes back. *)
LEMMA ChainEndBounds ==
    ASSUME NEW lk, NEW S \in SUBSET Lines, NEW i \in 1 .. Cardinality(S)
    PROVE  ChainEnd(lk, S, i) \in i .. (i + MaxLines - 1)
<1> DEFINE next == [l \in S |-> {m \in ForwardById(lk, l, S) :
                                   Pos(S, m) > Pos(S, l) /\ Pos(S, m) - i + 1 =< MaxLines}]
           T == {l \in S : Pos(S, l) - i + 1 =< MaxLines}
           chain == Chain(lk, S, i)
           P == {i} \cup {Pos(S, l) : l \in chain}
           n == Cardinality(S)
<1>1. MaxLines \in Nat \ {0} /\ n \in Nat /\ \A l \in S : Pos(S, l) \in 1 .. n
  BY PlannerAssumption, ScopeSize, PosBounds
<1>2. LineAt(S, i) \in T
  BY <1>1, LineAtPos
<1>3. \A l \in S : next[l] \subseteq T
  BY DEF ForwardById
<1>4. chain = Reachable(LineAt(S, i), S, next)
  BY DEF Chain
<1> HIDE DEF next, chain
<1>5. chain \subseteq T
  <2>1. T \in SUBSET S /\ \A y \in T : next[y] \subseteq T
    BY <1>3
  <2> HIDE DEF T
  <2> QED
    BY <1>2, <1>4, <2>1, ReachableLeast
<1>6. P \in SUBSET (0 .. n) /\ P # {} /\ \A p \in P : p =< i + MaxLines - 1
  BY <1>1, <1>5
<1>7. ChainEnd(lk, S, i) = Max(P)
  BY DEF ChainEnd, chain
<1>8. Max(P) \in P /\ i =< Max(P)
  <2>1. i \in P
    OBVIOUS
  <2> HIDE DEF P, n
  <2> QED
    BY <1>1, <1>6, <2>1, MaxOfNaturals
<1> HIDE DEF P
<1>9. Max(P) \in Nat /\ Max(P) =< i + MaxLines - 1
  <2>1. Max(P) \in 0 .. n
    BY <1>6, <1>8
  <2>2. Max(P) \in Nat
    BY <1>1, <2>1
  <2> QED
    BY <1>6, <1>8, <2>2
<1> HIDE DEF n
<1> QED
  BY <1>1, <1>7, <1>8, <1>9

LEMMA PlanLinePlans ==
    ASSUME PlanInv, PlanLine
    PROVE  PlanInv'
<1> DEFINE end == ChainEnd(links, scope, at)
           body == Slice(scope, at, end)
           n == Cardinality(scope)
<1>1. /\ UNCHANGED <<planning, scope, windows>> /\ planning = "line"
      /\ scope \in SUBSET Lines /\ at \in Nat \ {0} /\ at =< n
      /\ PlanTypeOK /\ Division(chunks, scope) /\ chunks \in Seq(Chunk)
      /\ Owned(chunks) = {l \in scope : Pos(scope, l) < at}
      /\ chunks' = Append(chunks, WholeChunk("LINE", body)) /\ at' = end + 1
  BY DEF PlanInv, PlanTypeOK, PlanLine
<1>2. /\ links' \in LinkSpace /\ splits' \subseteq Lines \X Lines
  <2>1. \/ UNCHANGED <<links, splits>>
        \/ \E tail, head \in Lines : /\ links' = split_forward_link(links, tail, head)
                                     /\ splits' = splits \cup {<<tail, head>>}
    BY <1>1 DEF PlanLine, ForwardById
  <2>2. links \in LinkSpace /\ splits \subseteq Lines \X Lines
    BY <1>1 DEF PlanTypeOK
  <2>3. ASSUME NEW tail \in Lines, NEW head \in Lines
        PROVE  split_forward_link(links, tail, head) \in LinkSpace
    BY <2>2 DEF LinkSpace, split_forward_link, Roles
  <2> QED
    BY <2>1, <2>2, <2>3
<1>3. n \in Nat /\ at \in 1 .. n /\ MaxLines \in Nat
  BY <1>1, ScopeSize, PlannerAssumption
<1>4. end \in at .. (at + MaxLines - 1)
  BY <1>1, <1>3, ChainEndBounds
<1> HIDE DEF end
<1>5. body \in SUBSET scope /\ body \cap Owned(chunks) = {}
  <2>1. \A l \in scope : Pos(scope, l) \in Nat
    BY <1>1, PosBounds
  <2> QED
    BY <1>1, <1>3, <2>1 DEF Slice
<1>6. Cardinality(body) =< MaxLines
  <2>1. Cardinality(body) =< end - at + 1 /\ Cardinality(body) \in Nat
    BY <1>1, <1>3, <1>4, <1>5, SliceSize, ScopeSize
  <2> QED
    BY <1>3, <1>4, <2>1
<1>7. \A l \in scope : l \in body \/ Pos(scope, l) < at <=> Pos(scope, l) < end + 1
  <2>1. \A l \in scope : Pos(scope, l) \in Nat
    BY <1>1, PosBounds
  <2> QED
    BY <1>3, <1>4, <2>1 DEF Slice
<1> HIDE DEF body
<1>8. /\ chunks' \in Seq(Chunk) /\ Division(chunks', scope)
      /\ Owned(chunks') = Owned(chunks) \cup body
  <2>1. "LINE" \in Grains
    BY DEF Grains
  <2> QED
    BY ONLY <1>1, <1>5, <1>6, <2>1, AppendWhole
<1>9. Owned(chunks') = {l \in scope : Pos(scope, l) < end + 1}
  BY <1>1, <1>5, <1>7, <1>8
<1>10. PlanTypeOK'
  BY <1>1, <1>2, <1>3, <1>4, <1>8 DEF PlanTypeOK
<1> QED
  BY <1>1, <1>8, <1>9, <1>10 DEF PlanInv

LEMMA CloseLinesPlans ==
    ASSUME PlanInv, CloseLines
    PROVE  PlanInv'
<1>1. /\ UNCHANGED <<links, splits, scope, at, windows, chunks>> /\ planning' = "idle"
      /\ scope \in SUBSET Lines /\ at \in Nat \ {0} /\ at > Cardinality(scope)
      /\ Owned(chunks) = {l \in scope : Pos(scope, l) < at}
  BY DEF PlanInv, PlanTypeOK, CloseLines
<1>2. ASSUME NEW l \in scope
      PROVE  Pos(scope, l) < at
  <2>1. Pos(scope, l) \in 1 .. Cardinality(scope) /\ Cardinality(scope) \in Nat
    BY <1>1, PosBounds, ScopeSize
  <2> QED
    BY <1>1, <2>1
<1>3. Owned(chunks) = scope
  BY <1>1, <1>2
<1> QED
  BY <1>1, <1>3 DEF PlanInv, PlanTypeOK

LEMMA PlanGoesOn ==
    ASSUME PlanInv, PlanNext
    PROVE  PlanInv'
  BY TryPagePlans, TryBlockPlans, TryWindowPlans, CloseWindowsPlans, PlanLinePlans,
     CloseLinesPlans DEF PlanNext

LEMMA PlanStays ==
    ASSUME PlanInv, UNCHANGED planVars
    PROVE  PlanInv'
<1>1. /\ links' = links /\ splits' = splits /\ planning' = planning /\ scope' = scope
      /\ at' = at /\ windows' = windows /\ chunks' = chunks
  BY DEF planVars
<1>2. PlanTypeOK'
  BY <1>1 DEF PlanInv, PlanTypeOK
<1>3. UNCHANGED <<Division(chunks, scope), Owned(chunks), Adjoining(links, scope)>>
  BY <1>1
<1>4. \A l : UNCHANGED Pos(scope, l)
  BY <1>1
<1> QED
  BY <1>1, <1>2, <1>3, <1>4 DEF PlanInv

LEMMA PlanInvInit == PlanInit => PlanInv
<1> SUFFICES ASSUME PlanInit
             PROVE  PlanInv
  OBVIOUS
<1>1. /\ scope \in SUBSET Lines /\ at = 1 /\ windows = <<>> /\ chunks = <<>>
      /\ planning \in {"page", "block", "window", "line"}
      /\ links \in LinkSpace /\ splits = {}
  BY LinkChoicesAssumption DEF PlanInit
<1>2. PlanTypeOK
  BY <1>1, NoPlan DEF PlanTypeOK
<1>3. \A l \in scope : ~(Pos(scope, l) < 1)
  BY <1>1, PosBounds
<1> QED
  BY <1>1, <1>2, <1>3, NoPlan DEF PlanInv

(* No request of the planner is above max_lines_per_request but a window   *)
(* extended to hold a unit, however long the hyphen chains, on a page or   *)
(* on the targets of a failed chunk (planner.py).                          *)
THEOREM RequestsAreBounded == PlanSpec => []RequestsBounded
<1>1. PlanInv => RequestsBounded
  BY DEF PlanInv, Division, RequestsBounded
<1>2. PlanInv /\ [PlanNext]_planVars => PlanInv'
  BY PlanGoesOn, PlanStays
<1> QED
  BY <1>1, <1>2, PlanInvInit, PTL DEF PlanSpec

(* A finished plan gives every line of its scope one owner, which sends it *)
(* (planner.py, "Assign every line to exactly one target window").         *)
PlanOwnsScope ==
    planning = "idle" =>
        /\ \A l \in scope : \E k \in DOMAIN chunks :
              /\ l \in chunks[k].targets /\ l \in chunks[k].lines
              /\ \A j \in DOMAIN chunks : l \in chunks[j].targets => j = k
        /\ \A k \in DOMAIN chunks : chunks[k].lines \subseteq scope

THEOREM PlansOwnOnce == PlanSpec => []PlanOwnsScope
<1>1. PlanInv => PlanOwnsScope
  BY DEF PlanInv, PlanTypeOK, Division, Owned, PlanOwnsScope
<1>2. PlanInv /\ [PlanNext]_planVars => PlanInv'
  BY PlanGoesOn, PlanStays
<1> QED
  BY <1>1, <1>2, PlanInvInit, PTL DEF PlanSpec

-----------------------------------------------------------------------------
(* Severing (units.py, planner.py).  What follows needs links that agree   *)
(* from both ends, and bare ids that name one line: where two files number *)
(* their lines alike, the lookup by bare id can return another line than   *)
(* the partner.                                                            *)

OneLinePerId == \A l, m \in Lines : IdOf[l] = IdOf[m] => l = m

(* A severed tail continues nowhere, so no link is severed twice. *)
SeveringInv ==
    /\ links \in LinkSpace /\ Symmetric(links)
    /\ splits \subseteq Lines \X Lines
    /\ \A s \in splits : forward_partner_ref(links, s[1]) = NoLine

(* Severing tail -> head ends that link and changes no other one: a tail   *)
(* that was continued stays continued, a head that goes on goes on.        *)
LEMMA SplitPartners ==
    ASSUME NEW lk \in LinkSpace, Symmetric(lk), NEW tail \in Lines, NEW head \in Lines,
           tail # head, forward_partner_ref(lk, tail) = head,
           NEW new, new = split_forward_link(lk, tail, head)
    PROVE  /\ new \in LinkSpace
           /\ forward_partner_ref(new, tail) = NoLine
           /\ backward_partner_ref(new, head) = NoLine
           /\ \A l \in Lines \ {tail} : forward_partner_ref(new, l) = forward_partner_ref(lk, l)
           /\ \A l \in Lines \ {head} : backward_partner_ref(new, l) = backward_partner_ref(lk, l)
<1>1. /\ lk.role \in [Lines -> Roles]
      /\ lk.pair \in [Lines -> Lines \cup {NoLine}]
      /\ lk.forward \in [Lines -> Lines \cup {NoLine}]
  BY DEF LinkSpace
<1>2. tail # NoLine /\ head # NoLine
  BY DEF Lines, NoLine
<1>3. /\ lk.role[tail] \in {"PART1", "BOTH"}
      /\ lk.role[head] \in {"PART2", "BOTH"} /\ lk.pair[head] = tail
  <2>1. backward_partner_ref(lk, head) = tail
    BY DEF Symmetric
  <2> QED
    BY <1>2, <2>1 DEF forward_partner_ref, backward_partner_ref
<1>4. new \in LinkSpace
  BY <1>1 DEF split_forward_link, LinkSpace, Roles
<1>5. /\ new.role[tail] = IF lk.role[tail] = "BOTH" THEN "PART2" ELSE "NONE"
      /\ lk.role[tail] = "BOTH" => new.pair[tail] = lk.pair[tail]
  BY <1>1 DEF split_forward_link
<1>6. /\ new.role[head] = IF lk.role[head] = "BOTH" THEN "PART1" ELSE "NONE"
      /\ lk.role[head] = "BOTH" => new.pair[head] = lk.forward[head]
  BY <1>1 DEF split_forward_link
<1>7. \A l \in Lines \ {tail, head} :
         new.role[l] = lk.role[l] /\ new.pair[l] = lk.pair[l] /\ new.forward[l] = lk.forward[l]
  BY <1>1 DEF split_forward_link
<1>8. /\ forward_partner_ref(new, tail) = NoLine
      /\ backward_partner_ref(new, tail) = backward_partner_ref(lk, tail)
  BY <1>3, <1>5 DEF forward_partner_ref, backward_partner_ref
<1>9. /\ backward_partner_ref(new, head) = NoLine
      /\ forward_partner_ref(new, head) = forward_partner_ref(lk, head)
  BY <1>3, <1>6 DEF forward_partner_ref, backward_partner_ref
<1>10. \A l \in Lines \ {tail, head} :
          /\ forward_partner_ref(new, l) = forward_partner_ref(lk, l)
          /\ backward_partner_ref(new, l) = backward_partner_ref(lk, l)
  BY <1>7 DEF forward_partner_ref, backward_partner_ref
<1> QED
  BY <1>4, <1>8, <1>9, <1>10

LEMMA SplitStaysSymmetric ==
    ASSUME NEW lk \in LinkSpace, Symmetric(lk), NEW tail \in Lines, NEW head \in Lines,
           tail # head, forward_partner_ref(lk, tail) = head
    PROVE  Symmetric(split_forward_link(lk, tail, head))
<1>1. PICK new : new = split_forward_link(lk, tail, head)
  OBVIOUS
<1>2. /\ forward_partner_ref(new, tail) = NoLine
      /\ backward_partner_ref(new, head) = NoLine
      /\ \A l \in Lines \ {tail} : forward_partner_ref(new, l) = forward_partner_ref(lk, l)
      /\ \A l \in Lines \ {head} : backward_partner_ref(new, l) = backward_partner_ref(lk, l)
  BY <1>1, SplitPartners
<1>3. ASSUME NEW l \in Lines, NEW m \in Lines
      PROVE  forward_partner_ref(new, l) = m <=> backward_partner_ref(new, m) = l
  <2>1. forward_partner_ref(lk, l) = m <=> backward_partner_ref(lk, m) = l
    BY DEF Symmetric
  <2>2. l # NoLine /\ m # NoLine
    BY DEF Lines, NoLine
  <2>3. CASE l = tail /\ m = head
    BY <1>2, <2>2, <2>3
  <2>4. CASE l = tail /\ m # head
    BY <1>2, <2>1, <2>2, <2>4
  <2>5. CASE l # tail /\ m = head
    <3>1. backward_partner_ref(lk, head) = tail
      BY DEF Symmetric
    <3> QED
      BY <1>2, <2>1, <2>2, <2>5, <3>1
  <2>6. CASE l # tail /\ m # head
    BY <1>2, <2>1, <2>6
  <2> QED
    BY <2>3, <2>4, <2>5, <2>6
<1> QED
  BY <1>1, <1>3 DEF Symmetric

(* The LINE loop severs the link it records, or none. *)
LEMMA PlanLineSevers ==
    ASSUME OneLinePerId, SeveringInv, PlanLine, scope \in SUBSET Lines, at \in Nat \ {0}
    PROVE  \/ UNCHANGED <<links, splits>>
           \/ \E tail, head \in Lines :
                 /\ tail # head /\ forward_partner_ref(links, tail) = head
                 /\ links' = split_forward_link(links, tail, head)
                 /\ splits' = splits \cup {<<tail, head>>}
<1>1. PICK tail \in scope :
          /\ Pos(scope, tail) = ChainEnd(links, scope, at)
          /\ \/ UNCHANGED <<links, splits>>
             \/ \E head \in ForwardById(links, tail, scope)
                               \ Slice(scope, at, ChainEnd(links, scope, at)) :
                   /\ links' = split_forward_link(links, tail, head)
                   /\ splits' = splits \cup {<<tail, head>>}
  BY DEF PlanLine
<1>2. tail \in Slice(scope, at, ChainEnd(links, scope, at))
  <2>1. at =< Cardinality(scope) /\ Cardinality(scope) \in Nat /\ MaxLines \in Nat
    BY ScopeSize, PlannerAssumption DEF PlanLine
  <2>2. ChainEnd(links, scope, at) \in at .. (at + MaxLines - 1)
    BY <2>1, ChainEndBounds
  <2> QED
    BY <1>1, <2>1, <2>2 DEF Slice
<1>3. ASSUME NEW head \in ForwardById(links, tail, scope)
      PROVE  head \in Lines /\ forward_partner_ref(links, tail) = head
  <2>1. head \in Lines /\ forward_partner_ref(links, tail) # NoLine
        /\ IdOf[head] = IdOf[forward_partner_ref(links, tail)]
    BY <1>3 DEF ForwardById
  <2>2. forward_partner_ref(links, tail) \in Lines
    BY <2>1 DEF SeveringInv, LinkSpace, forward_partner_ref
  <2> QED
    BY <2>1, <2>2 DEF OneLinePerId
<1> QED
  BY <1>1, <1>2, <1>3

(* What a step may do to a link. *)
Severs ==
    /\ \A l \in Lines :
          forward_partner_ref(links, l) # forward_partner_ref(links', l) =>
              planning = "line" /\ \E h \in Lines : <<l, h>> \in splits' \ splits
    /\ \A s \in splits' \ splits : forward_partner_ref(links, s[1]) = s[2]

LEMMA PlanSevers ==
    ASSUME OneLinePerId, SeveringInv, PlanNext, scope \in SUBSET Lines, at \in Nat \ {0}
    PROVE  SeveringInv' /\ Severs
<1>1. CASE UNCHANGED <<links, splits>>
  BY <1>1 DEF SeveringInv, Severs, Symmetric
<1>2. CASE PlanLine
  <2>1. SUFFICES ASSUME NEW tail \in Lines, NEW head \in Lines, tail # head,
                        forward_partner_ref(links, tail) = head,
                        links' = split_forward_link(links, tail, head),
                        splits' = splits \cup {<<tail, head>>}
                 PROVE  SeveringInv' /\ Severs
    BY <1>1, <1>2, PlanLineSevers
  <2>2. /\ links' \in LinkSpace
        /\ forward_partner_ref(links', tail) = NoLine
        /\ \A l \in Lines \ {tail} : forward_partner_ref(links', l) = forward_partner_ref(links, l)
    BY <2>1, SplitPartners DEF SeveringInv
  <2>3. Symmetric(links')
    BY <2>1, SplitStaysSymmetric DEF SeveringInv
  <2>4. <<tail, head>> \notin splits
    <3>1. head # NoLine
      BY DEF Lines, NoLine
    <3> QED
      BY <2>1, <3>1 DEF SeveringInv
  <2>5. SeveringInv'
    <3>1. \A s \in splits' : s \in Lines \X Lines /\ forward_partner_ref(links', s[1]) = NoLine
      BY <2>1, <2>2 DEF SeveringInv
    <3> QED
      BY <2>2, <2>3, <3>1 DEF SeveringInv, Symmetric
  <2>6. Severs
    <3>1. \A l \in Lines : forward_partner_ref(links, l) # forward_partner_ref(links', l) => l = tail
      BY <2>2
    <3>2. <<tail, head>> \in splits' \ splits /\ \A s \in splits' \ splits : s = <<tail, head>>
      BY <2>1, <2>4
    <3>3. planning = "line"
      BY <1>2 DEF PlanLine
    <3> QED
      BY <2>1, <3>1, <3>2, <3>3 DEF Severs
  <2> QED
    BY <2>5, <2>6
<1> QED
  BY <1>1, <1>2 DEF PlanNext, TryPage, TryBlock, TryWindow, CloseWindows, CloseLines

(* A link disappears only where the LINE loop severs it, and the split it  *)
(* records names the link it severed (planner.py, HyphenSplit): for every  *)
(* page and configuration, when links agree from both ends and a bare id   *)
(* names one line.                                                         *)
THEOREM OnlyRecordedSplits ==
    ASSUME OneLinePerId, \A lk \in LinkChoices : Symmetric(lk)
    PROVE  PlanSpec => OnlySplitsSever
<1>1. PlanInit => SeveringInv
  BY LinkChoicesAssumption DEF PlanInit, SeveringInv
<1>2. PlanInv /\ SeveringInv /\ [PlanNext]_planVars => SeveringInv' /\ [Severs]_planVars
  <2>1. PlanInv => scope \in SUBSET Lines /\ at \in Nat \ {0}
    BY DEF PlanInv, PlanTypeOK
  <2>2. SeveringInv /\ UNCHANGED planVars => SeveringInv'
    BY DEF SeveringInv, planVars, Symmetric
  <2> QED
    BY <2>1, <2>2, PlanSevers
<1>3. PlanInv /\ [PlanNext]_planVars => PlanInv'
  BY PlanGoesOn, PlanStays
<1> QED
  BY <1>1, <1>2, <1>3, PlanInvInit, PTL DEF PlanSpec, OnlySplitsSever, Severs

-----------------------------------------------------------------------------
(* The line a word goes on with is sent along (planner.py).  What follows  *)
(* needs links that go down the page, and no further than a window may     *)
(* grow past its core: behind more blank lines than that, a head is out of *)
(* its tail's window and no other window owns both.                        *)

LinksNear(lk) ==
    \A l, m \in Lines :
        /\ forward_partner_ref(lk, l) = m =>
              l < m /\ (PageOf[l] = PageOf[m] => m =< l + ExtensionSlack)
        /\ backward_partner_ref(lk, m) = l => l < m

(* Every chunk that still has a choice sends the head of what it owns. *)
PartnersSent ==
    \A k \in DOMAIN chunks :
        chunks[k].gran # "LINE" =>
            \A l \in chunks[k].targets, m \in scope :
                forward_partner_ref(links, l) = m => m \in chunks[k].lines

(* A window without the head of one of its lines is not the last window to *)
(* hold that line.                                                         *)
HeadsReached ==
    planning = "window" =>
        \A k \in DOMAIN windows : \A l \in windows[k], m \in scope :
            forward_partner_ref(links, l) = m =>
                \/ m \in windows[k]
                \/ Pos(scope, l) >= at
                \/ \E j \in DOMAIN windows : j > k /\ l \in windows[j]

PartnersInv ==
    /\ LinksNear(links)
    /\ \A l, m \in scope : PageOf[l] = PageOf[m]
    /\ planning = "line" => \A k \in DOMAIN chunks : chunks[k].gran = "LINE"
    /\ HeadsReached /\ PartnersSent

(* Whatever line the bare id stood for, a severing only ends links. *)
LEMMA SplitEndsLinks ==
    ASSUME NEW lk \in LinkSpace, NEW tail \in Lines, NEW head \in Lines, tail # head,
           NEW new, new = split_forward_link(lk, tail, head), NEW l \in Lines
    PROVE  /\ forward_partner_ref(new, l) \in {NoLine, forward_partner_ref(lk, l)}
           /\ backward_partner_ref(new, l) \in {NoLine, backward_partner_ref(lk, l)}
<1>1. /\ lk.role \in [Lines -> Roles] /\ lk.pair \in [Lines -> Lines \cup {NoLine}]
      /\ lk.forward \in [Lines -> Lines \cup {NoLine}]
  BY DEF LinkSpace
<1>2. CASE l = tail
  <2>1. /\ new.role[l] = IF lk.role[l] = "BOTH" THEN "PART2" ELSE "NONE"
        /\ lk.role[l] = "BOTH" => new.pair[l] = lk.pair[l]
    BY <1>1, <1>2 DEF split_forward_link
  <2> QED
    BY <2>1 DEF forward_partner_ref, backward_partner_ref
<1>3. CASE l = head
  <2>1. /\ new.role[l] = IF lk.role[l] = "BOTH" THEN "PART1" ELSE "NONE"
        /\ lk.role[l] = "BOTH" => new.pair[l] = lk.forward[l]
    BY <1>1, <1>3 DEF split_forward_link
  <2> QED
    BY <2>1 DEF forward_partner_ref, backward_partner_ref
<1>4. CASE l \notin {tail, head}
  <2>1. new.role[l] = lk.role[l] /\ new.pair[l] = lk.pair[l] /\ new.forward[l] = lk.forward[l]
    BY <1>1, <1>4 DEF split_forward_link
  <2> QED
    BY <2>1 DEF forward_partner_ref, backward_partner_ref
<1> QED
  BY <1>2, <1>3, <1>4

(* The LINE loop ends links, and no other loop touches them. *)
EndsLinks ==
    \A l \in Lines :
        /\ forward_partner_ref(links', l) \in {NoLine, forward_partner_ref(links, l)}
        /\ backward_partner_ref(links', l) \in {NoLine, backward_partner_ref(links, l)}

LEMMA PlanEndsLinks ==
    ASSUME PlanTypeOK, PlanNext
    PROVE  EndsLinks /\ (UNCHANGED links \/ planning = "line")
<1>1. CASE UNCHANGED links
  BY <1>1 DEF EndsLinks
<1>2. CASE PlanLine
  <2>1. PICK tail \in scope :
          /\ Pos(scope, tail) = ChainEnd(links, scope, at)
          /\ \/ UNCHANGED <<links, splits>>
             \/ \E head \in ForwardById(links, tail, scope)
                               \ Slice(scope, at, ChainEnd(links, scope, at)) :
                   links' = split_forward_link(links, tail, head)
    BY <1>2 DEF PlanLine
  <2>2. scope \in SUBSET Lines /\ links \in LinkSpace /\ at \in Nat \ {0}
    BY DEF PlanTypeOK
  <2>3. tail \in Slice(scope, at, ChainEnd(links, scope, at))
    <3>1. at \in 1 .. Cardinality(scope) /\ Cardinality(scope) \in Nat /\ MaxLines \in Nat
      BY <1>2, <2>2, ScopeSize, PlannerAssumption DEF PlanLine
    <3>2. ChainEnd(links, scope, at) \in at .. (at + MaxLines - 1)
      BY <2>2, <3>1, ChainEndBounds
    <3> QED
      BY <2>1, <3>1, <3>2 DEF Slice
  <2>4. ASSUME NEW head \in ForwardById(links, tail, scope)
                               \ Slice(scope, at, ChainEnd(links, scope, at)),
               links' = split_forward_link(links, tail, head)
        PROVE  EndsLinks
    <3>1. head \in Lines /\ tail \in Lines /\ tail # head
      BY <2>2, <2>3 DEF ForwardById
    <3> QED
      BY <2>2, <2>4, <3>1, SplitEndsLinks DEF EndsLinks
  <2>5. planning = "line"
    BY <1>2 DEF PlanLine
  <2> QED
    BY <1>1, <2>1, <2>4, <2>5
<1> QED
  BY <1>1, <1>2 DEF PlanNext, TryPage, TryBlock, TryWindow, CloseWindows, CloseLines

LEMMA NearStays == LinksNear(links) /\ EndsLinks => LinksNear(links')
<1> SUFFICES ASSUME LinksNear(links), EndsLinks, NEW l \in Lines, NEW m \in Lines
             PROVE  /\ forward_partner_ref(links', l) = m =>
                          l < m /\ (PageOf[l] = PageOf[m] => m =< l + ExtensionSlack)
                    /\ backward_partner_ref(links', m) = l => l < m
  BY DEF LinksNear
<1>1. l # NoLine /\ m # NoLine
  BY DEF Lines, NoLine
<1>2. /\ forward_partner_ref(links', l) = m => forward_partner_ref(links, l) = m
      /\ backward_partner_ref(links', m) = l => backward_partner_ref(links, m) = l
  BY <1>1 DEF EndsLinks
<1> QED
  BY <1>2 DEF LinksNear

(* A line before the next window's start has its head in this window. *)
LEMMA WindowHoldsHead ==
    ASSUME NEW lk, LinksNear(lk), NEW S \in SUBSET Lines, NEW i \in 1 .. Cardinality(S),
           NEW l \in S, NEW m \in S, forward_partner_ref(lk, l) = m, PageOf[l] = PageOf[m],
           i =< Pos(S, l), Pos(S, l) < NextStart(S, i)
    PROVE  m \in Slice(S, i, WindowEnd(lk, S, i) - 1)
<1> DEFINE end == WindowEnd(lk, S, i)
           core == CoreEnd(S, i)
           n == Cardinality(S)
           U == {end} \cup {p \in (end + 1) .. (n + 1) :
                    \E x \in Slice(S, i, end - 1) : \E y \in ForwardById(lk, x, S) : Pos(S, y) = p - 1}
<1>1. l \in Lines /\ m \in Lines /\ l < m /\ m =< l + ExtensionSlack /\ l \in Int /\ m \in Int
  BY DEF LinksNear, Lines
<1>2. /\ Pos(S, l) \in 1 .. n /\ Pos(S, m) \in 1 .. n
      /\ Pos(S, l) < Pos(S, m) /\ Pos(S, m) =< Pos(S, l) + (m - l)
  BY <1>1, PosBounds, PosIncreases, PosGap
<1>3. /\ n \in Nat /\ ExtensionSlack \in Nat /\ NextStart(S, i) \in Nat
      /\ core \in Nat /\ end \in core .. (n + 1)
      /\ NextStart(S, i) =< core \/ core = n + 1
      /\ end = n + 1 \/ end >= core + ExtensionSlack \/ UnitReach(lk, S, i, end) =< end
  BY ScopeSize, PlannerAssumption, CoreEndBounds, WindowBounds, NextWindow
<1>4. Pos(S, m) =< Pos(S, l) + ExtensionSlack
  BY <1>1, <1>2, <1>3
<1>5. UnitReach(lk, S, i, end) = Max(U)
  BY DEF UnitReach
<1>6. l \in Slice(S, i, end - 1) \/ end =< Pos(S, l)
  BY <1>2, <1>3 DEF Slice
<1>7. m \in ForwardById(lk, l, S)
  BY <1>1 DEF ForwardById, Lines, NoLine
<1> HIDE DEF end, core, n
<1>8. Pos(S, m) < end
  <2>1. CASE core = n + 1 \/ end = n + 1 \/ end >= core + ExtensionSlack
    BY <1>2, <1>3, <1>4, <2>1
  <2>2. CASE NextStart(S, i) =< core /\ UnitReach(lk, S, i, end) =< end
    <3>1. SUFFICES ASSUME end =< Pos(S, m)
                   PROVE  FALSE
      BY <1>2, <1>3
    <3>2. l \in Slice(S, i, end - 1)
      BY <1>2, <1>3, <1>6, <2>2
    <3>3. Pos(S, m) + 1 \in (end + 1) .. (n + 1) /\ (Pos(S, m) + 1) - 1 = Pos(S, m)
      BY <1>2, <1>3, <3>1
    <3>4. Pos(S, m) + 1 \in U
      BY <1>7, <3>2, <3>3
    <3>5. U \in SUBSET (0 .. (n + 1)) /\ n + 1 \in Nat
      BY <1>3
    <3> HIDE DEF U
    <3>6. Pos(S, m) + 1 =< Max(U) /\ Max(U) \in 0 .. (n + 1)
      <4>1. U # {}
        BY <3>4
      <4> QED
        BY <3>4, <3>5, <4>1, MaxOfNaturals
    <3> QED
      BY <1>2, <1>3, <1>5, <2>2, <3>1, <3>6
  <2> QED
    BY <1>3, <2>1, <2>2
<1>9. i =< Pos(S, m) /\ Pos(S, m) =< end - 1
  BY <1>2, <1>3, <1>8
<1> QED
  BY <1>9 DEF Slice, end

(* plan_page, wherever it is called from. *)
LEMMA PartnersBegin ==
    ASSUME LinksNear(links), NEW S, NEW first, BeginPlan(S, first),
           \A l, m \in S : PageOf[l] = PageOf[m]
    PROVE  PartnersInv'
<1>1. /\ links' = links /\ scope' = S /\ chunks' = <<>> /\ windows' = <<>>
      /\ DOMAIN chunks' = {} /\ DOMAIN windows' = {}
  BY DEF BeginPlan
<1>2. LinksNear(links')
  BY <1>1
<1> QED
  BY <1>1, <1>2 DEF PartnersInv, HeadsReached, PartnersSent, LinksNear

(* Blocks linked by a unit are in one group. *)
LEMMA BlocksSendPartners ==
    ASSUME PlanInv, planning = "block"
    PROVE  /\ \A k \in DOMAIN chunks : \A l \in chunks[k].targets, m \in scope :
                 forward_partner_ref(links, l) = m => m \in chunks[k].targets
           /\ PartnersSent
<1>1. ASSUME NEW k \in DOMAIN chunks, NEW l \in chunks[k].targets, NEW m \in scope,
             forward_partner_ref(links, l) = m
      PROVE  m \in chunks[k].lines /\ m \in chunks[k].targets
  <2>1. /\ scope \in SUBSET Lines /\ chunks[k].targets = chunks[k].lines
        /\ chunks[k].lines \subseteq scope
        /\ \A y \in chunks[k].lines : Adjoining(links, scope)[y] \subseteq chunks[k].lines
    BY <1>1 DEF PlanInv, PlanTypeOK, Division
  <2>2. m # NoLine
    BY <2>1 DEF Lines, NoLine
  <2>3. m \in Linked(links, l, scope)
    BY <1>1, <2>2 DEF Linked, forward_partner_ref
  <2>4. l \in scope /\ m \in Adjoining(links, scope)[l]
    BY <1>1, <2>1, <2>3 DEF Adjoining
  <2> QED
    BY <1>1, <2>1, <2>4
<1> QED
  BY <1>1 DEF PartnersSent

LEMMA TryWindowReaches ==
    ASSUME PlanInv, PartnersInv, TryWindow
    PROVE  HeadsReached'
<1> DEFINE end == WindowEnd(links, scope, at)
           w == Slice(scope, at, end - 1)
           n == Cardinality(scope)
<1>1. /\ UNCHANGED <<links, scope>> /\ planning = "window"
      /\ scope \in SUBSET Lines /\ at \in Nat \ {0} /\ at =< n
      /\ windows \in Seq(SUBSET Lines) /\ \A k \in DOMAIN windows : windows[k] \subseteq scope
      /\ at' = NextStart(scope, at) /\ windows' = Append(windows, w)
  BY DEF PlanInv, PlanTypeOK, TryWindow
<1>2. n \in Nat /\ at \in 1 .. n
  BY <1>1, ScopeSize
<1>3. /\ at' \in Nat /\ end \in Nat
      /\ at' =< end \/ end = n + 1
  BY <1>1, <1>2, NextWindow, WindowBounds, CoreEndBounds
<1>4. /\ w \subseteq scope
      /\ \A l \in w : at =< Pos(scope, l)
      /\ \A l \in scope : at =< Pos(scope, l) /\ Pos(scope, l) =< end - 1 => l \in w
  BY DEF Slice
<1>5. \A l \in scope : Pos(scope, l) \in 1 .. n
  BY <1>1, PosBounds
<1>6. ASSUME NEW l \in w, NEW m \in scope, forward_partner_ref(links, l) = m,
             ~(Pos(scope, l) >= at')
      PROVE  m \in w
  <2>1. l \in scope /\ PageOf[l] = PageOf[m] /\ LinksNear(links) /\ at =< Pos(scope, l)
    BY <1>4, <1>6 DEF PartnersInv
  <2>2. Pos(scope, l) < NextStart(scope, at)
    BY <1>1, <1>3, <1>5, <1>6, <2>1
  <2> QED
    BY <1>1, <1>2, <1>6, <2>1, <2>2, WindowHoldsHead
<1> DEFINE last == Len(windows) + 1
<1> HIDE DEF w, end, n
<1>7. /\ w \in SUBSET Lines /\ last \in Nat /\ last \in DOMAIN windows' /\ windows'[last] = w
      /\ \A k \in DOMAIN windows : k \in DOMAIN windows' /\ k < last /\ windows'[k] = windows[k]
      /\ \A k \in DOMAIN windows' : k \in DOMAIN windows \/ k = last
  BY <1>1, <1>4
<1> HIDE DEF last
<1>8. ASSUME NEW k \in DOMAIN windows', NEW l \in windows'[k], NEW m \in scope,
             forward_partner_ref(links, l) = m
      PROVE  \/ m \in windows'[k]
             \/ Pos(scope, l) >= at'
             \/ \E j \in DOMAIN windows' : j > k /\ l \in windows'[j]
  <2>1. CASE k = last
    BY <1>6, <1>7, <1>8, <2>1
  <2>2. CASE k \in DOMAIN windows
    <3>1. l \in windows[k] /\ l \in scope
      BY <1>1, <1>7, <1>8, <2>2
    <3>2. \/ m \in windows[k] \/ Pos(scope, l) >= at
          \/ \E j \in DOMAIN windows : j > k /\ l \in windows[j]
      BY <1>1, <1>8, <2>2, <3>1 DEF PartnersInv, HeadsReached
    <3>3. CASE Pos(scope, l) >= at /\ ~(Pos(scope, l) >= at')
      <4>1. at =< Pos(scope, l) /\ Pos(scope, l) =< end - 1
        BY <1>2, <1>3, <1>5, <3>1, <3>3
      <4> QED
        BY <1>4, <1>7, <2>2, <3>1, <4>1
    <3> QED
      BY <1>7, <2>2, <3>2, <3>3
  <2> QED
    BY <1>7, <2>1, <2>2
<1> QED
  BY <1>1, <1>8 DEF HeadsReached

(* Lines of one unit have the same unit. *)
LEMMA LinkedShareUnit ==
    ASSUME NEW lk, NEW S, NEW l \in S, NEW m \in Linked(lk, l, S)
    PROVE  m \in Unit(lk, l, S) /\ Unit(lk, l, S) = Unit(lk, m, S)
<1> DEFINE next == [x \in S |-> Linked(lk, x, S)]
<1>1. /\ m \in S /\ \A y \in S : next[y] \subseteq S
      /\ m \in next[l] /\ l \in next[m]
  BY DEF Linked
<1>2. Unit(lk, l, S) = Reachable(l, S, next) /\ Unit(lk, m, S) = Reachable(m, S, next)
  BY DEF Unit
<1> HIDE DEF next
<1>3. /\ l \in Unit(lk, l, S) /\ \A y \in Unit(lk, l, S) : next[y] \subseteq Unit(lk, l, S)
      /\ m \in Unit(lk, m, S) /\ \A y \in Unit(lk, m, S) : next[y] \subseteq Unit(lk, m, S)
      /\ Unit(lk, l, S) \subseteq S /\ Unit(lk, m, S) \subseteq S
  BY <1>1, <1>2, ReachableClosed, ReachableInside
<1>4. m \in Unit(lk, l, S) /\ l \in Unit(lk, m, S)
  BY <1>1, <1>3
<1>5. Unit(lk, l, S) \subseteq Unit(lk, m, S)
  <2>1. Reachable(l, S, next) \subseteq Unit(lk, m, S)
    BY <1>3, <1>4, ReachableLeast
  <2> QED
    BY <1>2, <2>1
<1>6. Unit(lk, m, S) \subseteq Unit(lk, l, S)
  <2>1. Reachable(m, S, next) \subseteq Unit(lk, l, S)
    BY <1>3, <1>4, ReachableLeast
  <2> QED
    BY <1>2, <2>1
<1> QED
  BY <1>4, <1>5, <1>6

(* The window that owns a line holds the line its word goes on with, which *)
(* no earlier window owns.                                                 *)
LEMMA OwnerHoldsHead ==
    ASSUME PlanInv, PartnersInv, planning = "window", at > Cardinality(scope),
           NEW l \in scope, NEW m \in scope, forward_partner_ref(links, l) = m
    PROVE  /\ m \in windows[TargetWindow(links, scope, windows, l)]
           /\ TargetWindow(links, scope, windows, l) =< TargetWindow(links, scope, windows, m)
<1> DEFINE k == TargetWindow(links, scope, windows, l)
           common(x) == {j \in DOMAIN windows : Unit(links, x, scope) \subseteq windows[j]}
           holding(x) == {j \in DOMAIN windows : x \in windows[j]}
<1>1. /\ scope \in SUBSET Lines /\ at \in Nat /\ windows \in Seq(SUBSET Lines)
      /\ \A x \in scope : Pos(scope, x) < at => \E j \in DOMAIN windows : x \in windows[j]
  BY DEF PlanInv, PlanTypeOK
<1>2. \A x \in scope : Pos(scope, x) \in 1 .. Cardinality(scope) /\ Cardinality(scope) \in Nat
  BY <1>1, PosBounds, ScopeSize
<1>3. \A x \in scope : holding(x) # {}
  BY <1>1, <1>2
<1>4. m \in Linked(links, l, scope)
  BY <1>1 DEF Linked, forward_partner_ref, Lines, NoLine
<1>5. m \in Unit(links, l, scope) /\ common(l) = common(m)
  BY <1>4, LinkedShareUnit
<1>6. \A x \in scope : TargetWindow(links, scope, windows, x) =
                          IF common(x) # {} THEN Max(common(x)) ELSE Max(holding(x))
  BY DEF TargetWindow
<1>7. \A x \in scope : /\ common(x) \in SUBSET (0 .. Len(windows))
                        /\ holding(x) \in SUBSET (0 .. Len(windows))
  BY <1>1
<1>8. Len(windows) \in Nat
  BY <1>1
<1>9. CASE common(l) # {}
  <2>1. k = Max(common(l)) /\ TargetWindow(links, scope, windows, m) = k
    BY <1>5, <1>6, <1>9
  <2>2. Max(common(l)) \in common(l)
    <3>1. common(l) \in SUBSET (0 .. Len(windows))
      BY <1>7
    <3> HIDE DEF common
    <3> QED
      BY <1>8, <1>9, <3>1, MaxOfNaturals
  <2>3. k \in Nat
    BY <1>1, <2>1, <2>2
  <2> QED
    BY <1>5, <2>1, <2>2, <2>3
<1>10. CASE common(l) = {}
  <2>1. k = Max(holding(l)) /\ TargetWindow(links, scope, windows, m) = Max(holding(m))
    BY <1>5, <1>6, <1>10
  <2>2. /\ Max(holding(l)) \in holding(l) /\ \A j \in holding(l) : j =< Max(holding(l))
        /\ \A j \in holding(m) : j =< Max(holding(m))
    <3>1. /\ holding(l) \in SUBSET (0 .. Len(windows)) /\ holding(l) # {}
          /\ holding(m) \in SUBSET (0 .. Len(windows)) /\ holding(m) # {}
      BY <1>3, <1>7
    <3> HIDE DEF holding
    <3> QED
      BY <1>8, <3>1, MaxOfNaturals
  <2>3. ~(Pos(scope, l) >= at)
    BY <1>1, <1>2
  <2>4. k \in DOMAIN windows /\ l \in windows[k] /\ \A j \in DOMAIN windows : l \in windows[j] => j =< k
    BY <2>1, <2>2
  <2> HIDE DEF k
  <2>5. \A j \in DOMAIN windows : ~(j > k /\ l \in windows[j])
    BY <1>1, <2>4
  <2>6. m \in windows[k]
    BY <2>3, <2>4, <2>5 DEF PartnersInv, HeadsReached
  <2>7. k =< Max(holding(m))
    BY <2>2, <2>4, <2>6
  <2> QED
    BY <2>1, <2>6, <2>7 DEF k
<1> QED
  BY <1>9, <1>10

LEMMA CloseWindowsSends ==
    ASSUME PlanInv, PartnersInv, CloseWindows
    PROVE  PartnersSent'
<1> DEFINE owner == [l \in scope |-> TargetWindow(links, scope, windows, l)]
           c(k) == [gran |-> "WINDOW", lines |-> windows[k],
                    targets |-> {l \in windows[k] : owner[l] = k}]
<1>1. /\ UNCHANGED <<links, scope>> /\ planning = "window"
      /\ scope \in SUBSET Lines /\ at \in Nat /\ at > Cardinality(scope)
      /\ windows \in Seq(SUBSET Lines) /\ \A k \in DOMAIN windows : windows[k] \subseteq scope
  BY DEF PlanInv, PlanTypeOK, CloseWindows
<1>2. chunks' = [k \in 1 .. Len(windows) |-> c(k)] /\ DOMAIN windows = 1 .. Len(windows)
  BY <1>1 DEF CloseWindows, AssignWindowTargets
<1>3. ASSUME NEW k \in DOMAIN windows, NEW l \in windows[k], owner[l] = k, NEW m \in scope,
             forward_partner_ref(links, l) = m
      PROVE  m \in windows[k]
  <2>1. l \in scope
    BY <1>1
  <2>2. k = TargetWindow(links, scope, windows, l)
    BY <1>3, <2>1
  <2> QED
    BY <1>1, <1>3, <2>1, <2>2, OwnerHoldsHead
<1> HIDE DEF owner
<1>4. ASSUME NEW k \in 1 .. Len(windows)
      PROVE  c(k).lines = windows[k] /\ c(k).targets = {l \in windows[k] : owner[l] = k}
  OBVIOUS
<1> HIDE DEF c
<1>5. ASSUME NEW k \in DOMAIN chunks', NEW l \in chunks'[k].targets, NEW m \in scope,
             forward_partner_ref(links, l) = m
      PROVE  m \in chunks'[k].lines
  <2>1. k \in 1 .. Len(windows) /\ chunks'[k] = c(k)
    BY <1>2
  <2> QED
    BY <1>2, <1>3, <1>4, <1>5, <2>1
<1> QED
  BY <1>1, <1>5 DEF PartnersSent

LEMMA PartnersGoOn ==
    ASSUME PlanInv, PartnersInv, PlanNext
    PROVE  PartnersInv'
<1>1. /\ LinksNear(links') /\ scope' = scope
      /\ UNCHANGED links \/ planning = "line"
  <2>1. EndsLinks /\ (UNCHANGED links \/ planning = "line")
    BY PlanEndsLinks DEF PlanInv
  <2>2. scope' = scope
    BY DEF PlanNext, TryPage, TryBlock, TryWindow, CloseWindows, PlanLine, CloseLines
  <2> QED
    BY <2>1, <2>2, NearStays DEF PartnersInv
<1>2. \A l, m \in scope' : PageOf[l] = PageOf[m]
  BY <1>1 DEF PartnersInv
<1>3. PlanInv'
  BY PlanGoesOn
<1>4. CASE TryPage
  <2>1. chunks = <<>> /\ DOMAIN <<>> = {}
    BY <1>4 DEF TryPage, PlanInv
  <2>2. \/ chunks' = <<WholeChunk("PAGE", scope)>> /\ planning' = "idle"
        \/ chunks' = <<>> /\ planning' = "block"
    BY <1>4 DEF TryPage
  <2>3. \A k \in DOMAIN chunks' : chunks'[k].lines = scope
    BY <2>1, <2>2 DEF WholeChunk
  <2> QED
    BY <1>1, <1>2, <2>2, <2>3 DEF PartnersInv, HeadsReached, PartnersSent, LinksNear
<1>5. CASE TryBlock
  <2>1. UNCHANGED <<links, scope, at, windows>> /\ planning = "block"
    BY <1>5 DEF TryBlock
  <2>2. \/ chunks' = chunks /\ planning' = "idle"
        \/ chunks' = <<>> /\ planning' = "window"
        \/ planning' = "block"
    BY <1>5, <2>1 DEF TryBlock
  <2>3. windows = <<>> /\ DOMAIN windows = {}
    BY <2>1 DEF PlanInv
  <2>4. PartnersSent'
    <3>1. CASE chunks' = chunks
      BY <1>1, <2>1, <3>1, BlocksSendPartners DEF PartnersSent
    <3>2. CASE chunks' = <<>>
      <4>1. DOMAIN chunks' = {}
        BY <3>2
      <4> QED
        BY <4>1 DEF PartnersSent
    <3>3. CASE planning' = "block"
      <4>1. (PlanInv /\ planning = "block" => PartnersSent)'
        BY <1>3, <3>3, BlocksSendPartners, PTL
      <4> QED
        BY <1>3, <3>3, <4>1
    <3> QED
      BY <2>2, <3>1, <3>2, <3>3
  <2> QED
    BY <1>1, <1>2, <2>1, <2>2, <2>3, <2>4 DEF PartnersInv, HeadsReached, LinksNear
<1>6. CASE TryWindow
  <2>1. UNCHANGED <<links, scope, chunks, planning>> /\ planning = "window"
    BY <1>6 DEF TryWindow
  <2> QED
    BY <1>1, <1>2, <1>6, <2>1, TryWindowReaches DEF PartnersInv, PartnersSent, LinksNear
<1>7. CASE CloseWindows
  <2>1. planning' = "idle"
    BY <1>7 DEF CloseWindows
  <2> QED
    BY <1>1, <1>2, <1>7, <2>1, CloseWindowsSends DEF PartnersInv, HeadsReached
<1>8. CASE PlanLine
  <2>1. planning = "line" /\ planning' = "line" /\ chunks \in Seq(Chunk)
        /\ \E body : chunks' = Append(chunks, WholeChunk("LINE", body))
    BY <1>8 DEF PlanLine, PlanInv, PlanTypeOK
  <2>2. \A k \in DOMAIN chunks' : chunks'[k].gran = "LINE"
    <3>1. PICK c : chunks' = Append(chunks, c) /\ c.gran = "LINE"
      BY <2>1 DEF WholeChunk
    <3>2. \A k \in DOMAIN chunks' : chunks'[k] = c \/ (k \in DOMAIN chunks /\ chunks'[k] = chunks[k])
      BY <2>1, <3>1
    <3> QED
      BY <2>1, <3>1, <3>2 DEF PartnersInv
  <2> QED
    BY <1>1, <1>2, <2>1, <2>2 DEF PartnersInv, HeadsReached, PartnersSent
<1>9. CASE CloseLines
  <2>1. planning = "line" /\ planning' = "idle" /\ UNCHANGED <<links, scope, chunks>>
    BY <1>9 DEF CloseLines
  <2> QED
    BY <1>1, <1>2, <2>1 DEF PartnersInv, HeadsReached, PartnersSent
<1> QED
  BY <1>4, <1>5, <1>6, <1>7, <1>8, <1>9 DEF PlanNext

(* A chunk of any grain but LINE sends, with every line it owns, the line  *)
(* that line's word goes on with (planner.py: "splitting a hyphenated word *)
(* across chunks corrupts reconciliation"): for every page and             *)
(* configuration, when links go down the page and no further than a window *)
(* may grow.                                                               *)
THEOREM PlansSendPartners ==
    ASSUME \A lk \in LinkChoices : LinksNear(lk)
    PROVE  PlanSpec => []PartnersSent
<1>1. PlanInit => PartnersInv
  <2>1. SUFFICES ASSUME PlanInit
                 PROVE  PartnersInv
    OBVIOUS
  <2>2. DOMAIN chunks = {} /\ DOMAIN windows = {} /\ LinksNear(links)
    BY <2>1 DEF PlanInit
  <2> QED
    BY <2>1, <2>2 DEF PlanInit, PartnersInv, HeadsReached, PartnersSent
<1>2. PlanInv /\ PartnersInv /\ [PlanNext]_planVars => PartnersInv'
  <2>1. PartnersInv /\ UNCHANGED planVars => PartnersInv'
    BY DEF PartnersInv, HeadsReached, PartnersSent, LinksNear, planVars
  <2> QED
    BY <2>1, PartnersGoOn
<1>3. PlanInv /\ [PlanNext]_planVars => PlanInv'
  BY PlanGoesOn, PlanStays
<1>4. PartnersInv => PartnersSent
  BY DEF PartnersInv
<1> QED
  BY <1>1, <1>2, <1>3, <1>4, PlanInvInit, PTL DEF PlanSpec

-----------------------------------------------------------------------------
(* A plan goes down the page: who owns the head of a word is asked no      *)
(* earlier than who owns its tail.                                         *)

(* Nothing of H is in T or continues a line of T. *)
Before(lk, H, T) == \A h \in H, t \in T : h # t /\ forward_partner_ref(lk, t) # h

InOrder(lk, plan) ==
    \A i, j \in DOMAIN plan : i < j => Before(lk, plan[i].targets, plan[j].targets)

LEMMA BeforeStays ==
    ASSUME EndsLinks, NEW H \in SUBSET Lines, NEW T \in SUBSET Lines, Before(links, H, T)
    PROVE  Before(links', H, T)
<1> SUFFICES ASSUME NEW h \in H, NEW t \in T
             PROVE  h # t /\ forward_partner_ref(links', t) # h
  BY DEF Before
<1>1. h \in Lines /\ t \in Lines /\ h # NoLine
  BY DEF Lines, NoLine
<1> QED
  BY <1>1 DEF Before, EndsLinks

LEMMA OrderStays ==
    ASSUME EndsLinks, NEW plan \in Seq(Chunk), InOrder(links, plan)
    PROVE  InOrder(links', plan)
<1>1. \A k \in DOMAIN plan : plan[k] \in Chunk
  OBVIOUS
<1>2. \A k \in DOMAIN plan : plan[k].targets \in SUBSET Lines
  BY <1>1 DEF Chunk
<1> QED
  BY <1>2, BeforeStays DEF InOrder

LEMMA BlocksInOrder ==
    ASSUME PlanInv, planning = "block"
    PROVE  InOrder(links, chunks)
<1> SUFFICES ASSUME NEW i \in DOMAIN chunks, NEW j \in DOMAIN chunks, i < j,
                    NEW h \in chunks[i].targets, NEW t \in chunks[j].targets
             PROVE  h # t /\ forward_partner_ref(links, t) # h
  BY DEF InOrder, Before
<1>1. chunks \in Seq(Chunk) /\ i # j
  BY DEF PlanInv, PlanTypeOK
<1>2. chunks[i].targets \cap chunks[j].targets = {} /\ h \in scope
  BY <1>1 DEF PlanInv, Division
<1> QED
  BY <1>2, BlocksSendPartners

(* The window that owns a head is not before the one that owns its tail. *)
LEMMA WindowsInOrder ==
    ASSUME PlanInv, PartnersInv, CloseWindows
    PROVE  InOrder(links', chunks')
<1> DEFINE owner == [l \in scope |-> TargetWindow(links, scope, windows, l)]
           c(k) == [gran |-> "WINDOW", lines |-> windows[k],
                    targets |-> {l \in windows[k] : owner[l] = k}]
<1>1. /\ UNCHANGED <<links, scope>> /\ planning = "window"
      /\ at > Cardinality(scope)
      /\ windows \in Seq(SUBSET Lines) /\ \A k \in DOMAIN windows : windows[k] \subseteq scope
  BY DEF PlanInv, PlanTypeOK, CloseWindows
<1>2. chunks' = [k \in 1 .. Len(windows) |-> c(k)] /\ DOMAIN windows = 1 .. Len(windows)
      /\ Len(windows) \in Nat
  BY <1>1 DEF CloseWindows, AssignWindowTargets
<1>3. ASSUME NEW k \in 1 .. Len(windows), NEW l \in c(k).targets
      PROVE  l \in scope /\ TargetWindow(links, scope, windows, l) = k
  <2>1. l \in windows[k] /\ owner[l] = k
    OBVIOUS
  <2> HIDE DEF c
  <2>2. l \in scope
    BY <1>1, <1>2, <2>1
  <2> QED
    BY <2>1, <2>2
<1> HIDE DEF owner, c
<1>4. ASSUME NEW i \in DOMAIN chunks', NEW j \in DOMAIN chunks', i < j,
             NEW h \in chunks'[i].targets, NEW t \in chunks'[j].targets
      PROVE  h # t /\ forward_partner_ref(links', t) # h
  <2>1. i \in 1 .. Len(windows) /\ j \in 1 .. Len(windows) /\ chunks'[i] = c(i) /\ chunks'[j] = c(j)
    BY <1>2
  <2>2. /\ h \in scope /\ TargetWindow(links, scope, windows, h) = i
        /\ t \in scope /\ TargetWindow(links, scope, windows, t) = j
    BY <1>3, <2>1
  <2>3. ~(j =< i) /\ i # j
    BY <1>2, <1>4, <2>1
  <2>4. forward_partner_ref(links, t) = h =>
            TargetWindow(links, scope, windows, t) =< TargetWindow(links, scope, windows, h)
    BY <1>1, <2>2, OwnerHoldsHead
  <2> QED
    BY <1>1, <2>2, <2>3, <2>4
<1> QED
  BY <1>4 DEF InOrder, Before

(* A chain starts where the last one ended. *)
LEMMA LinesInOrder ==
    ASSUME PlanInv, PartnersInv, InOrder(links, chunks), PlanLine
    PROVE  InOrder(links', chunks')
<1> DEFINE end == ChainEnd(links, scope, at)
           body == Slice(scope, at, end)
           c == WholeChunk("LINE", body)
           n == Len(chunks)
<1>1. /\ UNCHANGED scope /\ planning = "line"
      /\ scope \in SUBSET Lines /\ at \in Nat \ {0}
      /\ chunks \in Seq(Chunk) /\ Owned(chunks) = {l \in scope : Pos(scope, l) < at}
      /\ chunks' = Append(chunks, c)
      /\ LinksNear(links)
  BY DEF PlanInv, PlanTypeOK, PlanLine, PartnersInv
<1>2. /\ c.targets \in SUBSET scope /\ \A l \in c.targets : at =< Pos(scope, l)
  BY DEF WholeChunk, Slice
<1> HIDE DEF c
<1>3. EndsLinks
  BY PlanEndsLinks DEF PlanInv, PlanNext
<1>4. ASSUME NEW h \in Owned(chunks), NEW t \in c.targets
      PROVE  h # t /\ forward_partner_ref(links, t) # h
  <2>1. h \in scope /\ t \in scope /\ Pos(scope, h) < at /\ at =< Pos(scope, t)
    BY <1>1, <1>2
  <2>2. Pos(scope, h) \in Nat /\ Pos(scope, t) \in Nat
    BY <1>1, <2>1, PosBounds
  <2>3. ~(Pos(scope, t) < Pos(scope, h)) /\ ~(Pos(scope, t) = Pos(scope, h))
    BY <1>1, <2>1, <2>2
  <2>4. forward_partner_ref(links, t) = h => t < h
    BY <1>1, <2>1 DEF LinksNear
  <2> QED
    BY <1>1, <2>1, <2>3, <2>4, PosIncreases
<1>5. Before(links', Owned(chunks), c.targets)
  <2>1. Before(links, Owned(chunks), c.targets)
    BY <1>4 DEF Before
  <2>2. Owned(chunks) \in SUBSET Lines /\ c.targets \in SUBSET Lines
    BY <1>1, <1>2
  <2> QED
    BY <1>3, <2>1, <2>2, BeforeStays
<1>6. InOrder(links', chunks)
  BY <1>1, <1>3, OrderStays
<1>7. \A k \in DOMAIN chunks : chunks[k].targets \subseteq Owned(chunks)
  <2>1. \A k \in DOMAIN chunks : chunks[k] \in Chunk
    BY <1>1
  <2> QED
    BY <2>1 DEF Owned, Chunk
<1>8. /\ DOMAIN chunks = 1 .. n /\ n \in Nat /\ DOMAIN chunks' = 1 .. (n + 1)
      /\ \A k \in 1 .. n : chunks'[k] = chunks[k]
      /\ chunks'[n + 1] = c
  BY <1>1
<1> HIDE DEF n
<1>9. ASSUME NEW i \in DOMAIN chunks', NEW j \in DOMAIN chunks', i < j
      PROVE  Before(links', chunks'[i].targets, chunks'[j].targets)
  <2>1. i \in 1 .. n
    BY <1>8, <1>9
  <2>2. CASE j \in 1 .. n
    BY <1>6, <1>8, <1>9, <2>1, <2>2 DEF InOrder
  <2>3. CASE j = n + 1
    <3>1. chunks'[j] = c /\ chunks'[i].targets \subseteq Owned(chunks)
      BY <1>7, <1>8, <2>1, <2>3
    <3> QED
      BY <1>5, <3>1 DEF Before
  <2> QED
    BY <1>8, <2>2, <2>3
<1> QED
  BY <1>9 DEF InOrder

LEMMA OneInOrder ==
    ASSUME NEW lk, NEW plan, DOMAIN plan \subseteq {1}
    PROVE  InOrder(lk, plan)
  BY DEF InOrder

LEMMA OrderGoesOn ==
    ASSUME PlanInv, PartnersInv, InOrder(links, chunks), PlanNext
    PROVE  InOrder(links', chunks')
<1>1. CASE TryPage
  <2>1. chunks' = <<WholeChunk("PAGE", scope)>> \/ chunks' = <<>>
    BY <1>1 DEF TryPage
  <2> HIDE DEF WholeChunk
  <2>2. DOMAIN chunks' \subseteq {1}
    BY <2>1
  <2> QED
    BY <2>2, OneInOrder
<1>2. CASE TryBlock
  <2>1. /\ UNCHANGED links
        /\ chunks' = chunks \/ chunks' = <<>> \/ planning' = "block"
    BY <1>2 DEF TryBlock
  <2>2. CASE chunks' = <<>>
    <3>1. DOMAIN chunks' = {}
      BY <2>2
    <3> QED
      BY <3>1 DEF InOrder
  <2>3. CASE planning' = "block"
    <3>1. PlanInv'
      BY PlanGoesOn
    <3>2. (PlanInv /\ planning = "block" => InOrder(links, chunks))'
      BY BlocksInOrder, PTL
    <3> QED
      BY <2>3, <3>1, <3>2
  <2> QED
    BY <2>1, <2>2, <2>3
<1>3. CASE TryWindow \/ CloseLines
  BY <1>3 DEF TryWindow, CloseLines
<1> QED
  BY <1>1, <1>2, <1>3, WindowsInOrder, LinesInOrder DEF PlanNext

(* A plan never asks for a head before its tail (planner.py: the reading   *)
(* order of chunks, and the window that owns a unit): no chunk owns the    *)
(* head of a word whose tail a later chunk owns, for every page and        *)
(* configuration, when links go down the page and no further than a window *)
(* may grow.                                                               *)
THEOREM PlansGoDown ==
    ASSUME \A lk \in LinkChoices : LinksNear(lk)
    PROVE  PlanSpec => []InOrder(links, chunks)
<1> DEFINE I == PlanInv /\ PartnersInv /\ InOrder(links, chunks)
<1>1. PlanInit => I
  <2>1. SUFFICES ASSUME PlanInit
                 PROVE  I
    OBVIOUS
  <2>2. DOMAIN chunks = {} /\ DOMAIN windows = {} /\ LinksNear(links)
    BY <2>1 DEF PlanInit
  <2>3. PartnersInv
    BY <2>1, <2>2 DEF PlanInit, PartnersInv, HeadsReached, PartnersSent
  <2> QED
    BY <2>1, <2>2, <2>3, PlanInvInit DEF InOrder
<1>2. I /\ [PlanNext]_planVars => I'
  <2>1. CASE PlanNext
    BY <2>1, PlanGoesOn, PartnersGoOn, OrderGoesOn
  <2>2. CASE UNCHANGED planVars
    <3>1. PartnersInv => PartnersInv'
      BY <2>2 DEF PartnersInv, HeadsReached, PartnersSent, LinksNear, planVars
    <3>2. UNCHANGED <<links, chunks>>
      BY <2>2 DEF planVars
    <3> QED
      BY <2>2, <3>1, <3>2, PlanStays
  <2> QED
    BY <2>1, <2>2
<1>3. I => InOrder(links, chunks)
  OBVIOUS
<1> QED
  BY <1>1, <1>2, <1>3, PTL DEF PlanSpec

-----------------------------------------------------------------------------
(* A unit is planned whole.  What follows also needs links as the linker   *)
(* leaves them (PairingProofs, LinksHaveShape): a slot that nothing reads  *)
(* is empty, and no line inside a link continues a word of its own; and a  *)
(* whole unit, not only each of its links, no longer than a window grows.  *)

UnitsNear(lk) ==
    \A l \in Lines : \A m \in Unit(lk, l, Lines) :
        PageOf[l] = PageOf[m] => m =< l + ExtensionSlack

(* Any member tells the whole unit. *)
LEMMA UnitShared ==
    ASSUME NEW lk, NEW S, NEW l \in S, NEW f \in Unit(lk, l, S)
    PROVE  f \in S /\ Unit(lk, f, S) = Unit(lk, l, S)
<1> DEFINE next == [m \in S |-> Linked(lk, m, S)]
           T == {y \in S : Unit(lk, y, S) = Unit(lk, l, S)}
<1>1. l \in T /\ T \in SUBSET S
  OBVIOUS
<1>2. ASSUME NEW y \in T
      PROVE  next[y] \subseteq T
  <2>1. SUFFICES ASSUME NEW z \in Linked(lk, y, S)
                 PROVE  z \in T
    BY <1>1
  <2>2. y \in S /\ z \in S /\ Unit(lk, y, S) = Unit(lk, l, S)
    BY <1>1 DEF Linked
  <2>3. Unit(lk, y, S) = Unit(lk, z, S)
    BY <2>2, LinkedShareUnit
  <2> QED
    BY <2>2, <2>3
<1>3. Unit(lk, l, S) = Reachable(l, S, next)
  BY DEF Unit
<1> HIDE DEF next, T
<1>4. Reachable(l, S, next) \subseteq T
  BY <1>1, <1>2, ReachableLeast
<1>5. f \in T
  BY <1>3, <1>4
<1> QED
  BY <1>1, <1>5 DEF T

(* A pool of lines never makes a unit larger. *)
LEMMA UnitGrows ==
    ASSUME NEW lk, NEW S, NEW l \in S, NEW B, S \subseteq B
    PROVE  Unit(lk, l, S) \subseteq Unit(lk, l, B)
<1> DEFINE near == [m \in S |-> Linked(lk, m, S)]
           far == [m \in B |-> Linked(lk, m, B)]
           T == Unit(lk, l, B) \cap S
<1>1. /\ Unit(lk, l, S) = Reachable(l, S, near) /\ Unit(lk, l, B) = Reachable(l, B, far)
      /\ \A y \in B : far[y] \subseteq B
      /\ \A y \in S : near[y] \subseteq far[y] /\ near[y] \subseteq S
  BY DEF Unit, Linked
<1> HIDE DEF near, far
<1>2. l \in Unit(lk, l, B) /\ \A y \in Unit(lk, l, B) : far[y] \subseteq Unit(lk, l, B)
  <2>1. l \in B
    OBVIOUS
  <2> QED
    BY <1>1, <2>1, ReachableClosed
<1>3. l \in T /\ T \in SUBSET S /\ \A y \in T : near[y] \subseteq T
  BY <1>1, <1>2
<1> HIDE DEF T
<1>4. Reachable(l, S, near) \subseteq T
  BY <1>3, ReachableLeast
<1> QED
  BY <1>1, <1>4 DEF T

(* Two lines are linked exactly when a word of one goes on with the other. *)
LEMMA LinkedIsContinued ==
    ASSUME NEW lk \in LinkSpace, Symmetric(lk), SlotsRead(lk),
           NEW S \in SUBSET Lines, NEW l \in S, NEW m \in Linked(lk, l, S)
    PROVE  m \in S /\ (forward_partner_ref(lk, l) = m \/ forward_partner_ref(lk, m) = l)
<1>1. m \in S /\ l \in Lines /\ m \in Lines
      /\ (m \in {lk.pair[l], lk.forward[l]} \/ l \in {lk.pair[m], lk.forward[m]})
  BY DEF Linked
<1>2. \/ m \in {forward_partner_ref(lk, l), backward_partner_ref(lk, l)}
      \/ l \in {forward_partner_ref(lk, m), backward_partner_ref(lk, m)}
  <2>1. /\ lk.role[l] \in Roles /\ lk.role[m] \in Roles
        /\ l # NoLine /\ m # NoLine
    BY <1>1, LayoutAssumption DEF LinkSpace, Lines, NoLine
  <2> QED
    BY <1>1, <2>1 DEF SlotsRead, Roles, forward_partner_ref, backward_partner_ref
<1>3. /\ backward_partner_ref(lk, l) = m => forward_partner_ref(lk, m) = l
      /\ backward_partner_ref(lk, m) = l => forward_partner_ref(lk, l) = m
  BY <1>1 DEF Symmetric
<1> QED
  BY <1>1, <1>2, <1>3

(* Forward from a line a window holds, the window's reach. *)
LEMMA ReachHolds ==
    ASSUME NEW lk, NEW S \in SUBSET Lines, NEW i \in Nat, NEW e \in Nat,
           e =< Cardinality(S) + 1, UnitReach(lk, S, i, e) =< e,
           NEW l \in Slice(S, i, e - 1), NEW m \in S, forward_partner_ref(lk, l) = m
    PROVE  Pos(S, m) < e
<1> DEFINE n == Cardinality(S)
           U == {e} \cup {p \in (e + 1) .. (n + 1) :
                    \E x \in Slice(S, i, e - 1) : \E y \in ForwardById(lk, x, S) : Pos(S, y) = p - 1}
<1>1. SUFFICES ASSUME e =< Pos(S, m)
               PROVE  FALSE
  BY PosBounds
<1>2. Pos(S, m) \in 1 .. n /\ n \in Nat
  BY PosBounds, ScopeSize
<1>3. m \in ForwardById(lk, l, S)
  BY DEF ForwardById, Lines, NoLine
<1>4. Pos(S, m) + 1 \in (e + 1) .. (n + 1) /\ (Pos(S, m) + 1) - 1 = Pos(S, m)
  BY <1>1, <1>2
<1>5. Pos(S, m) + 1 \in U
  BY <1>3, <1>4
<1>6. U \in SUBSET (0 .. (n + 1)) /\ n + 1 \in Nat
  BY <1>2
<1>7. UnitReach(lk, S, i, e) = Max(U)
  BY DEF UnitReach
<1> HIDE DEF U, n
<1>8. Pos(S, m) + 1 =< Max(U) /\ Max(U) \in 0 .. (n + 1)
  <2>1. U # {}
    BY <1>5
  <2> QED
    BY <1>5, <1>6, <2>1, MaxOfNaturals
<1> QED
  BY <1>1, <1>2, <1>7, <1>8

(* The window that opens on a unit's first line holds the whole unit.      *)
LEMMA WindowHoldsUnit ==
    ASSUME NEW lk \in LinkSpace, Symmetric(lk), LinksNear(lk), SlotsRead(lk), UnitsNear(lk),
           NEW S \in SUBSET Lines, \A l, m \in S : PageOf[l] = PageOf[m],
           NEW i \in 1 .. Cardinality(S), NEW f \in S, \A y \in Unit(lk, f, S) : f =< y,
           i =< Pos(S, f), Pos(S, f) < NextStart(S, i)
    PROVE  Unit(lk, f, S) \subseteq Slice(S, i, WindowEnd(lk, S, i) - 1)
<1> DEFINE end == WindowEnd(lk, S, i)
           core == CoreEnd(S, i)
           n == Cardinality(S)
           U == Unit(lk, f, S)
           next == [m \in S |-> Linked(lk, m, S)]
<1>1. f \in U /\ U \subseteq S /\ \A y \in U : f =< y
  BY UnitHoldsLine
<1>2. U = Reachable(f, S, next) /\ \A y \in S : next[y] = Linked(lk, y, S)
  BY DEF Unit
<1>3. /\ n \in Nat /\ ExtensionSlack \in Nat /\ NextStart(S, i) \in Nat
      /\ core \in Nat /\ end \in core .. (n + 1)
      /\ NextStart(S, i) =< core \/ core = n + 1
      /\ end = n + 1 \/ end >= core + ExtensionSlack \/ UnitReach(lk, S, i, end) =< end
  BY ScopeSize, PlannerAssumption, CoreEndBounds, WindowBounds, NextWindow
<1>4. \A y \in S : y \in Int /\ Pos(S, y) \in 1 .. n
  BY PosBounds DEF Lines
<1>5. ASSUME NEW y \in U
      PROVE  Pos(S, f) =< Pos(S, y) /\ Pos(S, y) =< Pos(S, f) + ExtensionSlack
  <2>1. f \in Lines /\ y \in S /\ f =< y /\ PageOf[f] = PageOf[y]
    BY <1>1
  <2>2. U \subseteq Unit(lk, f, Lines)
    BY UnitGrows
  <2>3. y =< f + ExtensionSlack
    BY <2>1, <2>2 DEF UnitsNear
  <2>4. CASE f = y
    BY <1>3, <1>4, <2>4
  <2>5. CASE f < y
    <3>1. Pos(S, f) < Pos(S, y) /\ Pos(S, y) =< Pos(S, f) + (y - f)
      BY <2>1, <2>5, PosIncreases, PosGap
    <3>2. y \in Int /\ f \in Int /\ Pos(S, f) \in Nat /\ Pos(S, y) \in Nat
      BY <1>4, <2>1
    <3> HIDE DEF U, n
    <3> QED
      BY <1>3, <2>3, <3>1, <3>2
  <2> QED
    BY <1>4, <2>1, <2>4, <2>5
<1> HIDE DEF end, core, n, U, next
<1>6. ASSUME NEW y \in U
      PROVE  Pos(S, y) < end
  <2>1. CASE core = n + 1 \/ end = n + 1 \/ end >= core + ExtensionSlack
    <3>1. Pos(S, y) =< Pos(S, f) + ExtensionSlack /\ Pos(S, y) \in 1 .. n /\ Pos(S, f) \in 1 .. n
      BY <1>1, <1>4, <1>5
    <3> QED
      BY <1>3, <2>1, <3>1
  <2>2. CASE NextStart(S, i) =< core /\ UnitReach(lk, S, i, end) =< end
    <3> DEFINE T == {x \in U : Pos(S, x) < end}
    <3>1. f \in T /\ T \in SUBSET S
      <4>1. Pos(S, f) < end
        BY <1>3, <1>4, <2>2
      <4> QED
        BY <1>1, <4>1
    <3>2. ASSUME NEW x \in T, NEW z \in Linked(lk, x, S)
          PROVE  z \in T
      <4>1. x \in U /\ x \in S /\ Pos(S, x) < end /\ z \in S
        BY <1>1 DEF Linked
      <4>2. z \in U
        <5>1. U = Unit(lk, x, S)
          BY <1>1, <4>1, UnitShared DEF U
        <5>2. z \in Unit(lk, x, S)
          BY <3>2, <4>1, LinkedShareUnit
        <5> QED
          BY <5>1, <5>2
      <4>3. forward_partner_ref(lk, x) = z \/ forward_partner_ref(lk, z) = x
        BY <3>2, <4>1, LinkedIsContinued
      <4>4. CASE forward_partner_ref(lk, x) = z
        <5>1. x \in Slice(S, i, end - 1)
          <6>1. i =< Pos(S, x) /\ Pos(S, x) =< end - 1
            <7>1. Pos(S, f) =< Pos(S, x) /\ Pos(S, x) \in Nat /\ Pos(S, f) \in Nat /\ end \in Nat
              BY <1>3, <1>4, <1>5, <4>1
            <7> QED
              BY <4>1, <7>1
          <6> QED
            BY <4>1, <6>1 DEF Slice
        <5>2. i \in Nat /\ end \in Nat /\ end =< Cardinality(S) + 1
          BY <1>3 DEF n
        <5>3. Pos(S, z) < end
          BY <2>2, <4>1, <4>4, <5>1, <5>2, ReachHolds
        <5> QED
          BY <4>2, <5>3
      <4>5. CASE forward_partner_ref(lk, z) = x
        <5>1. z < x
          BY <4>1, <4>5 DEF LinksNear
        <5>2. Pos(S, z) < Pos(S, x)
          BY <4>1, <5>1, PosIncreases
        <5>3. Pos(S, z) < end
          BY <1>3, <1>4, <4>1, <5>2
        <5> QED
          BY <4>2, <5>3
      <4> QED
        BY <4>3, <4>4, <4>5
    <3>3. \A x \in T : next[x] \subseteq T
      BY <1>2, <3>1, <3>2
    <3> HIDE DEF T
    <3>4. Reachable(f, S, next) \subseteq T
      BY <3>1, <3>3, ReachableLeast
    <3>5. y \in T
      BY <1>2, <3>4
    <3> QED
      BY <3>5 DEF T
  <2> QED
    BY <1>3, <2>1, <2>2
<1>7. ASSUME NEW y \in U
      PROVE  y \in Slice(S, i, end - 1)
  <2>1. y \in S /\ Pos(S, y) \in 1 .. n /\ Pos(S, f) =< Pos(S, y) /\ Pos(S, y) < end
    BY <1>1, <1>4, <1>5, <1>6
  <2>2. i =< Pos(S, y) /\ Pos(S, y) =< end - 1
    BY <1>1, <1>3, <1>4, <2>1
  <2> QED
    BY <2>1, <2>2 DEF Slice
<1> QED
  BY <1>7 DEF U, end

(* A finished chunk owns, with every line, the line its word goes on with; *)
(* the windows cut so far hold every unit that opens before `at`.          *)
PlannedWhole ==
    \A k \in DOMAIN chunks : \A l \in chunks[k].targets, m \in scope :
        forward_partner_ref(links, l) = m => m \in chunks[k].targets

WindowsWhole ==
    planning = "window" =>
        \A f \in scope :
            Pos(scope, f) < at /\ (\A y \in Unit(links, f, scope) : f =< y) =>
                \E k \in DOMAIN windows : Unit(links, f, scope) \subseteq windows[k]

WholeInv ==
    /\ SlotsRead(links) /\ LinksClose(links) /\ UnitsNear(links)
    /\ WindowsWhole /\ PlannedWhole

LEMMA TryWindowKeepsUnits ==
    ASSUME PlanInv, PartnersInv, SeveringInv, WholeInv, TryWindow
    PROVE  WindowsWhole'
<1> DEFINE w == Slice(scope, at, WindowEnd(links, scope, at) - 1)
           n == Cardinality(scope)
<1>1. /\ UNCHANGED <<links, scope>> /\ planning = "window"
      /\ scope \in SUBSET Lines /\ at \in Nat \ {0} /\ at =< n
      /\ windows \in Seq(SUBSET Lines)
      /\ at' = NextStart(scope, at) /\ windows' = Append(windows, w)
  BY DEF PlanInv, PlanTypeOK, TryWindow
<1>2. n \in Nat /\ at \in 1 .. n /\ w \in SUBSET Lines /\ at' \in Nat
  <2>1. n \in Nat /\ at \in 1 .. n
    BY <1>1, ScopeSize
  <2> QED
    BY <1>1, <2>1, NextWindow DEF Slice
<1>3. /\ \A k \in DOMAIN windows : k \in DOMAIN windows' /\ windows'[k] = windows[k]
      /\ Len(windows) + 1 \in DOMAIN windows' /\ windows'[Len(windows) + 1] = w
  <2> HIDE DEF w
  <2> QED
    BY <1>1, <1>2
<1>4. ASSUME NEW f \in scope, Pos(scope, f) < at', \A y \in Unit(links, f, scope) : f =< y
      PROVE  \E k \in DOMAIN windows' : Unit(links, f, scope) \subseteq windows'[k]
  <2>1. Pos(scope, f) \in 1 .. n
    BY <1>1, PosBounds
  <2>2. CASE Pos(scope, f) < at
    <3>1. PICK k \in DOMAIN windows : Unit(links, f, scope) \subseteq windows[k]
      BY <1>1, <1>4, <2>2 DEF WholeInv, WindowsWhole
    <3> QED
      BY <1>3, <3>1
  <2>3. CASE at =< Pos(scope, f)
    <3>1. /\ links \in LinkSpace /\ Symmetric(links) /\ LinksNear(links)
          /\ SlotsRead(links) /\ UnitsNear(links)
          /\ \A l, m \in scope : PageOf[l] = PageOf[m]
      BY <1>1 DEF SeveringInv, PartnersInv, WholeInv
    <3>2. Unit(links, f, scope) \subseteq w
      BY <1>1, <1>2, <1>4, <2>3, <3>1, WindowHoldsUnit
    <3> HIDE DEF w
    <3> QED
      BY <1>3, <3>2
  <2> QED
    BY <1>1, <1>2, <2>1, <2>2, <2>3
<1> QED
  BY <1>1, <1>4 DEF WindowsWhole

(* Lines of a unit some window holds have one owner. *)
LEMMA CloseWindowsKeepsUnits ==
    ASSUME PlanInv, WholeInv, CloseWindows
    PROVE  PlannedWhole'
<1> DEFINE owner == [l \in scope |-> TargetWindow(links, scope, windows, l)]
           c(k) == [gran |-> "WINDOW", lines |-> windows[k],
                    targets |-> {l \in windows[k] : owner[l] = k}]
<1>1. /\ UNCHANGED <<links, scope>> /\ planning = "window"
      /\ scope \in SUBSET Lines /\ at \in Nat \ {0} /\ at > Cardinality(scope)
      /\ windows \in Seq(SUBSET Lines) /\ \A k \in DOMAIN windows : windows[k] \subseteq scope
  BY DEF PlanInv, PlanTypeOK, CloseWindows
<1>2. chunks' = [k \in 1 .. Len(windows) |-> c(k)] /\ DOMAIN windows = 1 .. Len(windows)
      /\ Len(windows) \in Nat
  BY <1>1 DEF CloseWindows, AssignWindowTargets
<1>3. ASSUME NEW l \in scope
      PROVE  \E k \in DOMAIN windows : Unit(links, l, scope) \subseteq windows[k]
  <2> DEFINE U == Unit(links, l, scope)
  <2>1. U # {} /\ U \subseteq scope
    BY UnitHoldsLine
  <2>2. U \in SUBSET Nat
    <3>1. scope \subseteq Nat
      BY <1>1, LayoutAssumption DEF Lines
    <3> QED
      BY <2>1, <3>1
  <2> DEFINE f == Min(U)
  <2>3. f \in U /\ \A y \in U : f =< y
    <3> HIDE DEF U
    <3> QED
      BY <2>1, <2>2, MinOfNaturals
  <2> HIDE DEF f
  <2>4. f \in scope /\ Unit(links, f, scope) = U
    BY <2>3, UnitShared
  <2>5. Pos(scope, f) < at
    <3>1. Pos(scope, f) \in 1 .. Cardinality(scope) /\ Cardinality(scope) \in Nat
      BY <1>1, <2>4, PosBounds, ScopeSize
    <3> QED
      BY <1>1, <3>1
  <2> HIDE DEF U
  <2>6. \E k \in DOMAIN windows : Unit(links, f, scope) \subseteq windows[k]
    BY <1>1, <2>3, <2>4, <2>5 DEF WholeInv, WindowsWhole
  <2> QED
    BY <2>4, <2>6 DEF U
<1>4. ASSUME NEW l \in scope, NEW m \in scope, forward_partner_ref(links, l) = m
      PROVE  owner[m] = owner[l] /\ m \in windows[owner[l]]
  <2> DEFINE common == {k \in DOMAIN windows : Unit(links, l, scope) \subseteq windows[k]}
  <2>1. m # NoLine
    BY <1>1 DEF Lines, NoLine
  <2>2. m \in Linked(links, l, scope)
    BY <1>4, <2>1 DEF Linked, forward_partner_ref
  <2>3. m \in Unit(links, l, scope) /\ Unit(links, m, scope) = Unit(links, l, scope)
    BY <2>2, LinkedShareUnit
  <2>4. common # {}
    BY <1>3
  <2>5. TargetWindow(links, scope, windows, l) = Max(common)
        /\ TargetWindow(links, scope, windows, m) = Max(common)
    BY <2>3, <2>4 DEF TargetWindow
  <2>6. common \in SUBSET (0 .. Len(windows))
    BY <1>2
  <2>7. Max(common) \in common
    <3> HIDE DEF common
    <3> QED
      BY <1>2, <2>4, <2>6, MaxOfNaturals
  <2>8. m \in windows[Max(common)]
    BY <2>3, <2>7
  <2> HIDE DEF common
  <2> QED
    BY <2>5, <2>8
<1> HIDE DEF owner
<1>5. ASSUME NEW k \in 1 .. Len(windows)
      PROVE  c(k).targets = {l \in windows[k] : owner[l] = k} /\ windows[k] \subseteq scope
  BY <1>1, <1>2
<1> HIDE DEF c
<1>6. ASSUME NEW k \in DOMAIN chunks', NEW l \in chunks'[k].targets, NEW m \in scope,
             forward_partner_ref(links, l) = m
      PROVE  m \in chunks'[k].targets
  <2>1. k \in 1 .. Len(windows) /\ chunks'[k] = c(k)
    BY <1>2
  <2>2. l \in windows[k] /\ owner[l] = k /\ l \in scope
    BY <1>5, <1>6, <2>1
  <2>3. owner[m] = k /\ m \in windows[k]
    BY <1>4, <1>6, <2>2
  <2> QED
    BY <1>5, <2>1, <2>3
<1> QED
  BY <1>1, <1>6 DEF PlannedWhole

(* A chunk of the LINE loop owns a chain to its end, and where the next    *)
(* line of that chain is left out, the link to it is severed.              *)
LEMMA ChainIsWhole ==
    ASSUME NEW lk \in LinkSpace, OneLinePerId, LinksNear(lk), LinksClose(lk),
           NEW S \in SUBSET Lines, NEW i \in 1 .. Cardinality(S), NEW tail \in S,
           Pos(S, tail) = ChainEnd(lk, S, i),
           NEW l \in Slice(S, i, ChainEnd(lk, S, i)), NEW m \in S,
           forward_partner_ref(lk, l) = m, m \notin Slice(S, i, ChainEnd(lk, S, i))
    PROVE  l = tail
<1> DEFINE end == ChainEnd(lk, S, i)
           n == Cardinality(S)
           next == [x \in S |-> {y \in ForwardById(lk, x, S) :
                                   Pos(S, y) > Pos(S, x) /\ Pos(S, y) - i + 1 =< MaxLines}]
           chain == Chain(lk, S, i)
           P == {i} \cup {Pos(S, x) : x \in chain}
           T == {y \in chain : y =< l}
<1>1. /\ n \in Nat /\ \A x \in S : x \in Int /\ x \in Lines /\ Pos(S, x) \in 1 .. n
      /\ MaxLines \in Nat
  BY ScopeSize, PosBounds, PlannerAssumption DEF Lines
<1>2. l \in S /\ i =< Pos(S, l) /\ Pos(S, l) =< end
  BY DEF Slice
<1>3. LineAt(S, i) \in S /\ Pos(S, LineAt(S, i)) = i
  BY LineAtPos
<1>4. chain = Reachable(LineAt(S, i), S, next) /\ \A x \in S : next[x] \subseteq S
  BY DEF Chain, ForwardById
<1>5. /\ LineAt(S, i) \in chain /\ chain \subseteq S
      /\ \A y \in chain : next[y] \subseteq chain
  <2> HIDE DEF next, chain
  <2> QED
    BY <1>3, <1>4, ReachableClosed, ReachableInside
<1>6. end = Max(P)
  BY DEF ChainEnd
<1>7. end \in P /\ end \in Nat /\ \A p \in P : p =< end
  <2>1. P \in SUBSET (0 .. n) /\ P # {}
    BY <1>1, <1>5
  <2> HIDE DEF P, n, end
  <2>2. Max(P) \in P /\ \A p \in P : p =< Max(P)
    BY <1>1, <2>1, MaxOfNaturals
  <2>3. Max(P) \in 0 .. n
    BY <2>1, <2>2
  <2>4. Max(P) \in Nat
    BY <1>1, <2>3
  <2> QED
    BY <1>6, <2>2, <2>4
<1>8. tail \in chain
  <2>1. PICK x \in chain : Pos(S, x) = end
    BY <1>3, <1>5, <1>7
  <2>2. x = tail
    BY <1>5, <2>1, PosInjective
  <2> QED
    BY <2>1, <2>2
<1>9. Pos(S, m) > end /\ l < m
  <2>1. l < m
    BY <1>1, <1>2 DEF LinksNear
  <2>2. Pos(S, l) < Pos(S, m)
    BY <1>2, <2>1, PosIncreases
  <2>3. ~(i =< Pos(S, m) /\ Pos(S, m) =< end)
    BY DEF Slice
  <2> HIDE DEF end, n
  <2> QED
    BY <1>1, <1>2, <1>7, <2>1, <2>2, <2>3
<1>10. ASSUME NEW y \in T, NEW z \in next[y]
       PROVE  z \in T
  <2>1. /\ y \in chain /\ y \in S /\ y =< l /\ z \in chain /\ z \in S
        /\ z \in ForwardById(lk, y, S) /\ Pos(S, z) > Pos(S, y)
    BY <1>5
  <2>2. forward_partner_ref(lk, y) = z
    <3>1. forward_partner_ref(lk, y) # NoLine /\ IdOf[z] = IdOf[forward_partner_ref(lk, y)]
      BY <2>1 DEF ForwardById
    <3>2. forward_partner_ref(lk, y) \in Lines
      BY <1>1, <2>1, <3>1 DEF LinkSpace, forward_partner_ref
    <3> QED
      BY <1>1, <2>1, <3>1, <3>2 DEF OneLinePerId
  <2>3. Pos(S, z) =< end
    BY <1>7, <2>1
  <2>4. SUFFICES ASSUME l < z
                 PROVE  FALSE
    BY <1>1, <1>2, <2>1
  <2>5. y # l
    <3> HIDE DEF end, n, chain, next
    <3> QED
      BY <1>1, <1>7, <1>9, <2>1, <2>2, <2>3
  <2>6. y < l
    BY <1>1, <1>2, <2>1, <2>5
  <2>7. forward_partner_ref(lk, l) = NoLine
    BY <1>1, <1>2, <2>1, <2>2, <2>4, <2>6 DEF LinksClose
  <2> QED
    BY <1>1, <2>7 DEF Lines, NoLine
<1>11. LineAt(S, i) \in T
  <2>1. ~(l < LineAt(S, i))
    <3>1. ASSUME l < LineAt(S, i)
          PROVE  Pos(S, l) < i
      BY <1>2, <1>3, <3>1, PosIncreases
    <3> QED
      BY <1>1, <1>2, <3>1
  <2> QED
    BY <1>1, <1>2, <1>3, <1>5, <2>1
<1>12. tail =< l
  <2>1. T \in SUBSET S /\ \A y \in T : next[y] \subseteq T
    BY <1>5, <1>10
  <2> HIDE DEF T, next, chain
  <2>2. Reachable(LineAt(S, i), S, next) \subseteq T
    BY <1>11, <2>1, ReachableLeast
  <2>3. tail \in T
    BY <1>4, <1>8, <2>2
  <2> QED
    BY <2>3 DEF T
<1>13. ~(tail < l)
  <2>1. tail < l => Pos(S, tail) < Pos(S, l)
    BY <1>2, PosIncreases
  <2>2. Pos(S, tail) = end
    OBVIOUS
  <2> HIDE DEF end, n
  <2> QED
    BY <1>1, <1>2, <1>7, <2>1, <2>2
<1> QED
  BY <1>1, <1>2, <1>12, <1>13

LEMMA PlanLineKeepsUnits ==
    ASSUME OneLinePerId, PlanInv, PartnersInv, SeveringInv, WholeInv, PlanLine
    PROVE  PlannedWhole'
<1> DEFINE end == ChainEnd(links, scope, at)
           body == Slice(scope, at, end)
           n == Len(chunks)
<1>1. /\ UNCHANGED scope /\ scope \in SUBSET Lines
      /\ at \in 1 .. Cardinality(scope) /\ chunks \in Seq(Chunk)
      /\ chunks' = Append(chunks, WholeChunk("LINE", body))
      /\ links \in LinkSpace /\ Symmetric(links) /\ LinksNear(links) /\ LinksClose(links)
  BY ScopeSize DEF PlanLine, PlanInv, PlanTypeOK, SeveringInv, PartnersInv, WholeInv
<1>2. PICK tail \in scope :
          /\ Pos(scope, tail) = end
          /\ \/ ForwardById(links, tail, scope) \ body = {}
             \/ \E head \in ForwardById(links, tail, scope) \ body :
                   links' = split_forward_link(links, tail, head)
  BY DEF PlanLine
<1>3. EndsLinks
  BY PlanEndsLinks DEF PlanNext, PlanInv
<1>4. \A l, m \in scope : forward_partner_ref(links', l) = m => forward_partner_ref(links, l) = m
  <2>1. \A m \in scope : m # NoLine
    BY <1>1 DEF Lines, NoLine
  <2> QED
    BY <1>1, <1>3, <2>1 DEF EndsLinks
<1>5. ASSUME NEW l \in body, NEW m \in scope, forward_partner_ref(links', l) = m
      PROVE  m \in body
  <2>1. SUFFICES ASSUME m \notin body
                 PROVE  FALSE
    OBVIOUS
  <2>2. l \in scope /\ forward_partner_ref(links, l) = m
    BY <1>4, <1>5 DEF Slice
  <2>3. l = tail
    BY <1>1, <1>2, <2>1, <2>2, ChainIsWhole
  <2>4. l \in Lines /\ m \in Lines /\ m # NoLine /\ l # m
    BY <1>1, <2>2 DEF Lines, NoLine, LinksNear
  <2>5. m \in ForwardById(links, tail, scope) \ body
    BY <2>1, <2>2, <2>3, <2>4 DEF ForwardById
  <2> HIDE DEF body, end
  <2>6. PICK head \in ForwardById(links, tail, scope) \ body :
           links' = split_forward_link(links, tail, head)
    BY <1>2, <2>5
  <2>7. head = m
    <3>1. head \in Lines /\ IdOf[head] = IdOf[m]
      BY <1>1, <2>2, <2>3, <2>6 DEF ForwardById
    <3> QED
      BY <2>4, <3>1 DEF OneLinePerId
  <2>8. forward_partner_ref(links', l) = NoLine
    BY <1>1, <2>2, <2>3, <2>4, <2>6, <2>7, SplitPartners
  <2> QED
    BY <1>5, <2>4, <2>8
<1>6. \A k \in DOMAIN chunks : chunks[k].targets \subseteq scope
  BY DEF PlanInv, Division
<1>7. WholeChunk("LINE", body).targets = body
  BY DEF WholeChunk
<1> DEFINE c == WholeChunk("LINE", body)
<1> HIDE DEF c, body
<1>8. \A k \in DOMAIN chunks' : (k \in DOMAIN chunks /\ chunks'[k] = chunks[k]) \/ chunks'[k] = c
  BY <1>1 DEF c
<1>9. ASSUME NEW k \in DOMAIN chunks', NEW l \in chunks'[k].targets, NEW m \in scope,
             forward_partner_ref(links', l) = m
      PROVE  m \in chunks'[k].targets
  <2>1. CASE k \in DOMAIN chunks /\ chunks'[k] = chunks[k]
    <3>1. l \in scope /\ l \in chunks[k].targets
      BY <1>6, <1>9, <2>1
    <3>2. forward_partner_ref(links, l) = m
      BY <1>4, <1>9, <3>1
    <3> QED
      BY <2>1, <3>1, <3>2 DEF WholeInv, PlannedWhole
  <2>2. CASE chunks'[k] = c
    BY <1>5, <1>7, <1>9, <2>2 DEF c
  <2> QED
    BY <1>8, <2>1, <2>2
<1> QED
  BY <1>1, <1>9 DEF PlannedWhole

LEMMA CloseStays == LinksClose(links) /\ EndsLinks => LinksClose(links')
<1> SUFFICES ASSUME LinksClose(links), EndsLinks, NEW l \in Lines, NEW m \in Lines, NEW k \in Lines,
                    forward_partner_ref(links', l) = m, l < k, k < m
             PROVE  forward_partner_ref(links', k) = NoLine
  BY DEF LinksClose
<1>1. forward_partner_ref(links, l) = m
  BY DEF EndsLinks, Lines, NoLine
<1>2. forward_partner_ref(links, k) = NoLine
  BY <1>1 DEF LinksClose
<1> QED
  BY <1>2 DEF EndsLinks

(* Severing only empties slots, so a unit only loses members. *)
LEMMA SplitKeepsShape ==
    ASSUME NEW lk \in LinkSpace, SlotsRead(lk), NEW tail \in Lines, NEW head \in Lines,
           tail # head, NEW new, new = split_forward_link(lk, tail, head)
    PROVE  /\ SlotsRead(new)
           /\ \A l \in Lines : {new.pair[l], new.forward[l]} \subseteq {lk.pair[l], lk.forward[l], NoLine}
<1>1. /\ lk.role \in [Lines -> Roles] /\ lk.pair \in [Lines -> Lines \cup {NoLine}]
      /\ lk.forward \in [Lines -> Lines \cup {NoLine}]
  BY DEF LinkSpace
<1>2. \A l \in Lines : /\ lk.role[l] # "BOTH" => lk.forward[l] = NoLine
                       /\ lk.role[l] = "NONE" => lk.pair[l] = NoLine
  BY DEF SlotsRead
<1>3. /\ new.role[tail] = IF lk.role[tail] = "BOTH" THEN "PART2" ELSE "NONE"
      /\ new.pair[tail] = IF lk.role[tail] = "BOTH" THEN lk.pair[tail] ELSE NoLine
      /\ new.forward[tail] = NoLine
  BY <1>1, <1>2 DEF split_forward_link
<1>4. /\ new.role[head] = IF lk.role[head] = "BOTH" THEN "PART1" ELSE "NONE"
      /\ new.pair[head] = IF lk.role[head] = "BOTH" THEN lk.forward[head] ELSE NoLine
      /\ new.forward[head] = NoLine
  BY <1>1, <1>2 DEF split_forward_link
<1>5. \A l \in Lines \ {tail, head} :
         new.role[l] = lk.role[l] /\ new.pair[l] = lk.pair[l] /\ new.forward[l] = lk.forward[l]
  BY <1>1 DEF split_forward_link
<1> QED
  BY <1>2, <1>3, <1>4, <1>5 DEF SlotsRead

LEMMA UnitShrinks ==
    ASSUME NEW lk, NEW new, NEW S \in SUBSET Lines, NEW l \in S,
           \A x \in Lines : {new.pair[x], new.forward[x]} \subseteq {lk.pair[x], lk.forward[x], NoLine}
    PROVE  Unit(new, l, S) \subseteq Unit(lk, l, S)
<1> DEFINE near == [m \in S |-> Linked(new, m, S)]
           far == [m \in S |-> Linked(lk, m, S)]
<1>1. \A x \in S : x \in Lines /\ x # NoLine
  BY LayoutAssumption DEF Lines, NoLine
<1>2. /\ Unit(new, l, S) = Reachable(l, S, near) /\ Unit(lk, l, S) = Reachable(l, S, far)
      /\ \A y \in S : far[y] \subseteq S
  BY DEF Unit, Linked
<1>3. \A y \in S : near[y] \subseteq far[y]
  BY <1>1 DEF Linked
<1> HIDE DEF near, far
<1>4. /\ l \in Unit(lk, l, S) /\ Unit(lk, l, S) \subseteq S
      /\ \A y \in Unit(lk, l, S) : far[y] \subseteq Unit(lk, l, S)
  BY <1>2, ReachableClosed, ReachableInside
<1>5. \A y \in Unit(lk, l, S) : near[y] \subseteq Unit(lk, l, S)
  BY <1>3, <1>4
<1>6. Reachable(l, S, near) \subseteq Unit(lk, l, S)
  BY <1>4, <1>5, ReachableLeast
<1> QED
  BY <1>2, <1>6

(* The LINE loop leaves links as the linker left them, or shorter. *)
LEMMA ShapeStays ==
    ASSUME PlanTypeOK, PlanNext, SlotsRead(links), LinksClose(links), UnitsNear(links)
    PROVE  SlotsRead(links') /\ LinksClose(links') /\ UnitsNear(links')
<1>1. EndsLinks /\ links \in LinkSpace
  BY PlanEndsLinks DEF PlanTypeOK
<1>2. LinksClose(links')
  BY <1>1, CloseStays
<1>3. CASE UNCHANGED links
  BY <1>3 DEF SlotsRead, LinksClose, UnitsNear
<1>4. CASE PlanLine
  <2>1. PICK tail \in scope :
          /\ Pos(scope, tail) = ChainEnd(links, scope, at)
          /\ \/ UNCHANGED <<links, splits>>
             \/ \E head \in ForwardById(links, tail, scope)
                               \ Slice(scope, at, ChainEnd(links, scope, at)) :
                   links' = split_forward_link(links, tail, head)
    BY <1>4 DEF PlanLine
  <2>2. scope \in SUBSET Lines /\ at \in 1 .. Cardinality(scope) /\ MaxLines \in Nat
    BY <1>4, ScopeSize, PlannerAssumption DEF PlanTypeOK, PlanLine
  <2>3. tail \in Slice(scope, at, ChainEnd(links, scope, at))
    <3>1. ChainEnd(links, scope, at) \in at .. (at + MaxLines - 1)
      BY <2>2, ChainEndBounds
    <3> QED
      BY <2>1, <2>2, <3>1 DEF Slice
  <2>4. ASSUME NEW head \in ForwardById(links, tail, scope)
                               \ Slice(scope, at, ChainEnd(links, scope, at)),
               links' = split_forward_link(links, tail, head)
        PROVE  SlotsRead(links') /\ UnitsNear(links')
    <3>1. head \in Lines /\ tail \in Lines /\ tail # head
      BY <2>2, <2>3 DEF ForwardById
    <3>2. /\ SlotsRead(links')
          /\ \A l \in Lines : {links'.pair[l], links'.forward[l]}
                                 \subseteq {links.pair[l], links.forward[l], NoLine}
      BY <1>1, <2>4, <3>1, SplitKeepsShape
    <3>3. \A l \in Lines : Unit(links', l, Lines) \subseteq Unit(links, l, Lines)
      BY <3>2, UnitShrinks
    <3> QED
      BY <3>2, <3>3 DEF UnitsNear
  <2> QED
    BY <1>2, <1>3, <2>1, <2>4
<1> QED
  BY <1>3, <1>4 DEF PlanNext, TryPage, TryBlock, TryWindow, CloseWindows, CloseLines

LEMMA BlocksKeepUnits == PlanInv /\ planning = "block" => PlannedWhole
  BY BlocksSendPartners DEF PlannedWhole

LEMMA UnitsStayWhole ==
    ASSUME OneLinePerId, PlanInv, PartnersInv, SeveringInv, WholeInv, PlanNext
    PROVE  WholeInv'
<1>1. scope' = scope /\ (UNCHANGED links \/ planning = "line")
  <2>1. UNCHANGED links \/ planning = "line"
    BY PlanEndsLinks DEF PlanInv
  <2>2. scope' = scope
    BY DEF PlanNext, TryPage, TryBlock, TryWindow, CloseWindows, PlanLine, CloseLines
  <2> QED
    BY <2>1, <2>2
<1>2. (SlotsRead(links) /\ LinksClose(links) /\ UnitsNear(links))'
  <2>1. SlotsRead(links') /\ LinksClose(links') /\ UnitsNear(links')
    BY ShapeStays DEF PlanInv, WholeInv
  <2> QED
    BY <2>1 DEF SlotsRead, LinksClose, UnitsNear
<1>3. PlanInv'
  BY PlanGoesOn
<1>4. CASE TryPage
  <2>1. chunks = <<>> /\ DOMAIN <<>> = {}
    BY <1>4 DEF TryPage, PlanInv
  <2>2. planning' # "window" /\
           \/ chunks' = <<WholeChunk("PAGE", scope)>>
           \/ chunks' = <<>>
    BY <1>4 DEF TryPage
  <2>3. \A k \in DOMAIN chunks' : chunks'[k].targets = scope
    BY <2>1, <2>2 DEF WholeChunk
  <2> QED
    BY <1>1, <1>2, <2>2, <2>3 DEF WholeInv, WindowsWhole, PlannedWhole
<1>5. CASE TryBlock
  <2>1. UNCHANGED <<links, scope, at, windows>> /\ planning = "block"
    BY <1>5 DEF TryBlock
  <2>2. \/ chunks' = chunks /\ planning' # "idle" /\ planning' # "window"
        \/ chunks' = chunks /\ planning' \in {"idle", "window"}
        \/ chunks' = <<>> /\ planning' = "window"
        \/ planning' = "block"
    BY <1>5, <2>1 DEF TryBlock
  <2>3. WindowsWhole'
    <3>1. at = 1 /\ scope \in SUBSET Lines
      BY <2>1 DEF PlanInv, PlanTypeOK
    <3>2. \A f \in scope : ~(Pos(scope, f) < 1)
      BY <3>1, PosBounds
    <3> QED
      BY <2>1, <3>1, <3>2 DEF WindowsWhole
  <2>4. PlannedWhole'
    <3>1. CASE chunks' = chunks
      BY <2>1, <3>1 DEF PlannedWhole, WholeInv
    <3>2. CASE chunks' = <<>>
      <4>1. DOMAIN chunks' = {}
        BY <3>2
      <4> QED
        BY <4>1 DEF PlannedWhole
    <3>3. CASE planning' = "block"
      <4>1. (PlanInv /\ planning = "block" => PlannedWhole)'
        BY BlocksKeepUnits, PTL
      <4> QED
        BY <1>3, <3>3, <4>1
    <3> QED
      BY <2>2, <3>1, <3>2, <3>3
  <2> QED
    BY <1>1, <1>2, <2>3, <2>4 DEF WholeInv
<1>6. CASE TryWindow
  <2>1. UNCHANGED <<links, scope, chunks>>
    BY <1>6 DEF TryWindow
  <2>2. PlannedWhole'
    BY <2>1 DEF WholeInv, PlannedWhole
  <2> QED
    BY <1>1, <1>2, <1>6, <2>2, TryWindowKeepsUnits DEF WholeInv
<1>7. CASE CloseWindows
  <2>1. planning' = "idle"
    BY <1>7 DEF CloseWindows
  <2> QED
    BY <1>1, <1>2, <1>7, <2>1, CloseWindowsKeepsUnits DEF WholeInv, WindowsWhole
<1>8. CASE PlanLine
  <2>1. planning' = "line"
    BY <1>8 DEF PlanLine
  <2> QED
    BY <1>1, <1>2, <1>8, <2>1, PlanLineKeepsUnits DEF WholeInv, WindowsWhole
<1>9. CASE CloseLines
  <2>1. planning' = "idle" /\ UNCHANGED <<links, scope, chunks>>
    BY <1>9 DEF CloseLines
  <2> QED
    BY <1>1, <1>2, <2>1 DEF WholeInv, WindowsWhole, PlannedWhole
<1> QED
  BY <1>4, <1>5, <1>6, <1>7, <1>8, <1>9 DEF PlanNext

(* Pair atomicity of a finished plan (docs/promises.md): two lines of the  *)
(* scope still linked have one owner, for every page, scope, grain and     *)
(* configuration, when a bare id names one line and links have the shape   *)
(* the linker gives them and units no longer than a window may grow.       *)
THEOREM PlansKeepUnits ==
    ASSUME OneLinePerId,
           \A lk \in LinkChoices : /\ LinksNear(lk) /\ Symmetric(lk)
                                   /\ SlotsRead(lk) /\ LinksClose(lk) /\ UnitsNear(lk)
    PROVE  PlanSpec => []UnitsPlannedWhole
<1> DEFINE I == PlanInv /\ PartnersInv /\ SeveringInv /\ WholeInv
<1>1. PlanInit => I
  <2>1. SUFFICES ASSUME PlanInit
                 PROVE  I
    OBVIOUS
  <2>2. /\ DOMAIN chunks = {} /\ DOMAIN windows = {} /\ at = 1 /\ scope \in SUBSET Lines
        /\ LinksNear(links) /\ Symmetric(links)
        /\ SlotsRead(links) /\ LinksClose(links) /\ UnitsNear(links)
    BY <2>1 DEF PlanInit
  <2>3. PartnersInv
    BY <2>1, <2>2 DEF PlanInit, PartnersInv, HeadsReached, PartnersSent
  <2>4. SeveringInv
    BY <2>1, <2>2, LinkChoicesAssumption DEF PlanInit, SeveringInv
  <2>5. \A f \in scope : ~(Pos(scope, f) < 1)
    <3>1. ASSUME NEW f \in scope
          PROVE  ~(Pos(scope, f) < 1)
      <4>1. Pos(scope, f) \in 1 .. Cardinality(scope)
        BY <2>2, PosBounds
      <4> QED
        BY ONLY <4>1
    <3> QED
      BY <3>1
  <2>6. WholeInv
    BY <2>2, <2>5 DEF WholeInv, WindowsWhole, PlannedWhole
  <2> QED
    BY <2>1, <2>3, <2>4, <2>6, PlanInvInit
<1>2. I /\ [PlanNext]_planVars => I'
  <2>1. CASE PlanNext
    <3>1. I => scope \in SUBSET Lines /\ at \in Nat \ {0}
      BY DEF PlanInv, PlanTypeOK
    <3> QED
      BY <2>1, <3>1, PlanGoesOn, PartnersGoOn, PlanSevers, UnitsStayWhole
  <2>2. CASE UNCHANGED planVars
    <3>1. PartnersInv => PartnersInv'
      BY <2>2 DEF PartnersInv, HeadsReached, PartnersSent, LinksNear, planVars
    <3>2. SeveringInv => SeveringInv'
      BY <2>2 DEF SeveringInv, planVars, Symmetric
    <3>3. WholeInv => WholeInv'
      BY <2>2 DEF WholeInv, WindowsWhole, PlannedWhole, SlotsRead, LinksClose, UnitsNear, planVars
    <3> QED
      BY <2>2, <3>1, <3>2, <3>3, PlanStays
  <2> QED
    BY <2>1, <2>2
<1>3. I => UnitsPlannedWhole
  <2>1. SUFFICES ASSUME I, planning = "idle", NEW l \in scope, NEW m \in scope,
                        forward_partner_ref(links, l) = m
                 PROVE  \E k \in DOMAIN chunks : {l, m} \subseteq chunks[k].targets
    BY DEF UnitsPlannedWhole
  <2>2. \E k \in DOMAIN chunks : l \in chunks[k].targets
    BY <2>1 DEF PlanInv, Owned
  <2> QED
    BY <2>1, <2>2 DEF WholeInv, PlannedWhole
<1> QED
  BY <1>1, <1>2, <1>3, PTL DEF PlanSpec
=============================================================================
