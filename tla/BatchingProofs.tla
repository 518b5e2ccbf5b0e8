-------------------------- MODULE BatchingProofs ---------------------------
(* Slicing a plan under image caps keeps what the plan established, for    *)
(* every page, hyphenation, planner configuration and cap.                 *)
EXTENDS Batching, PlannerProofs

-----------------------------------------------------------------------------
(* Sequences of calls. *)

(* A call sends what it owns, and no line has two owners. *)
OwnApart(plan) ==
    /\ \A k \in DOMAIN plan : plan[k].targets \subseteq plan[k].lines
    /\ \A j, k \in DOMAIN plan : j # k => plan[j].targets \cap plan[k].targets = {}

LEMMA Concatenated ==
    ASSUME NEW S, NEW s \in Seq(S), NEW t \in Seq(S)
    PROVE  /\ s \o t \in Seq(S)
           /\ \A k \in DOMAIN s : k \in DOMAIN (s \o t) /\ (s \o t)[k] = s[k]
           /\ \A k \in DOMAIN t : Len(s) + k \in DOMAIN (s \o t) /\ (s \o t)[Len(s) + k] = t[k]
           /\ \A k \in DOMAIN (s \o t) : k \in DOMAIN s \/ \E j \in DOMAIN t : k = Len(s) + j
<1>1. /\ Len(s) \in Nat /\ Len(t) \in Nat /\ DOMAIN s = 1 .. Len(s) /\ DOMAIN t = 1 .. Len(t)
      /\ s \o t \in Seq(S) /\ Len(s \o t) = Len(s) + Len(t) /\ DOMAIN (s \o t) = 1 .. Len(s \o t)
  OBVIOUS
<1>2. \A k \in DOMAIN s : k \in DOMAIN (s \o t) /\ (s \o t)[k] = s[k]
  BY <1>1
<1>3. \A k \in DOMAIN t : Len(s) + k \in DOMAIN (s \o t) /\ (s \o t)[Len(s) + k] = t[k]
  BY <1>1
<1>4. ASSUME NEW k \in DOMAIN (s \o t), k \notin DOMAIN s
      PROVE  \E j \in DOMAIN t : k = Len(s) + j
  <2>1. k - Len(s) \in DOMAIN t /\ k = Len(s) + (k - Len(s))
    BY <1>1, <1>4
  <2> QED
    BY <2>1
<1> QED
  BY <1>1, <1>2, <1>3, <1>4

LEMMA MoreCalls ==
    ASSUME NEW plan \in Seq(Chunk), OwnApart(plan), NEW more \in Seq(Chunk), OwnApart(more),
           Owned(plan) \cap Owned(more) = {}
    PROVE  /\ plan \o more \in Seq(Chunk) /\ OwnApart(plan \o more)
           /\ Owned(plan \o more) = Owned(plan) \cup Owned(more)
           /\ \A k \in DOMAIN plan : \E j \in DOMAIN (plan \o more) : (plan \o more)[j] = plan[k]
           /\ \A k \in DOMAIN more : \E j \in DOMAIN (plan \o more) : (plan \o more)[j] = more[k]
<1>1. PICK all : all = plan \o more
  OBVIOUS
<1>2. /\ all \in Seq(Chunk)
      /\ \A k \in DOMAIN plan : k \in DOMAIN all /\ all[k] = plan[k]
      /\ \A k \in DOMAIN more : Len(plan) + k \in DOMAIN all /\ all[Len(plan) + k] = more[k]
      /\ \A k \in DOMAIN all : k \in DOMAIN plan \/ \E j \in DOMAIN more : k = Len(plan) + j
  BY <1>1, Concatenated
<1>3. /\ \A k \in DOMAIN plan : plan[k] \in Chunk /\ plan[k].targets \subseteq Owned(plan)
      /\ \A k \in DOMAIN more : more[k] \in Chunk /\ more[k].targets \subseteq Owned(more)
  <2>1. ASSUME NEW s \in Seq(Chunk), NEW k \in DOMAIN s
        PROVE  s[k] \in Chunk /\ s[k].targets \subseteq Owned(s)
    <3>1. s[k] \in Chunk
      OBVIOUS
    <3>2. s[k].targets \subseteq Lines
      BY <3>1 DEF Chunk
    <3> QED
      BY <3>1, <3>2 DEF Owned
  <2> QED
    BY <2>1
<1>4. Owned(all) = Owned(plan) \cup Owned(more)
  <2>1. ASSUME NEW l \in Owned(all)
        PROVE  l \in Owned(plan) \cup Owned(more)
    <3>1. PICK k \in DOMAIN all : l \in all[k].targets
      BY <2>1 DEF Owned
    <3>2. CASE k \in DOMAIN plan
      BY <1>2, <1>3, <3>1, <3>2
    <3>3. CASE \E j \in DOMAIN more : k = Len(plan) + j
      BY <1>2, <1>3, <3>1, <3>3
    <3> QED
      BY <1>2, <3>2, <3>3
  <2>2. ASSUME NEW l \in Owned(plan)
        PROVE  l \in Owned(all)
    BY <1>2, <2>2 DEF Owned
  <2>3. ASSUME NEW l \in Owned(more)
        PROVE  l \in Owned(all)
    BY <1>2, <2>3 DEF Owned
  <2> QED
    BY <2>1, <2>2, <2>3
<1>5. \A k \in DOMAIN all : all[k].targets \subseteq all[k].lines
  BY <1>2 DEF OwnApart
<1>6. ASSUME NEW j \in DOMAIN all, NEW k \in DOMAIN all, j # k
      PROVE  all[j].targets \cap all[k].targets = {}
  <2>1. CASE j \in DOMAIN plan /\ k \in DOMAIN plan
    BY <1>2, <1>6, <2>1 DEF OwnApart
  <2>2. CASE j \in DOMAIN plan /\ k \notin DOMAIN plan
    BY <1>2, <1>3, <2>2
  <2>3. CASE j \notin DOMAIN plan /\ k \in DOMAIN plan
    BY <1>2, <1>3, <2>3
  <2>4. CASE j \notin DOMAIN plan /\ k \notin DOMAIN plan
    <3>1. PICK u \in DOMAIN more, v \in DOMAIN more : j = Len(plan) + u /\ k = Len(plan) + v
      BY <1>2, <2>4
    <3>2. u # v
      BY <1>6, <3>1
    <3> QED
      BY <1>2, <3>1, <3>2 DEF OwnApart
  <2> QED
    BY <2>1, <2>2, <2>3, <2>4
<1> QED
  BY <1>1, <1>2, <1>4, <1>5, <1>6 DEF OwnApart

-----------------------------------------------------------------------------
(* Units.                                                                  *)

LEMMA LinkedBothWays ==
    ASSUME NEW lk, NEW S, NEW l \in S, NEW m \in Linked(lk, l, S)
    PROVE  m \in S /\ l \in Linked(lk, m, S)
  BY DEF Linked

(* A unit holds its line and everything linked with one of its members. *)
LEMMA UnitIsClosed ==
    ASSUME NEW lk, NEW S \in SUBSET Lines, NEW l \in S
    PROVE  /\ l \in Unit(lk, l, S) /\ Unit(lk, l, S) \subseteq S
           /\ \A y \in Unit(lk, l, S) : Linked(lk, y, S) \subseteq Unit(lk, l, S)
<1> DEFINE next == [k \in S |-> Linked(lk, k, S)]
<1>1. \A y \in S : next[y] \subseteq S
  BY DEF Linked
<1>2. Unit(lk, l, S) = Reachable(l, S, next)
  BY DEF Unit
<1>3. Unit(lk, l, S) \subseteq S
  BY <1>2, ReachableInside
<1>4. \A y \in S : next[y] = Linked(lk, y, S)
  OBVIOUS
<1> HIDE DEF next
<1>5. \A y \in Reachable(l, S, next) : next[y] \subseteq Reachable(l, S, next)
  BY <1>1, ReachableClosed
<1>6. l \in Reachable(l, S, next)
  BY <1>1, ReachableClosed
<1> QED
  BY <1>2, <1>3, <1>4, <1>5, <1>6

-----------------------------------------------------------------------------
(* What slicing keeps.                                                     *)

(* The lines the first chunks of the plan own. *)
OwnedBefore(i) ==
    {l \in Lines : \E k \in DOMAIN chunks : k < i /\ l \in chunks[k].targets}

(* A batch of the chunk being sliced holds every line the chunk sends that *)
(* is linked with one of its own.                                          *)
HoldsLinked(B) ==
    \A l \in B, m \in chunks[item].lines : m \in Linked(links, l, scope) => m \in B

(* Lines of one planned chunk that are linked stay in one call. *)
StayTogether(i) ==
    \A k \in DOMAIN chunks : k < i =>
        \A l, m \in chunks[k].targets : m \in Linked(links, l, scope) =>
            \E j \in DOMAIN calls : {l, m} \subseteq calls[j].targets

CallsInv ==
    /\ phase \in {"plan", "next", "slice", "done", "refused"}
    /\ phase = "plan" => calls = <<>>
    /\ phase # "plan" => planning = "idle"
    /\ calls \in Seq(Chunk) /\ OwnApart(calls)
    /\ phase \in {"next", "slice", "done"} =>
          /\ item \in 1 .. (Len(chunks) + 1)
          /\ Owned(calls) = OwnedBefore(item) /\ StayTogether(item)
    /\ phase = "done" => item \notin DOMAIN chunks

(* The batches and the one being filled divide what was assigned. *)
SliceInv ==
    phase = "slice" =>
        /\ item \in DOMAIN chunks /\ cap \in Nat
        /\ batches \in Seq(SUBSET chunks[item].lines) /\ current \subseteq chunks[item].lines
        /\ assigned = current \cup UNION {batches[k] : k \in DOMAIN batches}
        /\ \A j, k \in DOMAIN batches : j # k => batches[j] \cap batches[k] = {}
        /\ \A k \in DOMAIN batches : batches[k] \cap current = {}
        /\ \A k \in DOMAIN batches : Cardinality(batches[k]) =< cap /\ HoldsLinked(batches[k])
        /\ Cardinality(current) =< cap /\ HoldsLinked(current)

BatchInv == PlanInv /\ CallsInv /\ SliceInv

LEMMA PlannedChunk ==
    ASSUME PlanInv, NEW k \in DOMAIN chunks
    PROVE  /\ chunks[k] \in Chunk /\ scope \in SUBSET Lines
           /\ chunks[k].targets \subseteq chunks[k].lines /\ chunks[k].lines \subseteq scope
           /\ \A j \in DOMAIN chunks : j # k => chunks[j].targets \cap chunks[k].targets = {}
  BY DEF PlanInv, PlanTypeOK, Division

(* What one line brings along is what the chunk still holds of its unit.   *)
LEMMA RidesWithItsUnit ==
    ASSUME PlanInv, NEW c, c.lines \subseteq scope, NEW l \in c.lines \ assigned
    PROVE  RidesTogether(l, c) = (Unit(links, l, scope) \cap c.lines) \ assigned
<1>1. PICK unit : unit = Unit(links, l, scope)
  OBVIOUS
<1>2. scope \in SUBSET Lines
  BY DEF PlanInv, PlanTypeOK
<1>3. l \in unit /\ unit \in SUBSET scope
  BY <1>1, <1>2, UnitIsClosed
<1>4. CASE Cardinality(unit) > 1
  BY <1>1, <1>4 DEF RidesTogether
<1>5. CASE ~(Cardinality(unit) > 1)
  <2>1. IsFiniteSet(unit) /\ Cardinality(unit) \in Nat
    BY <1>2, <1>3, ScopeSize
  <2>2. Cardinality({l}) = 1 /\ {l} \subseteq unit
    BY <1>3, FS_Singleton
  <2>3. Cardinality({l}) =< Cardinality(unit) /\ (Cardinality({l}) = Cardinality(unit) => {l} = unit)
    BY <2>1, <2>2, FS_Subset
  <2>4. unit = {l}
    BY <1>5, <2>1, <2>2, <2>3
  <2> QED
    BY <1>1, <1>5, <2>4 DEF RidesTogether
<1> QED
  BY <1>4, <1>5

(* The members placed with a line: lines of the chunk not placed yet, the  *)
(* line itself, and with a member every line of the chunk linked with it.  *)
LEMMA PlacedTogether ==
    ASSUME BatchInv, phase = "slice", NEW l \in chunks[item].lines \ assigned
    PROVE  LET members == RidesTogether(l, chunks[item])
           IN  /\ l \in members /\ members \subseteq chunks[item].lines \ assigned
               /\ HoldsLinked(members)
<1>1. PICK c : c = chunks[item]
  OBVIOUS
<1>2. PICK unit : unit = Unit(links, l, scope)
  OBVIOUS
<1>3. c.lines \subseteq scope /\ scope \in SUBSET Lines /\ l \in scope
  BY <1>1, PlannedChunk DEF BatchInv, SliceInv
<1>4. PICK members : members = RidesTogether(l, c)
  OBVIOUS
<1>5. members = (unit \cap c.lines) \ assigned
  BY <1>1, <1>2, <1>3, <1>4, RidesWithItsUnit DEF BatchInv
<1>6. l \in unit /\ \A y \in unit : Linked(links, y, scope) \subseteq unit
  BY <1>2, <1>3, UnitIsClosed
<1>7. ASSUME NEW y \in members, NEW m \in c.lines, m \in Linked(links, y, scope)
      PROVE  m \in members
  <2>1. m \in unit
    BY <1>5, <1>6, <1>7
  <2>2. y \in Linked(links, m, scope) /\ y \in c.lines
    BY <1>3, <1>5, <1>7, LinkedBothWays
  <2>3. m \notin assigned
    <3> SUFFICES ASSUME m \in assigned
                 PROVE  y \in assigned
      BY <1>5
    <3>1. m \in current => y \in current
      BY <1>1, <2>2 DEF BatchInv, SliceInv, HoldsLinked
    <3>2. \A k \in DOMAIN batches : m \in batches[k] => y \in batches[k]
      BY <1>1, <2>2 DEF BatchInv, SliceInv, HoldsLinked
    <3>3. assigned = current \cup UNION {batches[k] : k \in DOMAIN batches}
      BY DEF BatchInv, SliceInv
    <3> QED
      BY <3>1, <3>2, <3>3
  <2> QED
    BY <1>5, <1>7, <2>1, <2>3
<1>8. HoldsLinked(members)
  BY <1>1, <1>7 DEF HoldsLinked
<1> QED
  BY <1>1, <1>4, <1>5, <1>6, <1>8

LEMMA BatchInvInit == BatchInit => BatchInv
<1> SUFFICES ASSUME BatchInit
             PROVE  BatchInv
  OBVIOUS
<1>1. PlanInv
  BY PlanInvInit DEF BatchInit
<1>2. <<>> \in Seq(Chunk) /\ OwnApart(<<>>)
  BY NoPlan DEF OwnApart
<1> QED
  BY <1>1, <1>2 DEF BatchInit, BatchInv, CallsInv, SliceInv

(* Steps that neither plan, nor close a call, nor place a line. *)
LEMMA SliceStays ==
    ASSUME SliceInv, UNCHANGED <<planVars, item, cap, batches, current, assigned>>,
           phase' = "slice" => phase = "slice"
    PROVE  SliceInv'
<1>1. UNCHANGED <<links, scope, chunks>>
  BY DEF planVars
<1>2. \A B : HoldsLinked(B)' <=> HoldsLinked(B)
  BY <1>1 DEF HoldsLinked
<1>3. phase' # "slice" \/ phase = "slice"
  OBVIOUS
<1> QED
  BY <1>1, <1>2, <1>3 DEF SliceInv

LEMMA PlaceUnitKeeps ==
    ASSUME BatchInv, PlaceUnit
    PROVE  SliceInv'
<1>1. PICK c : c = chunks[item]
  OBVIOUS
<1>2. /\ phase = "slice" /\ item \in DOMAIN chunks /\ cap \in Nat
      /\ UNCHANGED <<links, scope, chunks, item, cap>>
      /\ c.lines \subseteq scope /\ scope \in SUBSET Lines /\ c.targets \subseteq c.lines
  BY <1>1, PlannedChunk DEF BatchInv, SliceInv, PlaceUnit, planVars
<1>3. PICK l : l = Min(c.targets \ assigned)
  OBVIOUS
<1>4. l \in c.targets \ assigned
  <2>1. c.targets \ assigned \in SUBSET Nat /\ c.targets \ assigned # {}
    BY <1>1, <1>2 DEF PlaceUnit, Lines
  <2> QED
    BY <1>3, <2>1, MinOfNaturals
<1>5. PICK members : members = RidesTogether(l, c)
  OBVIOUS
<1>6. l \in members /\ members \subseteq c.lines \ assigned /\ HoldsLinked(members)
  BY <1>1, <1>2, <1>4, <1>5, PlacedTogether
<1>7. /\ batches \in Seq(SUBSET c.lines) /\ current \subseteq c.lines
      /\ assigned = current \cup UNION {batches[k] : k \in DOMAIN batches}
      /\ \A j, k \in DOMAIN batches : j # k => batches[j] \cap batches[k] = {}
      /\ \A k \in DOMAIN batches : batches[k] \cap current = {}
      /\ \A k \in DOMAIN batches : Cardinality(batches[k]) =< cap /\ HoldsLinked(batches[k])
      /\ Cardinality(current) =< cap /\ HoldsLinked(current)
  BY <1>1, <1>2 DEF BatchInv, SliceInv
<1>8. \A B : HoldsLinked(B)' <=> HoldsLinked(B)
  BY <1>2 DEF HoldsLinked
<1>9. CASE phase' = "refused"
  BY <1>9 DEF SliceInv
<1>10. CASE ~(Cardinality(members) > cap)
  <2>1. /\ phase' = "slice" /\ assigned' = assigned \cup members
        /\ batches' = IF Full(members) THEN Append(batches, current) ELSE batches
        /\ current' = IF Full(members) THEN members ELSE current \cup members
    BY <1>1, <1>2, <1>3, <1>5, <1>10 DEF PlaceUnit
  <2>2. /\ IsFiniteSet(members) /\ Cardinality(members) \in Nat
        /\ IsFiniteSet(current) /\ Cardinality(current) \in Nat
        /\ IsFiniteSet(current \cup members) /\ Cardinality(current \cup members) \in Nat
    <3>1. members \in SUBSET Lines /\ current \in SUBSET Lines /\ current \cup members \in SUBSET Lines
      BY <1>2, <1>6, <1>7
    <3> QED
      BY <3>1, ScopeSize
  <2>3. members \cap current = {} /\ \A k \in DOMAIN batches : members \cap batches[k] = {}
    BY <1>6, <1>7
  <2>4. CASE Full(members)
    <3>1. current' = members /\ batches' = Append(batches, current)
      BY <2>1, <2>4
    <3>2. PICK n \in Nat : n = Len(batches) + 1
      BY <1>7
    <3>3. /\ DOMAIN batches = 1 .. (n - 1) /\ DOMAIN batches' = 1 .. n
          /\ batches' \in Seq(SUBSET c.lines) /\ batches'[n] = current
          /\ \A k \in DOMAIN batches : batches'[k] = batches[k]
      BY <1>7, <3>1, <3>2
    <3>4. \A k \in DOMAIN batches' : k \in DOMAIN batches \/ k = n
      BY <3>3
    <3>5. n \in DOMAIN batches' /\ \A k \in DOMAIN batches : k \in DOMAIN batches'
      BY <3>2, <3>3
    <3>6. assigned' = current' \cup UNION {batches'[k] : k \in DOMAIN batches'}
      BY <1>7, <2>1, <3>1, <3>3, <3>4, <3>5, SMTT(30)
    <3>7. \A j, k \in DOMAIN batches' : j # k => batches'[j] \cap batches'[k] = {}
      BY <1>7, <3>3, <3>4
    <3>8. \A k \in DOMAIN batches' : batches'[k] \cap current' = {}
      BY <2>3, <3>1, <3>3, <3>4
    <3>9. \A k \in DOMAIN batches' : Cardinality(batches'[k]) =< cap /\ HoldsLinked(batches'[k])
      BY <1>7, <3>3, <3>4
    <3>10. Cardinality(current') =< cap /\ HoldsLinked(current')
      BY <1>2, <1>6, <1>10, <2>2, <3>1
    <3>11. (\A k \in DOMAIN batches : Cardinality(batches[k]) =< cap /\ HoldsLinked(batches[k]))'
      BY <1>2, <1>8, <3>9
    <3>12. (Cardinality(current) =< cap /\ HoldsLinked(current))'
      BY <1>2, <1>8, <3>10
    <3> QED
      BY <1>1, <1>2, <1>6, <3>1, <3>3, <3>6, <3>7, <3>8, <3>11, <3>12 DEF SliceInv
  <2>5. CASE ~Full(members)
    <3>1. current' = current \cup members /\ batches' = batches
      BY <2>1, <2>5
    <3>2. Cardinality(current \cup members) =< cap
      <4>1. CASE current = {}
        <5>1. current \cup members = members
          BY <4>1
        <5> QED
          BY <1>2, <1>10, <2>2, <5>1
      <4>2. CASE current # {} /\ Cardinality(current) + Cardinality(members) =< cap
        <5>1. Cardinality(current \cup members) =
                 Cardinality(current) + Cardinality(members) - Cardinality(current \cap members)
          BY <2>2, FS_Union
        <5>2. Cardinality(current \cap members) = 0
          BY <2>3, FS_EmptySet
        <5> QED
          BY <1>2, <2>2, <4>2, <5>1, <5>2
      <4> QED
        BY <1>2, <2>2, <2>5, <4>1, <4>2 DEF Full
    <3>3. HoldsLinked(current \cup members)
      BY <1>6, <1>7 DEF HoldsLinked
    <3>4. assigned' = current' \cup UNION {batches'[k] : k \in DOMAIN batches'}
      BY <1>7, <2>1, <3>1
    <3>5. \A k \in DOMAIN batches : batches[k] \cap (current \cup members) = {}
      BY <1>7, <2>3
    <3>6. (\A k \in DOMAIN batches : Cardinality(batches[k]) =< cap /\ HoldsLinked(batches[k]))'
      BY <1>2, <1>7, <1>8, <3>1
    <3>7. (Cardinality(current) =< cap /\ HoldsLinked(current))'
      BY <1>2, <1>8, <3>1, <3>2, <3>3
    <3> QED
      BY <1>1, <1>2, <1>6, <1>7, <3>1, <3>4, <3>5, <3>6, <3>7 DEF SliceInv
  <2> QED
    BY <2>4, <2>5
<1> QED
  BY <1>1, <1>3, <1>5, <1>9, <1>10 DEF PlaceUnit

(* The batches a sliced chunk is closed into. *)
LEMMA ClosedParts ==
    ASSUME BatchInv, phase = "slice"
    PROVE  /\ Closed \in Seq(SUBSET chunks[item].lines)
           /\ \A l \in assigned : \E k \in DOMAIN Closed : l \in Closed[k]
           /\ \A j, k \in DOMAIN Closed : j # k => Closed[j] \cap Closed[k] = {}
           /\ \A k \in DOMAIN Closed : Cardinality(Closed[k]) =< cap /\ HoldsLinked(Closed[k])
<1>1. PICK c : c = chunks[item]
  OBVIOUS
<1>2. /\ batches \in Seq(SUBSET c.lines) /\ current \subseteq c.lines
      /\ assigned = current \cup UNION {batches[k] : k \in DOMAIN batches}
      /\ \A j, k \in DOMAIN batches : j # k => batches[j] \cap batches[k] = {}
      /\ \A k \in DOMAIN batches : batches[k] \cap current = {}
      /\ \A k \in DOMAIN batches : Cardinality(batches[k]) =< cap /\ HoldsLinked(batches[k])
      /\ Cardinality(current) =< cap /\ HoldsLinked(current)
  BY <1>1 DEF BatchInv, SliceInv
<1>3. CASE current = {}
  BY <1>1, <1>2, <1>3 DEF Closed
<1>4. CASE current # {}
  <2>1. Closed = Append(batches, current)
    BY <1>4 DEF Closed
  <2>2. PICK n \in Nat : n = Len(batches) + 1
    BY <1>2
  <2>3. /\ DOMAIN batches = 1 .. (n - 1) /\ DOMAIN Closed = 1 .. n
        /\ Closed \in Seq(SUBSET c.lines) /\ Closed[n] = current
        /\ \A k \in DOMAIN batches : Closed[k] = batches[k]
    BY <1>2, <2>1, <2>2
  <2>4. \A k \in DOMAIN Closed : k \in DOMAIN batches \/ k = n
    BY <2>3
  <2>5. n \in DOMAIN Closed /\ \A k \in DOMAIN batches : k \in DOMAIN Closed
    BY <2>2, <2>3
  <2>6. \A l \in assigned : \E k \in DOMAIN Closed : l \in Closed[k]
    BY <1>2, <2>3, <2>5
  <2>7. \A j, k \in DOMAIN Closed : j # k => Closed[j] \cap Closed[k] = {}
    BY <1>2, <2>3, <2>4
  <2>8. \A k \in DOMAIN Closed : Cardinality(Closed[k]) =< cap /\ HoldsLinked(Closed[k])
    BY <1>2, <2>3, <2>4
  <2> QED
    BY <1>1, <2>3, <2>6, <2>7, <2>8
<1> QED
  BY <1>3, <1>4

(* The calls a sliced chunk becomes share out what it owned. *)
LEMMA SlicedCalls ==
    ASSUME BatchInv, phase = "slice", chunks[item].targets \subseteq assigned,
           NEW more, more = [k \in DOMAIN Closed |-> Batch(chunks[item], Closed[k])]
    PROVE  /\ more \in Seq(Chunk) /\ OwnApart(more) /\ Owned(more) = chunks[item].targets
           /\ \A l, m \in chunks[item].targets : m \in Linked(links, l, scope) =>
                 \E k \in DOMAIN more : {l, m} \subseteq more[k].targets
<1>1. PICK c : c = chunks[item]
  OBVIOUS
<1>2. c \in Chunk /\ c.targets \subseteq c.lines
  BY <1>1, PlannedChunk DEF BatchInv, SliceInv
<1>3. PICK parts : parts = Closed
  OBVIOUS
<1>4. /\ parts \in Seq(SUBSET c.lines)
      /\ \A l \in assigned : \E k \in DOMAIN parts : l \in parts[k]
      /\ \A j, k \in DOMAIN parts : j # k => parts[j] \cap parts[k] = {}
      /\ \A k \in DOMAIN parts : HoldsLinked(parts[k])
  BY <1>1, <1>3, ClosedParts
<1>5. \A k \in DOMAIN parts : parts[k] \subseteq c.lines
  BY <1>4
<1>6. /\ more = [k \in 1 .. Len(parts) |-> Batch(c, parts[k])] /\ Len(parts) \in Nat
      /\ DOMAIN parts = 1 .. Len(parts)
  BY <1>1, <1>3, <1>4
<1>7. ASSUME NEW k \in DOMAIN parts
      PROVE  /\ Batch(c, parts[k]) \in Chunk
             /\ Batch(c, parts[k]).lines = parts[k]
             /\ Batch(c, parts[k]).targets = parts[k] \cap c.targets
  BY <1>2, <1>5 DEF Batch, Chunk
<1>8. /\ more \in Seq(Chunk) /\ DOMAIN more = DOMAIN parts
      /\ \A k \in DOMAIN more : more[k].lines = parts[k] /\ more[k].targets = parts[k] \cap c.targets
  BY <1>6, <1>7
<1>9. OwnApart(more)
  BY <1>4, <1>8 DEF OwnApart
<1>10. Owned(more) = c.targets
  <2>1. c.targets \subseteq Lines
    BY <1>2 DEF Chunk
  <2>2. \A l \in c.targets : \E k \in DOMAIN more : l \in more[k].targets
    BY <1>1, <1>4, <1>8
  <2> QED
    BY <1>8, <2>1, <2>2 DEF Owned
<1>11. ASSUME NEW l \in c.targets, NEW m \in c.targets, m \in Linked(links, l, scope)
       PROVE  \E k \in DOMAIN more : {l, m} \subseteq more[k].targets
  <2>1. PICK k \in DOMAIN parts : l \in parts[k]
    BY <1>1, <1>4
  <2>2. m \in parts[k]
    BY <1>1, <1>2, <1>4, <1>11, <2>1 DEF HoldsLinked
  <2> QED
    BY <1>8, <2>1, <2>2
<1> QED
  BY <1>1, <1>8, <1>9, <1>10, <1>11

(* The next chunk of the plan becomes one call or several.                 *)
LEMMA CallsGrow ==
    ASSUME BatchInv, phase \in {"next", "slice"}, item \in DOMAIN chunks, UNCHANGED planVars,
           NEW more \in Seq(Chunk), OwnApart(more), Owned(more) = chunks[item].targets,
           \A l, m \in chunks[item].targets : m \in Linked(links, l, scope) =>
               \E k \in DOMAIN more : {l, m} \subseteq more[k].targets,
           calls' = calls \o more, item' = item + 1, phase' = "next"
    PROVE  CallsInv'
<1>1. /\ UNCHANGED <<links, scope, planning, chunks>>
      /\ planning = "idle" /\ calls \in Seq(Chunk) /\ OwnApart(calls)
      /\ Owned(calls) = OwnedBefore(item) /\ StayTogether(item)
  BY DEF BatchInv, CallsInv, planVars
<1>2. chunks \in Seq(Chunk)
  BY DEF BatchInv, PlanInv, PlanTypeOK
<1>3. DOMAIN chunks = 1 .. Len(chunks) /\ Len(chunks) \in Nat /\ item \in 1 .. Len(chunks)
  BY <1>2
<1>4. \A k \in DOMAIN chunks : k < item + 1 <=> k < item \/ k = item
  BY <1>3
<1>5. Owned(calls) \cap Owned(more) = {}
  BY <1>1, <1>3, PlannedChunk DEF OwnedBefore, BatchInv
<1>6. PICK all : all = calls \o more
  OBVIOUS
<1>7. /\ all \in Seq(Chunk) /\ OwnApart(all)
      /\ Owned(all) = Owned(calls) \cup Owned(more)
      /\ \A k \in DOMAIN calls : \E j \in DOMAIN all : all[j] = calls[k]
      /\ \A k \in DOMAIN more : \E j \in DOMAIN all : all[j] = more[k]
  <2>1. calls \in Seq(Chunk) /\ OwnApart(calls)
    BY <1>1
  <2>2. more \in Seq(Chunk) /\ OwnApart(more)
    OBVIOUS
  <2>3. /\ calls \o more \in Seq(Chunk) /\ OwnApart(calls \o more)
        /\ Owned(calls \o more) = Owned(calls) \cup Owned(more)
        /\ \A k \in DOMAIN calls : \E j \in DOMAIN (calls \o more) : (calls \o more)[j] = calls[k]
        /\ \A k \in DOMAIN more : \E j \in DOMAIN (calls \o more) : (calls \o more)[j] = more[k]
    BY ONLY <1>5, <2>1, <2>2, MoreCalls
  <2> QED
    BY ONLY <1>6, <2>3
<1>8. OwnedBefore(item + 1) = OwnedBefore(item) \cup chunks[item].targets
  <2>1. chunks[item].targets \subseteq Lines
    BY PlannedChunk DEF BatchInv, Chunk
  <2> QED
    BY <1>4, <2>1 DEF OwnedBefore
<1>9. ASSUME NEW k \in DOMAIN chunks, k < item + 1,
             NEW l \in chunks[k].targets, NEW m \in chunks[k].targets, m \in Linked(links, l, scope)
      PROVE  \E j \in DOMAIN all : {l, m} \subseteq all[j].targets
  <2>1. CASE k < item
    <3>1. PICK i \in DOMAIN calls : {l, m} \subseteq calls[i].targets
      BY <1>1, <1>9, <2>1 DEF StayTogether
    <3> QED
      BY <1>7, <3>1
  <2>2. CASE k = item
    <3>1. PICK i \in DOMAIN more : {l, m} \subseteq more[i].targets
      BY <1>9, <2>2
    <3> QED
      BY <1>7, <3>1
  <2> QED
    BY <1>4, <1>9, <2>1, <2>2
<1>10. calls' = all /\ item' \in 1 .. (Len(chunks) + 1)
  BY <1>3, <1>6
<1>11. Owned(calls') = OwnedBefore(item')
  BY <1>1, <1>7, <1>8, <1>10
<1>12. (Owned(calls) = OwnedBefore(item))'
  BY <1>1, <1>11 DEF OwnedBefore
<1>13. StayTogether(item)'
  BY <1>1, <1>9, <1>10 DEF StayTogether
<1> QED
  BY <1>1, <1>7, <1>10, <1>12, <1>13 DEF CallsInv

LEMMA PassedCall ==
    ASSUME NEW c \in Chunk, c.targets \subseteq c.lines, NEW s \in Seq(Chunk)
    PROVE  /\ <<c>> \in Seq(Chunk) /\ OwnApart(<<c>>) /\ Owned(<<c>>) = c.targets
           /\ \A l, m \in c.targets : \E k \in DOMAIN <<c>> : {l, m} \subseteq <<c>>[k].targets
           /\ Append(s, c) = s \o <<c>>
<1>1. /\ <<c>> \in Seq(Chunk) /\ DOMAIN <<c>> = {1} /\ <<c>>[1] = c /\ Append(s, c) = s \o <<c>>
  OBVIOUS
<1>2. c.targets \subseteq Lines
  BY DEF Chunk
<1> QED
  BY <1>1, <1>2 DEF OwnApart, Owned

LEMMA BatchNextKeeps == BatchInv /\ [BatchNext]_allVars => BatchInv'
<1> SUFFICES ASSUME BatchInv, [BatchNext]_allVars
             PROVE  BatchInv'
  OBVIOUS
<1>1. CASE PlanNext /\ UNCHANGED batchVars
  <2>1. PlanInv'
    BY <1>1, PlanGoesOn DEF BatchInv
  <2>2. planning # "idle"
    BY <1>1 DEF PlanNext, TryPage, TryBlock, TryWindow, CloseWindows, PlanLine, CloseLines
  <2>3. phase = "plan" /\ UNCHANGED <<phase, calls>>
    BY <1>1, <2>2 DEF BatchInv, CallsInv, batchVars
  <2> QED
    BY <2>1, <2>3 DEF BatchInv, CallsInv, SliceInv
<1>2. CASE UNCHANGED planVars
  <2>1. PlanInv'
    BY <1>2, PlanStays DEF BatchInv
  <2>2. /\ UNCHANGED <<links, scope, planning, chunks>> /\ chunks \in Seq(Chunk)
    BY <1>2 DEF planVars, BatchInv, PlanInv, PlanTypeOK
  <2>3. DOMAIN chunks = 1 .. Len(chunks) /\ Len(chunks) \in Nat
    BY <2>2
  <2>4. \A i : OwnedBefore(i)' = OwnedBefore(i)
    BY <2>2 DEF OwnedBefore
  <2>5. ASSUME UNCHANGED <<calls, item>>, phase \in {"next", "slice", "done"},
               phase' \in {"next", "slice", "refused"} \/ (phase' = "done" /\ item \notin DOMAIN chunks)
        PROVE  CallsInv'
    <3>1. StayTogether(item)'
      BY <2>2, <2>5 DEF BatchInv, CallsInv, StayTogether
    <3>2. (Owned(calls) = OwnedBefore(item))'
      BY <2>2, <2>4, <2>5 DEF BatchInv, CallsInv
    <3> QED
      BY <2>2, <2>5, <3>1, <3>2 DEF BatchInv, CallsInv
  <2>6. CASE BeginBatching
    <3>1. phase = "plan" /\ planning = "idle" /\ phase' = "next" /\ item' = 1 /\ calls' = <<>>
      BY <2>6 DEF BeginBatching, BatchInv, CallsInv
    <3>2. Owned(<<>>) = {} /\ <<>> \in Seq(Chunk) /\ OwnApart(<<>>)
      BY NoPlan DEF OwnApart
    <3>3. \A k \in DOMAIN chunks : ~(k < 1)
      BY <2>3
    <3>4. (Owned(calls) = OwnedBefore(item))' /\ StayTogether(item)'
      BY <2>2, <3>1, <3>2, <3>3 DEF OwnedBefore, StayTogether
    <3>5. CallsInv'
      BY <2>2, <2>3, <3>1, <3>2, <3>4 DEF CallsInv
    <3> QED
      BY <2>1, <3>1, <3>5 DEF BatchInv, SliceInv
  <2>7. CASE PassChunk
    <3>1. /\ phase = "next" /\ item \in DOMAIN chunks /\ calls' = Append(calls, chunks[item])
          /\ item' = item + 1 /\ phase' = "next" /\ calls \in Seq(Chunk)
      BY <2>7 DEF PassChunk, BatchInv, CallsInv
    <3>2. chunks[item] \in Chunk /\ chunks[item].targets \subseteq chunks[item].lines
      BY <3>1, PlannedChunk DEF BatchInv
    <3>3. PICK more : more = <<chunks[item]>>
      OBVIOUS
    <3>4. /\ more \in Seq(Chunk) /\ OwnApart(more) /\ Owned(more) = chunks[item].targets
          /\ \A l, m \in chunks[item].targets : \E k \in DOMAIN more : {l, m} \subseteq more[k].targets
          /\ calls' = calls \o more
      BY <3>1, <3>2, <3>3, PassedCall
    <3>5. CallsInv'
      BY <1>2, <3>1, <3>4, CallsGrow
    <3> QED
      BY <2>1, <3>1, <3>5 DEF BatchInv, SliceInv
  <2>8. CASE SliceChunk
    <3>1. /\ phase = "next" /\ phase' = "slice" /\ item \in DOMAIN chunks /\ UNCHANGED <<calls, item>>
          /\ cap' \in Nat /\ batches' = <<>> /\ current' = {} /\ assigned' = {}
      BY <2>8, CapsAssumption DEF SliceChunk
    <3>2. CallsInv'
      BY <2>5, <3>1
    <3>3. Cardinality({}) = 0
      BY FS_EmptySet
    <3>4. HoldsLinked({})'
      BY DEF HoldsLinked
    <3>5. <<>> \in Seq(SUBSET chunks[item].lines) /\ DOMAIN <<>> = {}
      OBVIOUS
    <3>6. SliceInv'
      BY <2>2, <3>1, <3>3, <3>4, <3>5 DEF SliceInv
    <3> QED
      BY <2>1, <3>2, <3>6 DEF BatchInv
  <2>9. CASE PlaceUnit
    <3>1. /\ phase = "slice" /\ phase' \in {"slice", "refused"} /\ UNCHANGED <<calls, item>>
      BY <2>9 DEF PlaceUnit
    <3>2. CallsInv'
      BY <2>5, <3>1
    <3> QED
      BY <2>1, <2>9, <3>2, PlaceUnitKeeps DEF BatchInv
  <2>10. CASE EmitBatches
    <3>1. /\ phase = "slice" /\ chunks[item].targets \subseteq assigned
          /\ calls' = calls \o [k \in DOMAIN Closed |-> Batch(chunks[item], Closed[k])]
          /\ phase' = "next" /\ item' = item + 1 /\ item \in DOMAIN chunks
      BY <2>10 DEF EmitBatches, BatchInv, SliceInv
    <3>2. PICK more : more = [k \in DOMAIN Closed |-> Batch(chunks[item], Closed[k])]
      OBVIOUS
    <3>3. /\ more \in Seq(Chunk) /\ OwnApart(more) /\ Owned(more) = chunks[item].targets
          /\ \A l, m \in chunks[item].targets : m \in Linked(links, l, scope) =>
                \E k \in DOMAIN more : {l, m} \subseteq more[k].targets
      BY <3>1, <3>2, SlicedCalls, SMTT(30)
    <3>4. CallsInv'
      BY <1>2, <3>1, <3>2, <3>3, CallsGrow
    <3> QED
      BY <2>1, <3>1, <3>4 DEF BatchInv, SliceInv
  <2>11. CASE EndBatching
    <3>1. /\ phase = "next" /\ phase' = "done" /\ item \notin DOMAIN chunks /\ UNCHANGED <<calls, item>>
      BY <2>11 DEF EndBatching
    <3>2. CallsInv'
      BY <2>5, <3>1
    <3> QED
      BY <2>1, <3>1, <3>2 DEF BatchInv, SliceInv
  <2>12. CASE UNCHANGED allVars
    <3>1. UNCHANGED <<phase, calls, item, cap, batches, current, assigned>>
      BY <2>12 DEF allVars, batchVars, sliceVars
    <3>2. SliceInv'
      BY <1>2, <3>1, SliceStays DEF BatchInv
    <3>3. StayTogether(item)' <=> StayTogether(item)
      BY <2>2, <3>1 DEF StayTogether
    <3>4. (Owned(calls) = OwnedBefore(item))' <=> Owned(calls) = OwnedBefore(item)
      BY <2>4, <3>1
    <3>5. CallsInv'
      BY <2>2, <3>1, <3>3, <3>4 DEF BatchInv, CallsInv
    <3> QED
      BY <2>1, <3>2, <3>5 DEF BatchInv
  <2> QED
    BY <1>1, <2>6, <2>7, <2>8, <2>9, <2>10, <2>11, <2>12 DEF BatchNext
<1> QED
  BY <1>1, <1>2
  DEF BatchNext, BeginBatching, PassChunk, SliceChunk, PlaceUnit, EmitBatches, EndBatching, allVars

-----------------------------------------------------------------------------
(* No batch holds more lines than the producer takes images, and slicing   *)
(* starts from requests inside the line cap (batching.py, "an error no     *)
(* retry and no granularity downgrade can heal").                          *)
THEOREM CallsAreBounded == BatchSpec => []CallsBounded
<1>1. BatchInv => CallsBounded
  <2>1. BatchInv => RequestsBounded
    BY DEF BatchInv, PlanInv, Division, RequestsBounded
  <2>2. BatchInv /\ phase = "slice" => \A k \in DOMAIN Closed : Cardinality(Closed[k]) =< cap
    BY ClosedParts
  <2> QED
    BY <2>1, <2>2 DEF CallsBounded
<1> QED
  BY <1>1, BatchInvInit, BatchNextKeeps, PTL DEF BatchSpec

(* Every line of the page is owned by exactly one call, which sends it:    *)
(* neither the planner nor the slicer loses a line or gives it two owners  *)
(* (planner.py, batching.py).                                              *)
THEOREM CallsAreOwnedOnce == BatchSpec => []CallsOwnOnce
<1>1. BatchInv => CallsOwnOnce
  <2> SUFFICES ASSUME BatchInv, phase = "done", NEW l \in scope
               PROVE  /\ Cardinality({k \in DOMAIN calls : l \in calls[k].targets}) = 1
                      /\ \A k \in DOMAIN calls : l \in calls[k].targets => l \in calls[k].lines
    BY DEF CallsOwnOnce
  <2>1. /\ OwnApart(calls) /\ Owned(calls) = OwnedBefore(item) /\ Owned(chunks) = scope
        /\ chunks \in Seq(Chunk) /\ item \in 1 .. (Len(chunks) + 1) /\ item \notin DOMAIN chunks
    BY DEF BatchInv, CallsInv, PlanInv, PlanTypeOK
  <2>2. \A k \in DOMAIN chunks : k < item
    BY <2>1
  <2>3. l \in Owned(calls)
    BY <2>1, <2>2 DEF Owned, OwnedBefore
  <2>4. PICK k \in DOMAIN calls : l \in calls[k].targets
    BY <2>3 DEF Owned
  <2>5. {j \in DOMAIN calls : l \in calls[j].targets} = {k}
    BY <2>1, <2>4 DEF OwnApart
  <2> QED
    BY <2>1, <2>5, FS_Singleton DEF OwnApart
<1> QED
  BY <1>1, BatchInvInit, BatchNextKeeps, PTL DEF BatchSpec

(* Two linked lines the plan sends together are sent in one call, however  *)
(* narrow the cap and wherever the rest of their unit is (batching.py, "a  *)
(* unit is never severed").                                                *)
THEOREM UnitsKeepOneCall == BatchSpec => []UnitsShareACall
<1>1. BatchInv => UnitsShareACall
  <2> SUFFICES ASSUME BatchInv, phase = "done", NEW l \in scope, NEW m \in scope,
                      forward_partner_ref(links, l) = m,
                      NEW k \in DOMAIN chunks, {l, m} \subseteq chunks[k].targets
               PROVE  \E j \in DOMAIN calls : {l, m} \subseteq calls[j].targets
    BY DEF UnitsShareACall
  <2>1. /\ StayTogether(item) /\ scope \in SUBSET Lines
        /\ chunks \in Seq(Chunk) /\ item \in 1 .. (Len(chunks) + 1) /\ item \notin DOMAIN chunks
    BY DEF BatchInv, CallsInv, PlanInv, PlanTypeOK
  <2>2. k < item
    BY <2>1
  <2>3. m \in Linked(links, l, scope)
    BY <2>1 DEF Linked, forward_partner_ref, Lines, NoLine
  <2> QED
    BY <2>1, <2>2, <2>3 DEF StayTogether
<1> QED
  BY <1>1, BatchInvInit, BatchNextKeeps, PTL DEF BatchSpec
=============================================================================
