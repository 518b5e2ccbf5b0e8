-------------------------- MODULE ProposalProofs ---------------------------
(* What becomes of a producer's script, for every document, script, verdict*)
(* and consumer: its spans land on the characters they name, a published   *)
(* script replays to what the run delivered and lands on no other line,    *)
(* and an answer that changes nothing is accepted.                         *)
EXTENDS Proposal, FiniteSetTheorems, SequenceTheorems, TLAPS

-----------------------------------------------------------------------------
(* The operations picked out of a list are those at the places asked for.  *)

LEMMA Ranked ==
    ASSUME NEW m \in Nat, NEW P \in SUBSET (1..m)
    PROVE  /\ IsFiniteSet(P) /\ Cardinality(P) \in Nat
           /\ \A n \in 1..Cardinality(P) : Nth(P, n) \in P
           /\ \A p \in P : \E n \in 1..Cardinality(P) : Nth(P, n) = p
<1> DEFINE upto(p) == {q \in P : q <= p}
           f == [p \in P |-> Cardinality(upto(p))]
           c == Cardinality(P)
<1>1. IsFiniteSet(P) /\ c \in Nat /\ IsFiniteSet(1..c) /\ Cardinality(1..c) = c
  <2>1. IsFiniteSet(1..m)
    BY FS_Interval
  <2>2. IsFiniteSet(P) /\ c \in Nat
    BY <2>1, FS_Subset, FS_CardinalityType
  <2> QED
    BY <2>2, FS_Interval
<1>2. \A p \in P : IsFiniteSet(upto(p)) /\ f[p] \in 1..c
  <2> SUFFICES ASSUME NEW p \in P
               PROVE  IsFiniteSet(upto(p)) /\ f[p] \in 1..c
    OBVIOUS
  <2>1. p \in upto(p) /\ upto(p) \subseteq P
    OBVIOUS
  <2>2. f[p] = Cardinality(upto(p))
    OBVIOUS
  <2> HIDE DEF upto, f
  <2>3. IsFiniteSet(upto(p)) /\ Cardinality(upto(p)) <= c
    BY <1>1, <2>1, FS_Subset
  <2>4. Cardinality(upto(p)) \in Nat /\ Cardinality(upto(p)) # 0
    BY <2>1, <2>3, FS_CardinalityType, FS_EmptySet
  <2> QED
    BY <1>1, <2>2, <2>3, <2>4
<1>3. ASSUME NEW p \in P, NEW q \in P, f[p] = f[q]
      PROVE  p = q
  <2>1. ASSUME NEW a \in P, NEW b \in P, a < b
        PROVE  f[a] # f[b]
    <3>1. b \in upto(b) /\ b \notin upto(a) /\ upto(a) \subseteq upto(b)
      <4>1. \A r \in P : r \in Nat
        OBVIOUS
      <4>2. b <= b /\ ~(b <= a) /\ \A r \in P : r <= a => r <= b
        BY <2>1, <4>1
      <4> QED
        BY <4>2
    <3>2. f[a] = Cardinality(upto(a)) /\ f[b] = Cardinality(upto(b))
      OBVIOUS
    <3> HIDE DEF upto, f
    <3> QED
      BY <1>2, <3>1, <3>2, FS_Subset
  <2>2. p \in Nat /\ q \in Nat
    OBVIOUS
  <2> HIDE DEF f
  <2> QED
    BY <1>3, <2>1, <2>2
<1>4. f \in Injection(P, 1..c)
  <2>1. f \in [P -> 1..c]
    BY <1>2
  <2> HIDE DEF f
  <2> QED
    BY <1>3, <2>1 DEF Injection, IsInjective
<1>5. \A p \in P : Cardinality({q \in P : q <= p}) = f[p]
  OBVIOUS
<1> HIDE DEF f
<1>6. f \in Surjection(P, 1..c)
  BY <1>1, <1>4, FS_Injection
<1>7. \A n \in 1..c : \E p \in P : Cardinality({q \in P : q <= p}) = n
  BY <1>5, <1>6 DEF Surjection
<1>8. \A n \in 1..c : Nth(P, n) \in P /\ f[Nth(P, n)] = n
  BY <1>5, <1>7 DEF Nth
<1>9. \A p \in P : f[p] \in 1..c /\ Nth(P, f[p]) = p
  BY <1>2, <1>3, <1>8
<1> QED
  BY <1>1, <1>8, <1>9

(* A list of operations. *)
Listed(s) == \E m \in Nat : DOMAIN s = 1..m

LEMMA Picked ==
    ASSUME NEW s, Listed(s), NEW P \in SUBSET DOMAIN s
    PROVE  /\ DOMAIN OpsAt(s, P) = 1..Cardinality(P)
           /\ IsFiniteSet(P) /\ Cardinality(P) \in Nat
           /\ \A n \in DOMAIN OpsAt(s, P) : \E p \in P : OpsAt(s, P)[n] = s[p]
           /\ \A p \in P : \E n \in DOMAIN OpsAt(s, P) : OpsAt(s, P)[n] = s[p]
<1>1. PICK m \in Nat : DOMAIN s = 1..m
  BY DEF Listed
<1>2. /\ IsFiniteSet(P) /\ Cardinality(P) \in Nat
      /\ \A n \in 1..Cardinality(P) : Nth(P, n) \in P
      /\ \A p \in P : \E n \in 1..Cardinality(P) : Nth(P, n) = p
  BY <1>1, Ranked
<1>3. /\ DOMAIN OpsAt(s, P) = 1..Cardinality(P)
      /\ \A n \in 1..Cardinality(P) : OpsAt(s, P)[n] = s[Nth(P, n)]
  BY DEF OpsAt
<1> QED
  BY <1>2, <1>3

-----------------------------------------------------------------------------
(* Replaying a script.                                                     *)

LEMMA Replayed ==
    ASSUME NEW s, NEW canonical, NEW owned, NEW role
    PROVE  LET r == apply_edit_script(s, canonical, owned, role)
               verdict(l) == LineText(s.ops[l], canonical[l], role[l])
           IN /\ DOMAIN r.text = {l \in Editable(s, canonical, owned) : verdict(l) # {}}
              /\ \A l \in DOMAIN r.text : r.text[l] \in verdict(l)
              /\ DOMAIN s.ops \ DOMAIN r.text \subseteq r.refused
<1> DEFINE verdicts == [l \in Editable(s, canonical, owned) |-> LineText(s.ops[l], canonical[l], role[l])]
           given == {l \in DOMAIN verdicts : verdicts[l] # {}}
           r == apply_edit_script(s, canonical, owned, role)
<1>1. r.text = [l \in given |-> CHOOSE t \in verdicts[l] : TRUE]
  BY DEF apply_edit_script
<1>2. \A l \in DOMAIN s.ops : l \notin given => l \in r.refused
  BY DEF apply_edit_script
<1>3. given = {l \in Editable(s, canonical, owned) : LineText(s.ops[l], canonical[l], role[l]) # {}}
  OBVIOUS
<1>4. \A l \in given : verdicts[l] = LineText(s.ops[l], canonical[l], role[l]) /\ verdicts[l] # {}
  OBVIOUS
<1> HIDE DEF r, verdicts, given
<1>5. \A l \in given : (CHOOSE t \in verdicts[l] : TRUE) \in verdicts[l]
  BY <1>4
<1>6. DOMAIN r.text = given /\ \A l \in given : r.text[l] \in verdicts[l]
  BY <1>1, <1>5
<1> QED
  BY <1>2, <1>3, <1>4, <1>6 DEF r

(* Spans make one text of a line, whatever its role lets through. *)
SpansMake(list, canonical) == ApplySpans(canonical, Accepted(Normalized(list, canonical)))

LEMMA SpansMakeOne ==
    ASSUME NEW list, NEW canonical, NEW role
    PROVE  /\ \A t \in SpanText(list, canonical, role) :
                 t = SpansMake(list, canonical) /\ ~BlankText(t)
           /\ SpanText(list, canonical, role) # {} => SpanText(list, canonical, "NONE") # {}
<1>1. \A t \in SpanText(list, canonical, role) : t = SpansMake(list, canonical) /\ ~BlankText(t)
  BY DEF SpanText, SpansMake
<1>2. ASSUME NEW t \in SpanText(list, canonical, role)
      PROVE  t \in SpanText(list, canonical, "NONE")
  <2>1. e5_hyphen_ok("NONE", t, canonical)
    BY DEF e5_hyphen_ok
  <2>2. e5b_boundary_word_kept("NONE", canonical, Accepted(Normalized(list, canonical)))
    BY DEF e5b_boundary_word_kept
  <2> QED
    BY <1>2, <2>1, <2>2 DEF SpanText
<1> QED
  BY <1>1, <1>2

-----------------------------------------------------------------------------
(* What is known of an answer once it is validated: the operations kept of *)
(* a line are all it was given, none of them was refused, and they make    *)
(* the text the answer has for it.                                         *)

KeptWhole(l) ==
    /\ l \in (targets \cap LinesOf(ops)) \ edited.refused /\ Given(l) <= 1
    /\ captured[l] = [ops |-> OpsOf(ops, l), text |-> CheckedText(l)]

AnswerInv ==
    /\ doc \in Documents /\ targets \subseteq Lines /\ Listed(ops)
    /\ stage # "asked" => edited = Spans(ops)
    /\ stage \in {"asked", "proposed"} => captured = None
    /\ \A l \in DOMAIN captured : KeptWhole(l)
    /\ stage \in {"published", "replayed"} =>
          script = [ops |-> [l \in Applied |-> PublishedOps(l)], expects |-> Preconditions]
    /\ stage = "replayed" =>
          \E d \in Documents, roles \in {doc.role, [l \in Lines |-> "NONE"]} :
              held = d.source /\ replay = apply_edit_script(script, d.source, Lines, roles)

LEMMA AnswerInvInit == Init => AnswerInv
<1> SUFFICES ASSUME Init
             PROVE  AnswerInv
  OBVIOUS
<1>1. doc \in Documents /\ targets \subseteq Lines /\ stage = "asked" /\ ops = <<>> /\ captured = None
  BY DEF Init
<1>2. DOMAIN captured = {}
  BY <1>1 DEF None
<1>3. DOMAIN ops = 1..0
  BY <1>1
<1> QED
  BY <1>1, <1>2, <1>3 DEF AnswerInv, Listed

LEMMA AnswerInvNext ==
    ASSUME AnswerInv, [Next]_vars
    PROVE  AnswerInv'
<1>1. CASE Propose
  <2>1. PICK proposed \in SeqOf(Operations(doc), MaxOps) : ops' = proposed /\ edited' = Spans(proposed)
    BY <1>1 DEF Propose
  <2>2. Listed(ops')
    <3>1. PICK k \in 0..MaxOps : proposed \in [1..k -> Operations(doc)]
      BY <2>1 DEF SeqOf
    <3>2. k \in Nat
      BY ProposalAssumption
    <3> QED
      BY <2>1, <3>1, <3>2 DEF Listed
  <2>3. /\ UNCHANGED <<doc, targets, captured>> /\ stage' = "proposed" /\ captured = None
        /\ DOMAIN captured' = {}
    BY <1>1 DEF Propose, SetUp, AnswerInv, None
  <2>4. edited' = Spans(ops)'
    BY <2>1, <2>3 DEF Spans
  <2> QED
    BY <2>2, <2>3, <2>4 DEF AnswerInv
<1>2. CASE AcceptAnswer
  <2>1. /\ UNCHANGED <<doc, targets, fullCoverage, ops, edited>> /\ stage = "proposed"
        /\ stage' = "validated" /\ captured' = Captured /\ Valid
    BY <1>2 DEF AcceptAnswer, SetUp
  <2>2. ASSUME NEW l \in DOMAIN captured'
        PROVE  KeptWhole(l)'
    <3>1. /\ l \in (targets \cap LinesOf(ops)) \ edited.refused
          /\ captured'[l] = [ops |-> OpsOf(ops, l), text |-> CheckedText(l)]
      BY <2>1, <2>2 DEF Captured
    <3>2. Given(l) <= 1
      BY <2>1, <3>1 DEF Valid, WellFormed
    <3> QED
      BY <2>1, <3>1, <3>2 DEF KeptWhole, Given, LineOps, CheckedText, RawText
  <2> QED
    BY <2>1, <2>2 DEF AnswerInv, Spans
<1>3. CASE RetryAnswer
  <2>1. /\ UNCHANGED <<doc, targets, captured>> /\ stage = "proposed" /\ stage' = "asked" /\ ops' = <<>>
    BY <1>3 DEF RetryAnswer, SetUp
  <2>2. captured' = None /\ DOMAIN captured' = {} /\ DOMAIN ops' = 1..0
    BY <2>1 DEF AnswerInv, None
  <2> QED
    BY <2>1, <2>2 DEF AnswerInv, Listed
<1>4. ASSUME UNCHANGED <<doc, targets, fullCoverage, ops, edited, captured>>,
             stage \notin {"asked"}, stage' \notin {"asked", "proposed"}
      PROVE  /\ doc' \in Documents /\ targets' \subseteq Lines /\ Listed(ops')
             /\ edited' = Spans(ops)'
             /\ \A l \in DOMAIN captured' : KeptWhole(l)'
  <2>1. ASSUME NEW l \in DOMAIN captured
        PROVE  KeptWhole(l)'
    <3>1. KeptWhole(l)
      BY <2>1 DEF AnswerInv
    <3> QED
      BY <1>4, <3>1 DEF KeptWhole, Given, LineOps, CheckedText, RawText
  <2>2. /\ doc \in Documents /\ targets \subseteq Lines /\ Listed(ops)
        /\ edited = Spans(ops)
    BY <1>4 DEF AnswerInv
  <2>3. Spans(ops)' = Spans(ops)
    BY <1>4 DEF Spans
  <2> QED
    BY <1>4, <2>1, <2>2, <2>3
<1>5. CASE GiveUp
  BY <1>4, <1>5 DEF GiveUp, SetUp, AnswerInv
<1>6. CASE Decide
  BY <1>4, <1>6 DEF Decide, SetUp, AnswerInv
<1>7. CASE Publish
  <2>1. script' = [ops |-> [l \in Applied |-> PublishedOps(l)], expects |-> Preconditions]'
    BY <1>7 DEF Publish, SetUp, Applied, PublishedOps, Preconditions
  <2> QED
    BY <1>4, <1>7, <2>1 DEF Publish, SetUp, AnswerInv
<1>8. CASE Replay
  <2>1. script' = [ops |-> [l \in Applied |-> PublishedOps(l)], expects |-> Preconditions]'
    BY <1>8 DEF Replay, SetUp, AnswerInv, Applied, PublishedOps, Preconditions
  <2>2. \E d \in Documents, roles \in {doc.role, [l \in Lines |-> "NONE"]} :
            held' = d.source /\ replay' = apply_edit_script(script', d.source, Lines, roles)
    BY <1>8 DEF Replay
  <2>3. /\ UNCHANGED <<doc, targets, fullCoverage, ops, edited, captured>>
        /\ stage = "published" /\ stage' = "replayed" /\ doc' = doc
    BY <1>8 DEF Replay, SetUp
  <2>4. /\ doc' \in Documents /\ targets' \subseteq Lines /\ Listed(ops')
        /\ edited' = Spans(ops)'
        /\ \A l \in DOMAIN captured' : KeptWhole(l)'
    BY <1>4, <2>3
  <2> QED
    BY <2>1, <2>2, <2>3, <2>4 DEF AnswerInv
<1>9. CASE UNCHANGED vars
  <2>1. /\ UNCHANGED <<doc, targets, fullCoverage, stage, ops, edited, captured, decision>>
        /\ UNCHANGED <<script, held, replay>>
    BY <1>9 DEF vars
  <2>2. ASSUME NEW l \in DOMAIN captured
        PROVE  KeptWhole(l)'
    <3>1. KeptWhole(l)
      BY <2>2 DEF AnswerInv
    <3> QED
      BY <2>1, <3>1 DEF KeptWhole, Given, LineOps, CheckedText, RawText
  <2>3. Spans(ops)' = Spans(ops) /\ Listed(ops)' = Listed(ops)
    BY <2>1 DEF Spans
  <2>4. [ops |-> [l \in Applied |-> PublishedOps(l)], expects |-> Preconditions]'
          = [ops |-> [l \in Applied |-> PublishedOps(l)], expects |-> Preconditions]
    BY <2>1 DEF Applied, PublishedOps, Preconditions
  <2> QED
    BY <2>1, <2>2, <2>3, <2>4 DEF AnswerInv
<1> QED
  BY <1>1, <1>2, <1>3, <1>5, <1>6, <1>7, <1>8, <1>9 DEF Next

LEMMA AnswerInvAlways == Spec => []AnswerInv
  BY AnswerInvInit, AnswerInvNext, PTL DEF Spec

-----------------------------------------------------------------------------
(* What a captured line was given.                                         *)

(* Where the operations of a line stand in the answer. *)
PlacesOf(l) == {k \in DOMAIN ops : ops[k].line = l}

LEMMA GivenOps ==
    ASSUME AnswerInv, NEW l
    PROVE  /\ Len(OpsOf(ops, l)) = Cardinality(PlacesOf(l))
           /\ DOMAIN OpsOf(ops, l) = 1..Cardinality(PlacesOf(l))
           /\ IsFiniteSet(PlacesOf(l)) /\ Cardinality(PlacesOf(l)) \in Nat
           /\ \A n \in DOMAIN OpsOf(ops, l) : \E p \in PlacesOf(l) : OpsOf(ops, l)[n] = ops[p]
           /\ \A p \in PlacesOf(l) : \E n \in DOMAIN OpsOf(ops, l) : OpsOf(ops, l)[n] = ops[p]
           /\ LineOps(l) \subseteq PlacesOf(l) /\ IsFiniteSet(LineOps(l))
<1>1. Listed(ops) /\ PlacesOf(l) \in SUBSET DOMAIN ops
  BY DEF AnswerInv, PlacesOf
<1>2. OpsOf(ops, l) = OpsAt(ops, PlacesOf(l))
  BY DEF OpsOf, PlacesOf
<1>3. LineOps(l) \subseteq PlacesOf(l)
  BY DEF LineOps, PlacesOf
<1>4. /\ DOMAIN OpsAt(ops, PlacesOf(l)) = 1..Cardinality(PlacesOf(l))
      /\ IsFiniteSet(PlacesOf(l)) /\ Cardinality(PlacesOf(l)) \in Nat
      /\ \A n \in DOMAIN OpsAt(ops, PlacesOf(l)) : \E p \in PlacesOf(l) : OpsAt(ops, PlacesOf(l))[n] = ops[p]
      /\ \A p \in PlacesOf(l) : \E n \in DOMAIN OpsAt(ops, PlacesOf(l)) : OpsAt(ops, PlacesOf(l))[n] = ops[p]
  BY <1>1, Picked
<1>5. OpsAt(ops, PlacesOf(l)) = [n \in 1..Cardinality(PlacesOf(l)) |-> ops[Nth(PlacesOf(l), n)]]
  BY DEF OpsAt
<1>6. Len(OpsAt(ops, PlacesOf(l))) = Cardinality(PlacesOf(l))
  BY <1>4, <1>5
<1>7. IsFiniteSet(LineOps(l))
  BY <1>3, <1>4, FS_Subset
<1> QED
  BY <1>2, <1>3, <1>4, <1>6, <1>7

LEMMA CapturedLate ==
    ASSUME AnswerInv, NEW l \in DOMAIN captured
    PROVE  KeptWhole(l) /\ edited = Spans(ops) /\ l \in Lines
<1>1. KeptWhole(l)
  BY DEF AnswerInv
<1>2. captured # None
  BY DEF None
<1> QED
  BY <1>1, <1>2 DEF AnswerInv, KeptWhole

(* A line has its spans, or its one text, and not both. *)
LEMMA SpansNotRefused ==
    ASSUME AnswerInv, NEW l \in DOMAIN captured, SpanPlaces(ops, l) # {}
    PROVE  /\ LineOps(l) = {} /\ SpanOps(ops)[l] = OpsOf(ops, l)
           /\ l \in DOMAIN edited.text
           /\ edited.text[l] \in LineText(OpsOf(ops, l), doc.source[l], doc.role[l])
<1>1. KeptWhole(l) /\ edited = Spans(ops)
  BY CapturedLate
<1>2. l \in DOMAIN SpanOps(ops)
  <2>1. PICK k \in SpanPlaces(ops, l) : TRUE
    OBVIOUS
  <2>2. l \in LinesOf(ops)
    BY <2>1 DEF SpanPlaces, LinesOf
  <2> QED
    BY <2>2 DEF SpanOps
<1> DEFINE s == [ops |-> SpanOps(ops), expects |-> None]
<1>3. s.ops = SpanOps(ops) /\ edited = apply_edit_script(s, doc.source, targets, doc.role)
  BY <1>1 DEF Spans
<1> HIDE DEF s
<1>4. /\ \A k \in DOMAIN edited.text : edited.text[k] \in LineText(s.ops[k], doc.source[k], doc.role[k])
      /\ DOMAIN s.ops \ DOMAIN edited.text \subseteq edited.refused
  BY <1>3, Replayed
<1>5. l \in DOMAIN edited.text
  BY <1>1, <1>2, <1>3, <1>4 DEF KeptWhole
<1>6. LineOps(l) = {}
  <2>1. IsFiniteSet(LineOps(l))
    BY GivenOps
  <2>2. Cardinality(LineOps(l)) \in Nat /\ Cardinality(LineOps(l)) + 1 <= 1
    BY <1>1, <1>5, <2>1, FS_CardinalityType DEF KeptWhole, Given
  <2> QED
    BY <2>1, <2>2, FS_EmptySet
<1>7. SpanPlaces(ops, l) = {k \in DOMAIN ops : ops[k].line = l}
  BY <1>6 DEF SpanPlaces, LineOps
<1>8. SpanOps(ops)[l] = OpsOf(ops, l)
  BY <1>2, <1>7 DEF SpanOps, OpsOf
<1> QED
  BY <1>3, <1>4, <1>5, <1>6, <1>8

(* What the operations of a line make is what the answer has for it. *)
LEMMA KeptTellsTheText ==
    ASSUME AnswerInv, NEW l \in DOMAIN captured, NEW role,
           NEW t \in LineText(OpsOf(ops, l), doc.source[l], role)
    PROVE  t = CheckedText(l)
<1>1. KeptWhole(l)
  BY CapturedLate
<1>2. /\ DOMAIN OpsOf(ops, l) = 1..Cardinality(PlacesOf(l)) /\ Len(OpsOf(ops, l)) = Cardinality(PlacesOf(l))
      /\ IsFiniteSet(PlacesOf(l)) /\ Cardinality(PlacesOf(l)) \in Nat
      /\ \A n \in DOMAIN OpsOf(ops, l) : \E p \in PlacesOf(l) : OpsOf(ops, l)[n] = ops[p]
      /\ \A p \in PlacesOf(l) : \E n \in DOMAIN OpsOf(ops, l) : OpsOf(ops, l)[n] = ops[p]
      /\ LineOps(l) \subseteq PlacesOf(l)
  BY GivenOps
<1>3. LineOps(l) = {k \in PlacesOf(l) : IsLineOp(ops[k])}
  BY DEF LineOps, PlacesOf
<1>4. SpanPlaces(ops, l) = {k \in PlacesOf(l) : ~IsLineOp(ops[k])}
  BY DEF SpanPlaces, PlacesOf
<1>5. CASE \E n \in DOMAIN OpsOf(ops, l) : IsLineOp(OpsOf(ops, l)[n])
  <2>1. t \in WholeLineText(OpsOf(ops, l), doc.source[l], role)
    BY <1>5 DEF LineText
  <2>2. PICK n \in DOMAIN OpsOf(ops, l) : t = OpsOf(ops, l)[n].text
    BY <2>1 DEF WholeLineText
  <2>3. Len(OpsOf(ops, l)) = 1 /\ ~BlankText(t)
    BY <2>1 DEF WholeLineText
  <2>4. \A a, b \in PlacesOf(l) : a = b
    <3>1. Cardinality(PlacesOf(l)) = 1
      BY <1>2, <2>3
    <3>2. PICK x : PlacesOf(l) = {x}
      BY <1>2, <3>1, FS_Singleton
    <3> QED
      BY <3>2
  <2>5. PICK p \in PlacesOf(l) : IsLineOp(ops[p])
    BY <1>2, <1>5
  <2>6. OpsOf(ops, l)[n] = ops[p] /\ LineOps(l) = {p}
    BY <1>2, <1>3, <2>4, <2>5
  <2>7. p \in Nat
    <3>1. p \in DOMAIN ops
      BY DEF PlacesOf
    <3> QED
      BY <3>1 DEF AnswerInv, Listed
  <2>8. Min(LineOps(l)) = p
    BY <2>6, <2>7 DEF Min
  <2> QED
    BY <2>2, <2>3, <2>6, <2>8 DEF CheckedText, RawText
<1>6. CASE ~(\E n \in DOMAIN OpsOf(ops, l) : IsLineOp(OpsOf(ops, l)[n]))
  <2>1. LineOps(l) = {}
    BY <1>2, <1>3, <1>6
  <2>2. l \in LinesOf(ops)
    BY <1>1 DEF KeptWhole
  <2>3. PlacesOf(l) # {}
    BY <2>2 DEF LinesOf, PlacesOf
  <2>4. SpanPlaces(ops, l) # {}
    BY <1>3, <1>4, <2>1, <2>3
  <2>5. /\ l \in DOMAIN edited.text
        /\ edited.text[l] \in LineText(OpsOf(ops, l), doc.source[l], doc.role[l])
    BY <2>4, SpansNotRefused
  <2>6. \A r : LineText(OpsOf(ops, l), doc.source[l], r) = SpanText(OpsOf(ops, l), doc.source[l], r)
    BY <1>6 DEF LineText
  <2>7. t \in SpanText(OpsOf(ops, l), doc.source[l], role)
    BY <2>6
  <2>8. edited.text[l] \in SpanText(OpsOf(ops, l), doc.source[l], doc.role[l])
    BY <2>5, <2>6
  <2>9. /\ t = SpansMake(OpsOf(ops, l), doc.source[l]) /\ ~BlankText(t)
        /\ edited.text[l] = SpansMake(OpsOf(ops, l), doc.source[l])
    BY <2>7, <2>8, SpansMakeOne
  <2> QED
    BY <2>1, <2>5, <2>9 DEF CheckedText, RawText
<1> QED
  BY <1>5, <1>6

(* Published spans apply to the text they were computed against, whether   *)
(* the consumer tells the roles or not.                                    *)
LEMMA KeptSpansApply ==
    ASSUME AnswerInv, NEW l \in DOMAIN captured, NEW n \in DOMAIN OpsOf(ops, l),
           ~IsLineOp(OpsOf(ops, l)[n]), NEW role \in {doc.role[l], "NONE"}
    PROVE  LineText(OpsOf(ops, l), doc.source[l], role) # {}
<1>1. \A k \in DOMAIN OpsOf(ops, l) : \E q \in PlacesOf(l) : OpsOf(ops, l)[k] = ops[q]
  BY GivenOps
<1>2. PICK p \in PlacesOf(l) : OpsOf(ops, l)[n] = ops[p]
  BY <1>1
<1>3. SpanPlaces(ops, l) # {}
  BY <1>2 DEF SpanPlaces, PlacesOf
<1>4. /\ LineOps(l) = {}
      /\ edited.text[l] \in LineText(OpsOf(ops, l), doc.source[l], doc.role[l])
  BY <1>3, SpansNotRefused
<1>5. \A k \in DOMAIN OpsOf(ops, l) : ~IsLineOp(OpsOf(ops, l)[k])
  BY <1>1, <1>4 DEF LineOps, PlacesOf
<1>6. \A r : LineText(OpsOf(ops, l), doc.source[l], r) = SpanText(OpsOf(ops, l), doc.source[l], r)
  BY <1>5 DEF LineText
<1> QED
  BY <1>4, <1>6, SpansMakeOne

-----------------------------------------------------------------------------
(* Replaying what was published.                                           *)

(* A consumer never gets another text than the run delivered, and gets all *)
(* of what was published as spans on a line that reads as it did (report.py*)
(* "the EditScript the run actually applied").                             *)
THEOREM ReplayAgrees == Spec => []ReplayTellsTheTruth
<1>1. AnswerInv => ReplayTellsTheTruth
  <2> SUFFICES ASSUME AnswerInv, stage = "replayed"
               PROVE  ReplayTellsTheTruth
    BY DEF ReplayTellsTheTruth
  <2>1. PICK d \in Documents, roles \in {doc.role, [l \in Lines |-> "NONE"]} :
            held = d.source /\ replay = apply_edit_script(script, held, Lines, roles)
    BY DEF AnswerInv
  <2>2. /\ script.ops = [l \in Applied |-> PublishedOps(l)]
        /\ script.expects = [l \in Applied |-> doc.source[l]]
    BY DEF AnswerInv, Preconditions
  <2>3. /\ DOMAIN replay.text = {l \in Editable(script, held, Lines) :
                                    LineText(script.ops[l], held[l], roles[l]) # {}}
        /\ \A l \in DOMAIN replay.text : replay.text[l] \in LineText(script.ops[l], held[l], roles[l])
    BY <2>1, Replayed
  <2>4. \A l \in DOMAIN replay.text : l \in Applied /\ held[l] = doc.source[l]
    BY <2>2, <2>3 DEF Editable
  <2>5. ASSUME NEW l \in Applied
        PROVE  /\ l \in DOMAIN captured /\ l \in Lines
               /\ captured[l].ops = OpsOf(ops, l) /\ captured[l].text = CheckedText(l)
    <3>1. l \in DOMAIN captured
      BY DEF Applied
    <3>2. KeptWhole(l) /\ l \in Lines
      BY <3>1, CapturedLate
    <3> QED
      BY <3>1, <3>2 DEF KeptWhole
  <2>6. ASSUME NEW l \in DOMAIN replay.text
        PROVE  decision[l].text = replay.text[l]
    <3>1. l \in Applied /\ replay.text[l] \in LineText(PublishedOps(l), doc.source[l], roles[l])
      BY <2>2, <2>3, <2>4
    <3>2. CASE captured[l].text = decision[l].text
      <4>1. PublishedOps(l) = OpsOf(ops, l) /\ CheckedText(l) = decision[l].text
        BY <2>5, <3>1, <3>2 DEF PublishedOps
      <4> QED
        BY <2>5, <3>1, <4>1, KeptTellsTheText
    <3>3. CASE captured[l].text # decision[l].text
      <4>1. PublishedOps(l) = <<[line |-> l, anchor |-> WholeLine, text |-> decision[l].text]>>
        BY <3>3 DEF PublishedOps
      <4>2. \A k \in DOMAIN PublishedOps(l) : /\ IsLineOp(PublishedOps(l)[k]) /\ k = 1
                                              /\ PublishedOps(l)[k].text = decision[l].text
        BY <4>1 DEF IsLineOp, WholeLine
      <4>3. DOMAIN PublishedOps(l) = {1}
        BY <4>1
      <4>4. replay.text[l] \in WholeLineText(PublishedOps(l), doc.source[l], roles[l])
        BY <3>1, <4>2, <4>3 DEF LineText
      <4> QED
        BY <4>2, <4>4 DEF WholeLineText
    <3> QED
      BY <3>2, <3>3
  <2>7. ASSUME NEW l \in DOMAIN script.ops, NEW k \in DOMAIN script.ops[l],
               ~IsLineOp(script.ops[l][k]), held[l] = doc.source[l]
        PROVE  l \in DOMAIN replay.text
    <3>1. l \in Applied /\ script.ops[l] = PublishedOps(l)
      BY <2>2, <2>7
    <3>2. captured[l].text = decision[l].text
      <4>1. SUFFICES ASSUME captured[l].text # decision[l].text PROVE FALSE
        OBVIOUS
      <4>2. PublishedOps(l) = <<[line |-> l, anchor |-> WholeLine, text |-> decision[l].text]>>
        BY <4>1 DEF PublishedOps
      <4> QED
        BY <2>7, <3>1, <4>2 DEF IsLineOp, WholeLine
    <3>3. script.ops[l] = OpsOf(ops, l)
      BY <2>5, <3>1, <3>2 DEF PublishedOps
    <3>4. roles[l] \in {doc.role[l], "NONE"}
      BY <2>1, <2>5, <3>1
    <3>5. LineText(script.ops[l], held[l], roles[l]) # {}
      BY <2>5, <2>7, <3>1, <3>3, <3>4, KeptSpansApply
    <3>6. l \in DOMAIN held /\ l \in Lines
      BY <2>1, <2>5, <3>1, ProposalAssumption
    <3>7. l \in Editable(script, held, Lines)
      BY <2>2, <2>7, <3>1, <3>6 DEF Editable
    <3> QED
      BY <2>3, <3>5, <3>7
  <2> QED
    BY <2>6, <2>7 DEF ReplayTellsTheTruth
<1> QED
  BY <1>1, AnswerInvAlways, PTL

(* No operation of a published script lands on a line with the right id    *)
(* and another text (editing.py: "a lookalike, never a target").           *)
THEOREM LookalikesAreLeft == Spec => []NeverEditsALookalike
<1>1. AnswerInv => NeverEditsALookalike
  <2> SUFFICES ASSUME AnswerInv, stage = "replayed"
               PROVE  \A l \in DOMAIN replay.text : held[l] = doc.source[l]
    BY DEF NeverEditsALookalike
  <2>1. PICK d \in Documents, roles \in {doc.role, [l \in Lines |-> "NONE"]} :
            held = d.source /\ replay = apply_edit_script(script, held, Lines, roles)
    BY DEF AnswerInv
  <2>2. DOMAIN script.ops = Applied /\ script.expects = [l \in Applied |-> doc.source[l]]
    BY DEF AnswerInv, Preconditions
  <2>3. DOMAIN replay.text \subseteq Editable(script, held, Lines)
    BY <2>1, Replayed
  <2> QED
    BY <2>2, <2>3 DEF Editable
<1> QED
  BY <1>1, AnswerInvAlways, PTL

-----------------------------------------------------------------------------
(* Giving lines back as they were.                                         *)

LEMMA TextEnds ==
    ASSUME NEW A, NEW x \in Seq(A)
    PROVE  IsFiniteSet(DOMAIN x)
<1>1. Len(x) \in Nat /\ DOMAIN x = 1..Len(x)
  BY LenProperties
<1> QED
  BY <1>1, FS_Interval

LEMMA EmptyText == OneLine(<<>>) /\ BlankText(<<>>) /\ LastWord(<<>>) = {}
<1>1. ASSUME NEW chars
      PROVE  RStrip(<<>>, chars) = <<>>
  <2>1. {0} \cup {k \in DOMAIN <<>> : <<>>[k] \notin chars} = {0}
    OBVIOUS
  <2>2. Max({0}) = 0
    BY DEF Max
  <2> QED
    BY <2>1, <2>2 DEF RStrip
<1>2. Reverse(<<>>) = <<>>
  BY DEF Reverse
<1>3. BlankText(<<>>)
  BY <1>1, <1>2 DEF BlankText, Strip
<1>4. BeforeMark(<<>>) = <<>>
  BY <1>1 DEF BeforeMark
<1>5. WordStarts(<<>>) = {}
  BY DEF WordStarts
<1>6. DOMAIN SplitWords(<<>>) = {}
  <2>1. Cardinality({}) = 0
    BY FS_EmptySet
  <2>2. DOMAIN SplitWords(<<>>) = 1..0
    BY <1>5, <2>1 DEF SplitWords
  <2> QED
    BY <2>2
<1>7. LastWord(<<>>) = {}
  BY <1>4, <1>6 DEF LastWord
<1>8. OneLine(<<>>)
  BY DEF OneLine, Range
<1> QED
  BY <1>3, <1>7, <1>8

(* Lines read as one line of text, and a broken word has text on both.     *)
Legible(d) ==
    /\ \A l \in Lines : OneLine(d.source[l])
    /\ \A p \in d.pairs : ~BlankText(d.source[p[1]]) /\ ~BlankText(d.source[p[2]])

LEMMA GivenBack ==
    ASSUME AnswerInv, stage = "proposed",
           \A l \in Lines : Given(l) <= 1 /\ (l \in targets => Given(l) = 1),
           \A k \in DOMAIN ops : /\ ops[k].line \in Lines /\ IsLineOp(ops[k])
                                 /\ ops[k].text = doc.source[ops[k].line]
    PROVE  /\ targets \subseteq Named /\ Named \subseteq Lines
           /\ \A l \in Lines : RawText(l) = doc.source[l]
<1>1. DOMAIN edited.text = {}
  <2> DEFINE s == [ops |-> SpanOps(ops), expects |-> None]
  <2>1. DOMAIN s.ops = {}
    <3>1. \A l : SpanPlaces(ops, l) = {}
      BY DEF SpanPlaces
    <3> QED
      BY <3>1 DEF SpanOps
  <2>2. edited = apply_edit_script(s, doc.source, targets, doc.role)
    BY DEF AnswerInv, Spans
  <2>3. DOMAIN edited.text \subseteq Editable(s, doc.source, targets)
    <3> HIDE DEF s
    <3> QED
      BY <2>2, Replayed
  <2> QED
    BY <2>1, <2>3 DEF Editable
<1>2. ASSUME NEW l \in Lines
      PROVE  /\ IsFiniteSet(LineOps(l)) /\ Cardinality(LineOps(l)) = Given(l)
             /\ Given(l) \in Nat
  <2>1. IsFiniteSet(LineOps(l))
    BY GivenOps
  <2> QED
    BY <1>1, <2>1, FS_CardinalityType DEF Given
<1>3. LinesOf(ops) \subseteq Lines
  BY DEF LinesOf
<1>4. Spoken \subseteq Lines
  BY <1>3 DEF Spoken
<1>5. targets \subseteq Spoken
  <2> SUFFICES ASSUME NEW l \in targets
               PROVE  l \in Spoken
    OBVIOUS
  <2>1. l \in Lines /\ Given(l) = 1
    BY DEF AnswerInv
  <2>2. LineOps(l) # {}
    BY <1>2, <2>1, FS_EmptySet
  <2>3. l \in LinesOf(ops)
    BY <2>2 DEF LineOps, LinesOf
  <2> QED
    BY <2>1, <2>3 DEF Spoken
<1>6. ASSUME NEW l \in Lines
      PROVE  RawText(l) = doc.source[l]
  <2>1. CASE LineOps(l) = {}
    BY <1>1, <2>1 DEF RawText
  <2>2. CASE LineOps(l) # {}
    <3>1. Cardinality(LineOps(l)) = 1
      BY <1>2, <2>2, FS_EmptySet
    <3>2. PICK p : LineOps(l) = {p}
      BY <1>2, <3>1, FS_Singleton
    <3>3. p \in DOMAIN ops /\ ops[p].line = l
      BY <3>2 DEF LineOps
    <3>4. Min(LineOps(l)) = p
      <4>1. p \in Nat
        BY <3>3 DEF AnswerInv, Listed
      <4> QED
        BY <3>2, <4>1 DEF Min
    <3> QED
      BY <2>2, <3>3, <3>4 DEF RawText
  <2> QED
    BY <2>1, <2>2
<1> QED
  BY <1>4, <1>5, <1>6 DEF Named

(* A line given back as it was passes every check on its own text and on   *)
(* its pair, a first half that already reads as the whole word included.   *)
THEOREM UnchangedIsAccepted ==
    ASSUME \A d \in Documents : Legible(d)
    PROVE  Spec => []IdentityIsAccepted
<1>1. AnswerInv => IdentityIsAccepted
  <2> SUFFICES ASSUME AnswerInv, stage = "proposed",
                      \A l \in Lines : Given(l) <= 1 /\ (l \in targets => Given(l) = 1),
                      \A k \in DOMAIN ops : /\ ops[k].line \in Lines /\ IsLineOp(ops[k])
                                            /\ ops[k].text = doc.source[ops[k].line]
               PROVE  Valid
    BY DEF IdentityIsAccepted
  <2>1. /\ targets \subseteq Named /\ Named \subseteq Lines /\ targets \subseteq Lines
        /\ \A l \in Lines : RawText(l) = doc.source[l]
    BY GivenBack DEF AnswerInv
  <2>2. Legible(doc) /\ doc \in Documents
    BY DEF AnswerInv
  <2>3. \A l \in Lines : CheckedText(l) = IF BlankText(doc.source[l]) THEN <<>> ELSE doc.source[l]
    BY <2>1 DEF CheckedText
  <2>4. WellFormed
    <3>1. ASSUME NEW l \in Named
          PROVE  Given(l) <= 1 /\ ~Erases(l) /\ OneLine(CheckedText(l))
      BY <2>1, <2>2, <2>3, EmptyText DEF Erases, Legible
    <3> QED
      BY <2>1, <3>1 DEF WellFormed
  <2>5. ASSUME NEW p \in doc.pairs
        PROVE  /\ CheckedText(p[1]) # <<>> /\ CheckedText(p[2]) # <<>>
               /\ ~PairDrifts(p[1], p[2])
    <3>1. /\ p[1] \in Lines /\ p[2] \in Lines
          /\ IsFiniteSet(DOMAIN doc.source[p[1]]) /\ IsFiniteSet(DOMAIN doc.source[p[2]])
      <4>1. p[1] \in Lines /\ p[2] \in Lines
        BY <2>2, ProposalAssumption
      <4>2. /\ doc.source[p[1]] \in Seq(Range(doc.source[p[1]]))
            /\ doc.source[p[2]] \in Seq(Range(doc.source[p[2]]))
        BY <2>2, <4>1, ProposalAssumption
      <4> QED
        BY <4>1, <4>2, TextEnds
    <3>2. CheckedText(p[1]) = doc.source[p[1]] /\ CheckedText(p[2]) = doc.source[p[2]]
      BY <2>2, <2>3, <3>1 DEF Legible
    <3>3. doc.source[p[1]] # <<>> /\ doc.source[p[2]] # <<>>
      BY <2>2, EmptyText DEF Legible
    <3>4. ASSUME NEW text, IsFiniteSet(DOMAIN text)
          PROVE  Words(text) \in Nat
      <4>1. WordStarts(text) \subseteq DOMAIN text
        BY DEF WordStarts
      <4>2. IsFiniteSet(WordStarts(text))
        BY <3>4, <4>1, FS_Subset
      <4> QED
        BY <4>2, FS_CardinalityType DEF Words
    <3>5. /\ Words(doc.source[p[1]]) \in Nat /\ Words(doc.source[p[2]]) \in Nat
          /\ WordGrowth \in Nat
      BY <3>1, <3>4, ProposalAssumption
    <3>6. ~PairDrifts(p[1], p[2])
      BY <3>2, <3>5 DEF PairDrifts
    <3> QED
      BY <3>2, <3>3, <3>6
  <2>6. \A l \in targets : ~Fused(l)
    BY <2>1, <2>3, EmptyText DEF Fused
  <2> QED
    BY <2>4, <2>5, <2>6 DEF Valid, HyphenIntegrity
<1> QED
  BY <1>1, AnswerInvAlways, PTL

-----------------------------------------------------------------------------
(* Functions that are defined step by step.                                *)

(* Induction, on a set of numbers. *)
LEMMA StepByStep ==
    ASSUME NEW n \in Nat, NEW T \in SUBSET (0..n), 0 \in T, \A k \in 1..n : k - 1 \in T => k \in T
    PROVE  T = 0..n
<1> DEFINE R == {p \in Nat \X Nat : p[1] < p[2]}
           Bad == (0..n) \ T
<1>1. IsWellFoundedOn(R, Nat)
  BY NatLessThanWellFounded DEF OpToRel
<1>2. ASSUME Bad # {} PROVE FALSE
  <2>1. PICK x \in Bad : \A y \in Bad : <<y, x>> \notin R
    <3>1. Bad \subseteq Nat
      OBVIOUS
    <3> HIDE DEF R, Bad
    <3> QED
      BY ONLY <1>1, <1>2, <3>1, WFMin
  <2>2. x \in 1..n /\ x - 1 \in Nat /\ x - 1 \in 0..n
    BY <2>1
  <2>3. <<x - 1, x>> \in R
    BY <2>2
  <2> QED
    BY <2>1, <2>2, <2>3
<1> QED
  BY <1>2

(* Whatever the step, there is a function that takes it. *)
IsStep(F, n, S) == F \in [(1..n) \X S -> S]
Takes(f, F, n, S, b) ==
    f \in [0..n -> S] /\ f[0] = b /\ \A k \in 1..n : f[k] = F[<<k, f[k - 1]>>]

LEMMA StepsExist ==
    ASSUME NEW n \in Nat, NEW S, NEW b \in S, NEW F, IsStep(F, n, S)
    PROVE  \E f : Takes(f, F, n, S, b)
<1> USE DEF IsStep
<1> DEFINE Upto(f, m) == /\ f \in [0..m -> S] /\ f[0] = b
                         /\ \A k \in 1..m : f[k] = F[<<k, f[k - 1]>>]
           T == {m \in 0..n : \E f : Upto(f, m)}
<1>1. 0 \in T
  <2>1. Upto([k \in 0..0 |-> b], 0)
    OBVIOUS
  <2> HIDE DEF Upto
  <2> QED
    BY <2>1
<1>2. ASSUME NEW m \in 1..n, m - 1 \in T
      PROVE  m \in T
  <2>1. PICK g : Upto(g, m - 1)
    BY <1>2
  <2> DEFINE x == F[<<m, g[m - 1]>>]
             f == [k \in 0..m |-> IF k = m THEN x ELSE g[k]]
  <2>2. x \in S /\ g \in [0..(m - 1) -> S]
    BY <2>1
  <2>3. f \in [0..m -> S] /\ f[0] = b
    BY <2>1, <2>2
  <2>4. ASSUME NEW k \in 1..m
        PROVE  f[k] = F[<<k, f[k - 1]>>]
    <3>1. k - 1 \in 0..(m - 1) /\ f[k - 1] = g[k - 1]
      OBVIOUS
    <3>2. CASE k = m
      BY <3>1, <3>2
    <3>3. CASE k # m
      <4>1. k \in 1..(m - 1) /\ f[k] = g[k]
        BY <3>3
      <4> HIDE DEF f
      <4> QED
        BY <2>1, <3>1, <4>1
    <3> QED
      BY <3>2, <3>3
  <2>5. Upto(f, m)
    BY <2>3, <2>4
  <2> HIDE DEF Upto
  <2> QED
    BY <2>5
<1>3. n \in T
  <2>1. T \in SUBSET (0..n)
    OBVIOUS
  <2> HIDE DEF T
  <2> QED
    BY <1>1, <1>2, <2>1, StepByStep
<1> QED
  BY <1>3 DEF Takes

(* The spans accepted one after the other. *)
LEMMA KeptIs ==
    ASSUME NEW S, NEW spans \in Seq(S)
    PROVE  \E kept \in [0..Len(spans) -> Seq(S)] :
              /\ kept[0] = <<>>
              /\ \A k \in 1..Len(spans) :
                    kept[k] = IF Collides(kept[k - 1], spans[k]) THEN kept[k - 1]
                              ELSE Append(kept[k - 1], spans[k])
              /\ Accepted(spans) = kept[Len(spans)]
<1> DEFINE n == Len(spans)
           Step(x, k) == IF Collides(x, spans[k]) THEN x ELSE Append(x, spans[k])
           F == [p \in (1..n) \X Seq(S) |-> Step(p[2], p[1])]
           Is(g) == g = [k \in 0..n |-> IF k = 0 THEN <<>> ELSE Step(g[k - 1], k)]
<1>1. n \in Nat /\ <<>> \in Seq(S) /\ \A k \in 1..n : spans[k] \in S
  OBVIOUS
<1>2. \A k \in 1..n : \A x \in Seq(S) : Step(x, k) \in Seq(S)
  BY <1>1, AppendProperties
<1>3. F \in [(1..n) \X Seq(S) -> Seq(S)]
  BY <1>2
<1>4. PICK f \in [0..n -> Seq(S)] : f[0] = <<>> /\ \A k \in 1..n : f[k] = F[<<k, f[k - 1]>>]
  <2>1. IsStep(F, n, Seq(S))
    BY <1>3 DEF IsStep
  <2> HIDE DEF F, n
  <2>2. \E f : Takes(f, F, n, Seq(S), <<>>)
    BY <1>1, <2>1, StepsExist
  <2> QED
    BY <2>2 DEF Takes
<1>5. ASSUME NEW k \in 1..n
      PROVE  f[k] = Step(f[k - 1], k)
  <2>1. k - 1 \in 0..n /\ <<k, f[k - 1]>> \in (1..n) \X Seq(S)
    <3>1. k - 1 \in 0..n
      BY <1>1
    <3> QED
      BY <3>1
  <2>2. F[<<k, f[k - 1]>>] = Step(f[k - 1], k)
    <3> HIDE DEF Step
    <3> QED
      BY <2>1
  <2> HIDE DEF F, Step
  <2> QED
    BY <1>4, <2>2
<1> HIDE DEF F
<1>6. Is(f)
  <2> DEFINE g == [k \in 0..n |-> IF k = 0 THEN <<>> ELSE Step(f[k - 1], k)]
  <2> HIDE DEF Step
  <2>1. ASSUME NEW k \in 0..n
        PROVE  f[k] = g[k]
    <3>1. CASE k = 0
      BY <1>4, <3>1
    <3>2. CASE k # 0
      <4>1. k \in 1..n /\ g[k] = Step(f[k - 1], k)
        BY <1>1, <3>2
      <4> QED
        BY <1>5, <4>1
    <3> QED
      BY <3>1, <3>2
  <2>2. f = g
    BY <1>4, <2>1
  <2> QED
    BY <2>2
<1> DEFINE g == CHOOSE h : Is(h)
<1>7. Is(g)
  <2> HIDE DEF Is
  <2> QED
    BY <1>6
<1>8. Accepted(spans) = g[n]
  BY DEF Accepted
<1> HIDE DEF g
<1>9. DOMAIN g = 0..n /\ g[0] = <<>> /\ \A k \in 1..n : g[k] = Step(g[k - 1], k)
  <2> HIDE DEF Step
  <2> QED
    BY <1>1, <1>7, SMTT(30)
<1>10. g \in [0..n -> Seq(S)]
  <2> DEFINE T == {k \in 0..n : g[k] \in Seq(S)}
  <2>1. 0 \in T /\ \A k \in 1..n : k - 1 \in T => k \in T
    <3>1. 0 \in T
      <4>1. 0 \in 0..n /\ g[0] \in Seq(S)
        BY <1>1, <1>9
      <4> QED
        BY <4>1
    <3>2. ASSUME NEW k \in 1..n, k - 1 \in T
          PROVE  k \in T
      <4>1. k \in 0..n /\ g[k - 1] \in Seq(S)
        BY <1>1, <3>2
      <4> HIDE DEF Step
      <4> QED
        BY <1>2, <1>9, <4>1
    <3> QED
      BY <3>1, <3>2
  <2>2. T = 0..n
    <3>1. T \in SUBSET (0..n)
      OBVIOUS
    <3> HIDE DEF T
    <3> QED
      BY <1>1, <2>1, <3>1, StepByStep
  <2> QED
    BY <1>7, <2>2
<1> QED
  BY <1>8, <1>9, <1>10

(* Texts in a row. *)
LEMMA FlattenIs ==
    ASSUME NEW C, NEW m \in Nat \ {0}, NEW seqs \in [1..m -> Seq(C)]
    PROVE  \E flat \in [0..m -> Seq(C)] :
              /\ flat[0] = <<>>
              /\ \A k \in 1..m : flat[k] = flat[k - 1] \o seqs[k]
              /\ FlattenSeq(seqs) = flat[m]
<1> DEFINE F == [p \in (1..m) \X Seq(C) |-> p[2] \o seqs[p[1]]]
           Is(g) == g = [i \in 1..m |-> IF i = 1 THEN seqs[i] ELSE g[i - 1] \o seqs[i]]
<1>1. <<>> \in Seq(C) /\ \A x, y \in Seq(C) : x \o y \in Seq(C)
  BY EmptySeq, ConcatProperties
<1>2. Len(seqs) = m
  <2>1. seqs \in Seq(Seq(C))
    BY SeqDef
  <2> QED
    BY <2>1, LenProperties
<1>3. PICK f \in [0..m -> Seq(C)] : f[0] = <<>> /\ \A k \in 1..m : f[k] = f[k - 1] \o seqs[k]
  <2>1. IsStep(F, m, Seq(C))
    <3>1. \A p \in (1..m) \X Seq(C) : p[2] \o seqs[p[1]] \in Seq(C)
      BY <1>1
    <3> QED
      BY <3>1 DEF IsStep
  <2>2. \E f : Takes(f, F, m, Seq(C), <<>>)
    <3> HIDE DEF F
    <3> QED
      BY <1>1, <2>1, StepsExist
  <2>3. PICK f : Takes(f, F, m, Seq(C), <<>>)
    BY <2>2
  <2>4. ASSUME NEW k \in 1..m
        PROVE  f[k] = f[k - 1] \o seqs[k]
    <3>1. k - 1 \in 0..m
      OBVIOUS
    <3>2. <<k, f[k - 1]>> \in (1..m) \X Seq(C)
      BY <2>3, <3>1 DEF Takes
    <3>3. F[<<k, f[k - 1]>>] = f[k - 1] \o seqs[k]
      BY <3>2
    <3> HIDE DEF F
    <3> QED
      BY <2>3, <3>3 DEF Takes
  <2> QED
    BY <2>3, <2>4 DEF Takes
<1> HIDE DEF F
<1>4. f[1] = seqs[1] /\ 1 \in 1..m /\ m \in Nat
  <2>1. 1 \in 1..m /\ m \in Nat /\ 1 - 1 = 0
    OBVIOUS
  <2>2. f[1] = f[0] \o seqs[1]
    BY <1>3, <2>1
  <2>3. seqs[1] \in Seq(C)
    BY <2>1
  <2> QED
    BY <1>3, <2>1, <2>2, <2>3, ConcatEmptySeq
<1>5. Is([i \in 1..m |-> f[i]])
  <2> DEFINE h == [i \in 1..m |-> f[i]]
  <2>1. ASSUME NEW i \in 1..m
        PROVE  f[i] = IF i = 1 THEN seqs[i] ELSE h[i - 1] \o seqs[i]
    <3>1. CASE i = 1
      BY <1>4, <3>1
    <3>2. CASE i # 1
      <4>1. i - 1 \in 1..m /\ h[i - 1] = f[i - 1]
        BY <3>2
      <4> HIDE DEF h
      <4> QED
        BY <1>3, <3>2, <4>1
    <3> QED
      BY <3>1, <3>2
  <2> DEFINE r == [i \in 1..m |-> IF i = 1 THEN seqs[i] ELSE h[i - 1] \o seqs[i]]
  <2>2. \A i \in 1..m : h[i] = r[i]
    BY <2>1
  <2>3. h = r
    BY <2>2
  <2> QED
    BY <2>3
<1> DEFINE g == CHOOSE h : Is(h)
<1>6. Is(g)
  <2> HIDE DEF Is
  <2> QED
    BY <1>5
<1>7. FlattenSeq(seqs) = g[m]
  BY <1>2 DEF FlattenSeq
<1> HIDE DEF g
<1>8. g[1] = seqs[1] /\ \A i \in 1..m : i # 1 => g[i] = g[i - 1] \o seqs[i]
  <2>1. \A i \in 1..m : g[i] = IF i = 1 THEN seqs[i] ELSE g[i - 1] \o seqs[i]
    BY <1>6
  <2> QED
    BY <1>4, <2>1
<1> DEFINE T == {k \in 0..m : k = 0 \/ g[k] = f[k]}
<1>9. ASSUME NEW k \in 1..m, k - 1 \in T
      PROVE  k \in T
  <2>1. CASE k = 1
    BY <1>8, <1>4, <2>1
  <2>2. CASE k # 1
    <3>1. g[k - 1] = f[k - 1]
      BY <1>9, <2>2
    <3>2. g[k] = g[k - 1] \o seqs[k] /\ f[k] = f[k - 1] \o seqs[k]
      BY <1>3, <1>8, <2>2
    <3>3. k \in 0..m
      OBVIOUS
    <3>4. g[k] = f[k]
      BY <3>1, <3>2, Zenon
    <3> QED
      BY <3>3, <3>4
  <2> QED
    BY <2>1, <2>2
<1>10. T = 0..m
  <2>1. T \in SUBSET (0..m) /\ 0 \in T
    BY <1>4
  <2>2. \A k \in 1..m : k - 1 \in T => k \in T
    BY <1>9
  <2> HIDE DEF T
  <2> QED
    BY ONLY <1>4, <2>1, <2>2, StepByStep
<1>11. g[m] = f[m]
  <2>1. m \in 0..m /\ m # 0
    BY <1>4
  <2> QED
    BY <1>10, <2>1
<1> QED
  BY <1>3, <1>7, <1>11

LEMMA PrefixesAre ==
    ASSUME NEW C, NEW c \in Seq(C)
    PROVE  /\ SubSeq(c, 1, 0) = <<>>
           /\ \A i \in 0..Len(c) : SubSeq(c, 1, i) \in Seq(C) /\ Len(SubSeq(c, 1, i)) = i
           /\ \A i \in 1..Len(c) : SubSeq(c, 1, i) = SubSeq(c, 1, i - 1) \o <<c[i]>>
<1>1. SubSeq(c, 1, 0) = <<>>
  BY SubSeqEmpty
<1>2. ASSUME NEW i \in 0..Len(c)
      PROVE  SubSeq(c, 1, i) \in Seq(C) /\ Len(SubSeq(c, 1, i)) = i
  <2>1. \A k \in 1..i : c[k] \in C
    BY ElementOfSeq
  <2>2. i \in Int /\ 1 \in Int /\ (1 <= i => i - 1 + 1 = i) /\ (~(1 <= i) => i = 0)
    OBVIOUS
  <2> QED
    BY <2>1, <2>2, SubSeqProperties
<1>3. ASSUME NEW i \in 1..Len(c)
      PROVE  SubSeq(c, 1, i) = SubSeq(c, 1, i - 1) \o <<c[i]>>
  <2>1. 1 \in 1..Len(c) /\ i \in 1..Len(c)
    OBVIOUS
  <2> QED
    BY <2>1, SubSeqRecursiveSecond
<1> QED
  BY <1>1, <1>2, <1>3

-----------------------------------------------------------------------------
(* What spans make of a text, position by position.                        *)

Fits(s, C, canonical) ==
    s.start \in 0..Len(canonical) /\ s.end \in s.start..Len(canonical) /\ s.text \in Seq(C)

(* Spans no two of which start at the same place. *)
Apart(spans) == \A s, t \in spans : s.start = t.start => s = t

(* The character after a position, and nothing after the last one. *)
Char(canonical, p) == IF p = Len(canonical) THEN <<>> ELSE <<canonical[p + 1]>>

Covered(spans, p) == \E s \in spans : s.start <= p /\ p < s.end
Begun(spans, p) == \E s \in spans : s.start = p
Rest(canonical, spans, p) == IF Covered(spans, p) THEN <<>> ELSE Char(canonical, p)

LEMMA PieceIs ==
    ASSUME NEW C, NEW canonical \in Seq(C), NEW spans, NEW p \in 0..Len(canonical),
           \A s \in spans : Fits(s, C, canonical), Apart(spans)
    PROVE  /\ Piece(canonical, spans, p) \in Seq(C)
           /\ Char(canonical, p) \in Seq(C)
           /\ ~Begun(spans, p) => Piece(canonical, spans, p) = Rest(canonical, spans, p)
           /\ \A s \in spans :
                 s.start = p => Piece(canonical, spans, p) = s.text \o Rest(canonical, spans, p)
<1> DEFINE at == {s \in spans : s.start = p}
           here == IF at = {} THEN <<>> ELSE (CHOOSE s \in at : TRUE).text
           rest == Rest(canonical, spans, p)
<1>1. Char(canonical, p) \in Seq(C)
  <2>1. CASE p = Len(canonical)
    BY <2>1, EmptySeq DEF Char
  <2>2. CASE p # Len(canonical)
    <3>1. p + 1 \in 1..Len(canonical)
      BY <2>2
    <3>2. canonical[p + 1] \in C
      BY <3>1, ElementOfSeq
    <3> QED
      BY <2>2, <3>2 DEF Char
  <2> QED
    BY <2>1, <2>2
<1>2. Piece(canonical, spans, p) = here \o rest
  <2>1. rest = IF p = Len(canonical) \/ Covered(spans, p) THEN <<>> ELSE <<canonical[p + 1]>>
    BY DEF Char, Rest
  <2>2. Piece(canonical, spans, p) =
          here \o (IF p = Len(canonical) \/ Covered(spans, p) THEN <<>> ELSE <<canonical[p + 1]>>)
    BY DEF Piece, Covered
  <2> QED
    BY <2>1, <2>2
<1>3. rest \in Seq(C) /\ <<>> \in Seq(C)
  BY <1>1, EmptySeq DEF Rest
<1>4. at # {} => (CHOOSE s \in at : TRUE) \in at
  OBVIOUS
<1>5. \A s \in spans : s.start = p => here = s.text
  BY <1>4 DEF Apart
<1>6. ~Begun(spans, p) => here = <<>>
  BY DEF Begun
<1>7. here \in Seq(C)
  <2>1. CASE at = {}
    BY <1>3, <2>1
  <2>2. CASE at # {}
    BY <1>4, <2>2 DEF Fits
  <2> QED
    BY <2>1, <2>2
<1> HIDE DEF here, at, rest
<1>8. here \o rest \in Seq(C)
  BY <1>3, <1>7, ConcatProperties
<1>9. <<>> \o rest = rest
  BY <1>3, ConcatEmptySeq
<1>10. ~Begun(spans, p) => Piece(canonical, spans, p) = rest
  BY <1>2, <1>6, <1>9
<1>11. \A s \in spans : s.start = p => Piece(canonical, spans, p) = s.text \o rest
  BY <1>2, <1>5
<1> QED
  BY <1>1, <1>2, <1>8, <1>10, <1>11 DEF rest

(* The pieces, one after the other. *)
Grows(flat, C, canonical, spans) ==
    /\ flat \in [0..(Len(canonical) + 1) -> Seq(C)]
    /\ flat[0] = <<>>
    /\ \A p \in 0..Len(canonical) : flat[p + 1] = flat[p] \o Piece(canonical, spans, p)
    /\ Pieces(canonical, spans) = flat[Len(canonical) + 1]

LEMMA PiecesAre ==
    ASSUME NEW C, NEW canonical \in Seq(C), NEW spans,
           \A s \in spans : Fits(s, C, canonical), Apart(spans)
    PROVE  \E flat : Grows(flat, C, canonical, spans)
<1> DEFINE L == Len(canonical)
           seqs == [k \in 1..(L + 1) |-> Piece(canonical, spans, k - 1)]
<1>1. L \in Nat /\ L + 1 \in Nat \ {0}
  BY LenProperties
<1>2. seqs \in [1..(L + 1) -> Seq(C)]
  <2>1. \A k \in 1..(L + 1) : k - 1 \in 0..L
    BY <1>1
  <2>2. \A k \in 1..(L + 1) : Piece(canonical, spans, k - 1) \in Seq(C)
    BY <2>1, PieceIs
  <2> QED
    BY <2>2
<1>3. PICK flat \in [0..(L + 1) -> Seq(C)] :
         /\ flat[0] = <<>>
         /\ \A k \in 1..(L + 1) : flat[k] = flat[k - 1] \o seqs[k]
         /\ FlattenSeq(seqs) = flat[L + 1]
  <2> HIDE DEF seqs, L
  <2> QED
    BY <1>1, <1>2, FlattenIs
<1>4. ASSUME NEW p \in 0..L
      PROVE  flat[p + 1] = flat[p] \o Piece(canonical, spans, p)
  <2>1. p + 1 \in 1..(L + 1) /\ p + 1 - 1 = p
    BY <1>1
  <2>2. seqs[p + 1] = Piece(canonical, spans, p)
    BY <2>1
  <2> HIDE DEF seqs
  <2>3. PICK k : k = p + 1
    OBVIOUS
  <2>4. k \in 1..(L + 1) /\ k - 1 = p
    BY <2>1, <2>3
  <2> HIDE DEF L
  <2>5. flat[k] = flat[k - 1] \o seqs[k]
    BY ONLY <1>3, <2>4, Zenon
  <2>6. flat[p + 1] = flat[p] \o seqs[p + 1]
    BY ONLY <2>3, <2>4, <2>5, Zenon
  <2> QED
    BY ONLY <2>2, <2>6, Zenon
<1>5. Pieces(canonical, spans) = flat[L + 1]
  BY <1>3 DEF Pieces
<1> QED
  BY <1>3, <1>4, <1>5 DEF Grows

(* Where no span reaches, the pieces are the text. *)
LEMMA PlainPieces ==
    ASSUME NEW C, NEW canonical \in Seq(C), NEW e \in 0..Len(canonical), NEW flat,
           flat[0] = <<>>,
           \A p \in 0..Len(canonical) : p < e => flat[p + 1] = flat[p] \o Char(canonical, p)
    PROVE  \A i \in 0..e : flat[i] = SubSeq(canonical, 1, i)
<1> DEFINE T == {i \in 0..e : flat[i] = SubSeq(canonical, 1, i)}
<1>1. 0 \in T /\ e \in Nat /\ Len(canonical) \in Nat
  <2>1. e \in Nat /\ Len(canonical) \in Nat /\ 0 \in 0..e
    BY LenProperties
  <2>2. flat[0] = SubSeq(canonical, 1, 0)
    <3>1. SubSeq(canonical, 1, 0) = <<>>
      BY PrefixesAre
    <3> QED
      BY <3>1, Zenon
  <2> QED
    BY <2>1, <2>2
<1>2. ASSUME NEW i \in 1..e, i - 1 \in T
      PROVE  i \in T
  <2>1. i - 1 \in 0..Len(canonical) /\ i - 1 < e /\ i - 1 + 1 = i /\ i \in 1..Len(canonical)
    BY <1>1
  <2>2. Char(canonical, i - 1) = <<canonical[i]>>
    BY <2>1 DEF Char
  <2>3. flat[i] = SubSeq(canonical, 1, i - 1) \o <<canonical[i]>>
    <3>1. flat[i - 1 + 1] = flat[i - 1] \o Char(canonical, i - 1)
      BY <2>1
    <3>2. flat[i - 1] = SubSeq(canonical, 1, i - 1)
      BY <1>2
    <3>3. i - 1 + 1 = i
      BY <2>1
    <3>4. flat[i] = flat[i - 1 + 1]
      BY <3>3
    <3>5. flat[i] = flat[i - 1] \o Char(canonical, i - 1)
      BY <3>1, <3>4, Zenon
    <3> QED
      BY <2>2, <3>2, <3>5
  <2>4. SubSeq(canonical, 1, i) = SubSeq(canonical, 1, i - 1) \o <<canonical[i]>>
    BY <2>1, PrefixesAre
  <2>5. i \in 0..e
    BY <1>1
  <2> QED
    BY <2>3, <2>4, <2>5
<1>3. T = 0..e
  <2>1. T \in SUBSET (0..e)
    OBVIOUS
  <2> HIDE DEF T
  <2> QED
    BY <1>1, <1>2, <2>1, StepByStep
<1> QED
  BY <1>3

LEMMA NoPieces ==
    ASSUME NEW C, NEW canonical \in Seq(C)
    PROVE  Pieces(canonical, {}) = canonical
<1> DEFINE L == Len(canonical)
<1>1. L \in Nat
  BY LenProperties
<1>2. PICK flat \in [0..(L + 1) -> Seq(C)] :
         /\ flat[0] = <<>>
         /\ \A p \in 0..L : flat[p + 1] = flat[p] \o Piece(canonical, {}, p)
         /\ Pieces(canonical, {}) = flat[L + 1]
  <2>1. Apart({}) /\ \A s \in {} : Fits(s, C, canonical)
    BY DEF Apart
  <2>2. PICK flat : Grows(flat, C, canonical, {})
    BY <2>1, PiecesAre
  <2> QED
    BY <2>2 DEF Grows
<1>3. \A p \in 0..L : Piece(canonical, {}, p) = Char(canonical, p)
  BY PieceIs DEF Apart, Begun, Covered, Rest
<1>4. flat[L] = SubSeq(canonical, 1, L)
  <2>1. \A p \in 0..L : p < L => flat[p + 1] = flat[p] \o Char(canonical, p)
    BY <1>2, <1>3
  <2>2. L \in 0..L
    BY <1>1
  <2> QED
    BY <1>2, <2>1, <2>2, PlainPieces
<1>5. flat[L + 1] = canonical \o <<>>
  <2>1. L \in 0..L /\ Char(canonical, L) = <<>>
    BY <1>1 DEF Char
  <2>2. SubSeq(canonical, 1, L) = canonical
    BY SubSeqFull
  <2> QED
    BY <1>2, <1>3, <1>4, <2>1, <2>2
<1> QED
  BY <1>2, <1>5, ConcatEmptySeq

(* Splicing a span into a text that still reads as the source up to the    *)
(* end of the span leaves what follows (R) as it is.                       *)
LEMMA SplicedIn ==
    ASSUME NEW C, NEW canonical \in Seq(C), NEW s, Fits(s, C, canonical),
           NEW R \in Seq(C)
    PROVE  Spliced(SubSeq(canonical, 1, s.end) \o R, s)
              = (SubSeq(canonical, 1, s.start) \o s.text) \o R
<1> DEFINE e == s.end
           X == SubSeq(canonical, 1, e)
           Y == X \o R
           a == s.start
<1>1. /\ Len(canonical) \in Nat /\ Len(R) \in Nat
      /\ a \in 0..Len(canonical) /\ e \in a..Len(canonical) /\ e \in 0..Len(canonical)
  BY LenProperties DEF Fits
<1>2. X \in Seq(C) /\ Len(X) = e /\ SubSeq(canonical, 1, a) \in Seq(C) /\ Len(SubSeq(canonical, 1, a)) = a
  BY <1>1, PrefixesAre
<1> HIDE DEF X
<1>3. /\ Y \in Seq(C) /\ Len(Y) = e + Len(R)
      /\ \A i \in 1..(e + Len(R)) : Y[i] = IF i <= e THEN X[i] ELSE R[i - e]
  <2>1. /\ Y \in Seq(C) /\ Len(Y) = Len(X) + Len(R)
        /\ \A i \in 1..(Len(X) + Len(R)) : Y[i] = IF i <= Len(X) THEN X[i] ELSE R[i - Len(X)]
    BY <1>2, ConcatProperties
  <2> HIDE DEF Y
  <2> QED
    BY <1>2, <2>1
<1> HIDE DEF Y
<1>4. SubSeq(Y, 1, a) = SubSeq(canonical, 1, a)
  <2>1. SubSeq(Y, 1, a) \in Seq(C) /\ Len(SubSeq(Y, 1, a)) = a
    <3>1. a \in 0..Len(Y)
      BY <1>1, <1>3
    <3> QED
      BY <1>3, <3>1, PrefixesAre
  <2>2. ASSUME NEW i \in 1..a
        PROVE  SubSeq(Y, 1, a)[i] = SubSeq(canonical, 1, a)[i]
    <3>1. i \in 1..e /\ i \in 1..(e + Len(R)) /\ i <= e /\ i \in 1..(a - 1 + 1) /\ 1 + i - 1 = i
          /\ i \in 1..(e - 1 + 1)
      BY <1>1
    <3>2. \A k \in 1..a : Y[k] \in C /\ canonical[k] \in C
      <4>1. \A k \in 1..a : k \in 1..Len(Y) /\ k \in 1..Len(canonical)
        BY <1>1, <1>3
      <4> QED
        BY <1>3, <4>1, ElementOfSeq
    <3>3. SubSeq(Y, 1, a)[i] = Y[i] /\ SubSeq(canonical, 1, a)[i] = canonical[i]
      BY <1>1, <3>1, <3>2, SubSeqProperties
    <3>4. \A k \in 1..e : canonical[k] \in C
      <4>1. \A k \in 1..e : k \in 1..Len(canonical)
        BY <1>1
      <4> QED
        BY <4>1, ElementOfSeq
    <3>5. X[i] = canonical[i]
      BY <1>1, <3>1, <3>4, SubSeqProperties DEF X
    <3> QED
      BY <1>3, <3>1, <3>3, <3>5
  <2> QED
    BY <1>2, <2>1, <2>2, SeqEqual
<1>5. SubSeq(Y, e + 1, Len(Y)) = R
  <2>1. /\ e + 1 \in Int /\ Len(Y) \in Int
        /\ Len(Y) - (e + 1) + 1 = Len(R) /\ (e + 1 <= Len(Y) <=> Len(R) # 0)
    BY <1>1, <1>3
  <2>2. \A k \in (e + 1)..Len(Y) : Y[k] \in C
    <3>1. \A k \in (e + 1)..Len(Y) : k \in 1..Len(Y)
      BY <1>1
    <3> QED
      BY <1>3, <3>1, ElementOfSeq
  <2>3. /\ SubSeq(Y, e + 1, Len(Y)) \in Seq(C)
        /\ Len(SubSeq(Y, e + 1, Len(Y))) = IF e + 1 <= Len(Y) THEN Len(Y) - (e + 1) + 1 ELSE 0
        /\ \A i \in 1..(Len(Y) - (e + 1) + 1) : SubSeq(Y, e + 1, Len(Y))[i] = Y[e + 1 + i - 1]
    BY <2>1, <2>2, SubSeqProperties, SMTT(30)
  <2>4. Len(SubSeq(Y, e + 1, Len(Y))) = Len(R)
    BY <1>1, <2>1, <2>3
  <2>5. ASSUME NEW i \in 1..Len(R)
        PROVE  SubSeq(Y, e + 1, Len(Y))[i] = R[i]
    <3>1. e + 1 + i - 1 = e + i /\ e + i \in 1..(e + Len(R)) /\ ~(e + i <= e) /\ e + i - e = i
      BY <1>1
    <3>2. Y[e + i] = R[i]
      <4>1. PICK k \in Int : k = e + i
        BY <1>1
      <4>2. k \in 1..(e + Len(R)) /\ ~(k <= e) /\ k - e = i
        BY <1>1, <4>1
      <4> HIDE DEF e
      <4>3. Y[k] = R[k - e]
        BY <1>3, <4>2
      <4> QED
        BY <4>1, <4>2, <4>3
    <3>3. SubSeq(Y, e + 1, Len(Y))[i] = Y[e + 1 + i - 1]
      BY <2>1, <2>3
    <3> QED
      BY <3>1, <3>2, <3>3
  <2> QED
    BY <2>3, <2>4, <2>5, SeqEqual
<1> QED
  BY <1>4, <1>5 DEF Spliced, X, Y

LEMMA Regroup ==
    ASSUME NEW C, NEW x \in Seq(C), NEW y \in Seq(C), NEW z \in Seq(C)
    PROVE  (x \o y) \o z = x \o (y \o z)
BY ConcatAssociative

(* A span spliced in to the left of others adds its piece to theirs: up to *)
(* its end the text is still the source, and past it both have the same R. *)
LEMMA PiecesSpliced ==
    ASSUME NEW C, NEW canonical \in Seq(C), NEW s, Fits(s, C, canonical),
           NEW later, Apart(later),
           \A t \in later : Fits(t, C, canonical) /\ s.start < t.start /\ s.end <= t.start
    PROVE  Pieces(canonical, later \cup {s}) = Spliced(Pieces(canonical, later), s)
<1>1. PICK all : all = later \cup {s}
  OBVIOUS
<1> DEFINE L == Len(canonical)
           a == s.start
           e == s.end
           P(p) == Piece(canonical, later, p)
           Q(p) == Piece(canonical, all, p)
           X == SubSeq(canonical, 1, e)
           W == SubSeq(canonical, 1, a) \o s.text
<1>2. /\ L \in Nat /\ a \in 0..L /\ e \in a..L /\ e \in 0..L /\ s.text \in Seq(C)
      /\ \A t \in later : t.start \in 0..L /\ t.end \in t.start..L
  BY LenProperties DEF Fits
<1>3. \A t \in all : Fits(t, C, canonical)
  BY <1>1
<1>4. Apart(all)
  BY <1>1, <1>2 DEF Apart
<1>5. ASSUME NEW p \in 0..L, p < e \/ p <= a
      PROVE  P(p) = Char(canonical, p)
  <2>1. ~Begun(later, p) /\ ~Covered(later, p)
    BY <1>2, <1>5 DEF Begun, Covered
  <2>2. P(p) = Rest(canonical, later, p)
    BY <2>1, PieceIs
  <2> QED
    BY <2>1, <2>2 DEF Rest
<1>6. ASSUME NEW p \in 0..L, p < a
      PROVE  Q(p) = Char(canonical, p)
  <2>1. ~Begun(all, p) /\ ~Covered(all, p)
    BY <1>1, <1>2, <1>6 DEF Begun, Covered
  <2>2. Q(p) = Rest(canonical, all, p)
    BY <1>3, <1>4, <2>1, PieceIs
  <2> QED
    BY <2>1, <2>2 DEF Rest
<1>7. Q(a) = s.text \o (IF a < e THEN <<>> ELSE Char(canonical, a))
  <2>1. Covered(all, a) <=> a < e
    BY <1>1, <1>2 DEF Covered
  <2>2. s \in all /\ a \in 0..L
    BY <1>1, <1>2
  <2>3. Q(a) = s.text \o Rest(canonical, all, a)
    BY <1>3, <1>4, <2>2, PieceIs
  <2>4. Rest(canonical, all, a) = IF a < e THEN <<>> ELSE Char(canonical, a)
    BY <2>1 DEF Rest
  <2> QED
    BY <2>3, <2>4
<1>8. ASSUME NEW p \in 0..L, a < p, p < e
      PROVE  Q(p) = <<>>
  <2>1. ~Begun(all, p)
    BY <1>1, <1>2, <1>8 DEF Begun
  <2>2. Covered(all, p)
    BY <1>1, <1>2, <1>8 DEF Covered
  <2>3. Q(p) = Rest(canonical, all, p)
    BY <1>3, <1>4, <2>1, PieceIs
  <2> QED
    BY <2>2, <2>3 DEF Rest
<1>9. ASSUME NEW p \in 0..L, a < p, e <= p
      PROVE  Q(p) = P(p)
  <2>1. a # p /\ ~(a <= p /\ p < e)
    BY <1>2, <1>9
  <2>2. Rest(canonical, all, p) = Rest(canonical, later, p)
    <3>1. Covered(all, p) <=> Covered(later, p)
      BY <1>1, <2>1 DEF Covered
    <3> QED
      BY <3>1 DEF Rest
  <2>3. CASE Begun(later, p)
    <3>1. PICK t \in later : t.start = p
      BY <2>3 DEF Begun
    <3>2. P(p) = t.text \o Rest(canonical, later, p)
      BY <3>1, PieceIs
    <3>3. t \in all
      BY <1>1
    <3>4. Q(p) = t.text \o Rest(canonical, all, p)
      BY <1>3, <1>4, <3>1, <3>3, PieceIs
    <3> QED
      BY <2>2, <3>2, <3>4
  <2>4. CASE ~Begun(later, p)
    <3>1. ~Begun(all, p)
      BY <1>1, <2>1, <2>4 DEF Begun
    <3>2. P(p) = Rest(canonical, later, p)
      BY <2>4, PieceIs
    <3>3. Q(p) = Rest(canonical, all, p)
      BY <1>3, <1>4, <3>1, PieceIs
    <3> QED
      BY <2>2, <3>2, <3>3
  <2> QED
    BY <2>3, <2>4
<1>10. \A p \in 0..L : P(p) \in Seq(C) /\ Char(canonical, p) \in Seq(C)
  BY PieceIs
<1> HIDE DEF P, Q
<1>11. PICK fp \in [0..(L + 1) -> Seq(C)] :
         /\ fp[0] = <<>>
         /\ \A p \in 0..L : fp[p + 1] = fp[p] \o P(p)
         /\ Pieces(canonical, later) = fp[L + 1]
  <2>1. PICK flat : Grows(flat, C, canonical, later)
    BY PiecesAre
  <2> QED
    BY <2>1 DEF Grows, P
<1>12. PICK fq \in [0..(L + 1) -> Seq(C)] :
         /\ fq[0] = <<>>
         /\ \A p \in 0..L : fq[p + 1] = fq[p] \o Q(p)
         /\ Pieces(canonical, all) = fq[L + 1]
  <2>1. PICK flat : Grows(flat, C, canonical, all)
    BY <1>3, <1>4, PiecesAre
  <2> QED
    BY <2>1 DEF Grows, Q
<1>13. \A i \in 0..e : fp[i] = SubSeq(canonical, 1, i)
  <2>1. \A p \in 0..L : p < e => fp[p + 1] = fp[p] \o Char(canonical, p)
    BY <1>5, <1>11
  <2> QED
    BY <1>2, <1>11, <2>1, PlainPieces
<1>14. fq[a] = SubSeq(canonical, 1, a)
  <2>1. \A p \in 0..L : p < a => fq[p + 1] = fq[p] \o Char(canonical, p)
    BY <1>6, <1>12
  <2>2. a \in 0..a
    BY <1>2
  <2>3. \A i \in 0..a : fq[i] = SubSeq(canonical, 1, i)
    BY <1>2, <1>12, <2>1, PlainPieces
  <2> QED
    BY <2>2, <2>3
<1>15. X \in Seq(C) /\ SubSeq(canonical, 1, a) \in Seq(C) /\ W \in Seq(C) /\ <<>> \in Seq(C)
  <2>1. X \in Seq(C) /\ SubSeq(canonical, 1, a) \in Seq(C)
    BY <1>2, PrefixesAre
  <2> QED
    BY <1>2, <2>1, ConcatProperties, EmptySeq
<1> HIDE DEF W, X
<1>16. \A x, y, z \in Seq(C) : (x \o y) \o z = x \o (y \o z)
  BY Regroup, SMTT(30)
<1>17. ASSUME NEW R \in Seq(C)
       PROVE  SubSeq(canonical, 1, a) \o (s.text \o R) = W \o R
  <2>1. SubSeq(canonical, 1, a) \in Seq(C) /\ s.text \in Seq(C)
    BY <1>2, <1>15
  <2>2. (SubSeq(canonical, 1, a) \o s.text) \o R = SubSeq(canonical, 1, a) \o (s.text \o R)
    BY <2>1, <1>16, Zenon
  <2> QED
    BY <2>2 DEF W
<1>18. ASSUME NEW i \in 0..e, a < i
       PROVE  fq[i] = W
  <2> DEFINE T == {k \in 0..e : a < k => fq[k] = W}
  <2>1. ASSUME NEW k \in 1..e, k - 1 \in T
        PROVE  k \in T
    <3>1. k \in 0..e /\ k - 1 \in 0..L /\ k - 1 + 1 = k /\ k - 1 < e
      BY <1>2
    <3>2. fq[k] = fq[k - 1] \o Q(k - 1)
      BY <1>12, <3>1
    <3>3. CASE k - 1 = a
      <4>1. Q(k - 1) = s.text \o <<>>
        BY <1>7, <3>1, <3>3
      <4>2. W \o <<>> = W
        BY <1>15, ConcatEmptySeq
      <4>3. fq[k] = W
        BY <1>14, <1>15, <1>17, <3>2, <3>3, <4>1, <4>2
      <4> QED
        BY <3>1, <4>3
    <3>4. CASE a < k - 1
      <4>1. fq[k - 1] = W /\ Q(k - 1) = <<>>
        BY <1>8, <2>1, <3>1, <3>4
      <4>2. W \o <<>> = W
        BY <1>15, ConcatEmptySeq
      <4> QED
        BY <3>1, <3>2, <4>1, <4>2
    <3>5. CASE ~(a < k)
      BY <3>1, <3>5
    <3> QED
      BY <1>2, <3>1, <3>3, <3>4, <3>5
  <2>2. e \in Nat /\ T \in SUBSET (0..e) /\ 0 \in T
    BY <1>2
  <2>3. T = 0..e
    <3> HIDE DEF T
    <3> QED
      BY <2>1, <2>2, StepByStep
  <2> QED
    BY <1>18, <2>3
<1> DEFINE m == IF a < e THEN e ELSE a + 1
           Alike(i) == \E R \in Seq(C) : fp[i] = X \o R /\ fq[i] = W \o R
<1>19. Alike(m)
  <2>1. CASE a < e
    <3>1. fp[e] = X /\ fq[e] = W
      <4>1. e \in 0..e
        BY <1>2
      <4>2. fp[e] = SubSeq(canonical, 1, e)
        BY <1>13, <4>1
      <4>3. fq[e] = W
        BY <1>18, <2>1, <4>1
      <4> QED
        BY <4>2, <4>3 DEF X
    <3>2. X \o <<>> = X /\ W \o <<>> = W
      BY <1>15, ConcatEmptySeq
    <3> QED
      BY <1>15, <2>1, <3>1, <3>2
  <2>2. CASE ~(a < e)
    <3>1. a = e /\ a \in 0..L /\ a \in 0..e
      BY <1>2, <2>2
    <3>2. fp[a + 1] = X \o Char(canonical, a)
      <4>1. fp[a] = X
        BY <1>13, <3>1 DEF X
      <4>2. P(a) = Char(canonical, a)
        BY <1>2, <1>5
      <4> QED
        BY <1>11, <3>1, <4>1, <4>2
    <3>3. Char(canonical, a) \in Seq(C)
      BY <1>2, <1>10
    <3>4. fq[a + 1] = W \o Char(canonical, a)
      <4>1. Q(a) = s.text \o Char(canonical, a)
        BY <1>7, <2>2
      <4>2. fq[a + 1] = SubSeq(canonical, 1, a) \o (s.text \o Char(canonical, a))
        BY <1>12, <1>14, <3>1, <4>1
      <4> QED
        BY <1>17, <3>3, <4>2
    <3> QED
      BY <2>2, <3>2, <3>3, <3>4
  <2> QED
    BY <2>1, <2>2
<1>20. Alike(L + 1)
  <2> DEFINE T == {i \in 0..(L + 1) : m <= i => Alike(i)}
  <2>1. m \in 1..(L + 1) /\ e <= m /\ a < m /\ L + 1 \in Nat
    BY <1>2
  <2> HIDE DEF m, Alike
  <2>2. ASSUME NEW i \in 1..(L + 1), i - 1 \in T
        PROVE  i \in T
    <3>1. i \in 0..(L + 1) /\ i - 1 \in 0..L /\ i - 1 + 1 = i
      BY <1>2
    <3>2. CASE i < m
      BY <2>1, <3>1, <3>2
    <3>3. CASE i = m
      BY <1>19, <3>1, <3>3
    <3>4. CASE m < i
      <4>1. m <= i - 1 /\ a < i - 1 /\ e <= i - 1
        BY <1>2, <2>1, <3>4
      <4>2. PICK R \in Seq(C) : fp[i - 1] = X \o R /\ fq[i - 1] = W \o R
        BY <2>2, <4>1 DEF Alike
      <4>3. Q(i - 1) = P(i - 1) /\ P(i - 1) \in Seq(C)
        BY <1>9, <1>10, <3>1, <4>1
      <4>4. fp[i] = fp[i - 1] \o P(i - 1) /\ fq[i] = fq[i - 1] \o P(i - 1)
        BY <1>11, <1>12, <3>1, <4>3
      <4>5. X \in Seq(C) /\ W \in Seq(C) /\ R \in Seq(C) /\ P(i - 1) \in Seq(C)
        BY <1>15, <4>3
      <4>6. PICK z : z = P(i - 1)
        OBVIOUS
      <4>7. (X \o R) \o P(i - 1) = X \o (R \o P(i - 1)) /\ (W \o R) \o P(i - 1) = W \o (R \o P(i - 1))
        <5>1. X \in Seq(C) /\ W \in Seq(C) /\ R \in Seq(C) /\ z \in Seq(C)
          BY ONLY <4>5, <4>6, Zenon
        <5>2. (X \o R) \o z = X \o (R \o z)
          BY ONLY <5>1, Regroup, SMTT(30)
        <5>3. (W \o R) \o z = W \o (R \o z)
          BY ONLY <5>1, Regroup, SMTT(30)
        <5> QED
          BY ONLY <4>6, <5>2, <5>3, Zenon
      <4>8. R \o P(i - 1) \in Seq(C)
        BY <4>3, ConcatProperties
      <4>9. Alike(i)
        BY <4>2, <4>4, <4>7, <4>8 DEF Alike
      <4> QED
        BY <3>1, <4>9
    <3> QED
      BY <2>1, <3>1, <3>2, <3>3, <3>4
  <2>3. T \in SUBSET (0..(L + 1)) /\ 0 \in T
    BY <1>2, <2>1
  <2>4. T = 0..(L + 1)
    <3> HIDE DEF T
    <3> QED
      BY <2>1, <2>2, <2>3, StepByStep
  <2>5. L + 1 \in 0..(L + 1) /\ m <= L + 1
    BY <2>1
  <2> QED
    BY <2>4, <2>5
<1>21. PICK R \in Seq(C) : fp[L + 1] = X \o R /\ fq[L + 1] = W \o R
  BY <1>20
<1>22. Spliced(X \o R, s) = W \o R
  <2>1. Spliced(SubSeq(canonical, 1, s.end) \o R, s) = (SubSeq(canonical, 1, s.start) \o s.text) \o R
    BY ONLY canonical \in Seq(C), Fits(s, C, canonical), R \in Seq(C), SplicedIn, SMTT(30)
  <2> QED
    BY <2>1, Zenon DEF X, W
<1> QED
  BY <1>1, <1>11, <1>12, <1>21, <1>22

-----------------------------------------------------------------------------
(* Applying spans from the right leaves their pieces.                      *)

(* Spans from left to right, none of which reaches into the next. *)
Neat(accepted, C, canonical) ==
    /\ \A k \in 1..Len(accepted) : Fits(accepted[k], C, canonical)
    /\ \A i, j \in 1..Len(accepted) :
          i < j => accepted[i].start < accepted[j].start /\ accepted[i].end <= accepted[j].start

LEMMA AppliedIs ==
    ASSUME NEW C, NEW canonical \in Seq(C), NEW S, NEW accepted \in Seq(S), Neat(accepted, C, canonical)
    PROVE  ApplySpans(canonical, accepted) = Pieces(canonical, Range(accepted))
<1> DEFINE n == Len(accepted)
           after(k) == {accepted[j] : j \in (n - k + 1)..n}
           Is(g) == g = [k \in 0..n |-> IF k = 0 THEN canonical
                                        ELSE Spliced(g[k - 1], accepted[n - k + 1])]
           f == [k \in 0..n |-> Pieces(canonical, after(k))]
<1>1. n \in Nat /\ DOMAIN accepted = 1..n
  BY LenProperties
<1>2. f[0] = canonical
  <2>1. after(0) = {} /\ 0 \in 0..n
    BY <1>1
  <2>2. f[0] = Pieces(canonical, {})
    BY <2>1
  <2> HIDE DEF f
  <2> QED
    BY <2>2, NoPieces
<1>3. ASSUME NEW k \in 1..n
      PROVE  f[k] = Spliced(f[k - 1], accepted[n - k + 1])
  <2> DEFINE s == accepted[n - k + 1]
             later == after(k - 1)
  <2>1. n - k + 1 \in 1..n /\ k \in 0..n /\ k - 1 \in 0..n /\ n - (k - 1) + 1 = n - k + 2
    BY <1>1
  <2>2. after(k) = later \cup {s}
    <3>1. \A j : j \in (n - k + 1)..n <=> j \in (n - (k - 1) + 1)..n \/ j = n - k + 1
      BY <1>1
    <3> QED
      BY <3>1
  <2>3. Fits(s, C, canonical)
    BY <2>1 DEF Neat
  <2>4. \A t \in later : Fits(t, C, canonical) /\ s.start < t.start /\ s.end <= t.start
    <3>1. \A j \in (n - (k - 1) + 1)..n : j \in 1..n /\ n - k + 1 < j
      BY <1>1
    <3> QED
      BY <2>1, <3>1 DEF Neat
  <2>5. Apart(later)
    <3>1. ASSUME NEW i \in 1..n, NEW j \in 1..n, accepted[i].start = accepted[j].start
          PROVE  i = j
      <4>1. accepted[i].start \in Nat /\ accepted[j].start \in Nat
        <5>1. Fits(accepted[i], C, canonical) /\ Fits(accepted[j], C, canonical)
          BY DEF Neat
        <5> QED
          BY <5>1 DEF Fits
      <4>2. ~(i < j) /\ ~(j < i)
        <5>1. i < j => accepted[i].start < accepted[j].start
          BY DEF Neat
        <5>2. j < i => accepted[j].start < accepted[i].start
          BY DEF Neat
        <5> QED
          BY <3>1, <4>1, <5>1, <5>2
      <4> QED
        BY <1>1, <4>2
    <3>2. \A j \in (n - (k - 1) + 1)..n : j \in 1..n
      BY <1>1
    <3> QED
      BY <3>1, <3>2 DEF Apart
  <2>6. f[k] = Pieces(canonical, after(k)) /\ f[k - 1] = Pieces(canonical, later)
    BY <2>1
  <2> HIDE DEF f, after, later, s
  <2>7. Pieces(canonical, later \cup {s}) = Spliced(Pieces(canonical, later), s)
    BY <2>3, <2>4, <2>5, PiecesSpliced
  <2> QED
    BY <2>2, <2>6, <2>7 DEF s
<1>4. Is(f)
  <2> DEFINE h == [k \in 0..n |-> IF k = 0 THEN canonical ELSE Spliced(f[k - 1], accepted[n - k + 1])]
  <2>1. DOMAIN f = 0..n /\ f = [k \in 0..n |-> f[k]]
    OBVIOUS
  <2> HIDE DEF f, after
  <2>2. \A k \in 0..n : f[k] = h[k]
    BY <1>1, <1>2, <1>3
  <2>3. f = h
    BY <2>1, <2>2
  <2> QED
    BY <2>3
<1>5. f[n] = Pieces(canonical, Range(accepted))
  <2>1. n \in 0..n /\ n - n + 1 = 1
    BY <1>1
  <2>2. after(n) = Range(accepted)
    BY <1>1, <2>1 DEF Range
  <2>3. f[n] = Pieces(canonical, after(n))
    BY <2>1
  <2> HIDE DEF f, after
  <2> QED
    BY <2>2, <2>3
<1> HIDE DEF f, after
<1> DEFINE g == CHOOSE h : Is(h)
<1>6. Is(g)
  <2> HIDE DEF Is
  <2> QED
    BY <1>4
<1>7. ApplySpans(canonical, accepted) = g[n]
  BY DEF ApplySpans
<1> HIDE DEF g
<1>8. g[0] = canonical /\ \A k \in 1..n : g[k] = Spliced(g[k - 1], accepted[n - k + 1])
  BY <1>1, <1>6, SMTT(30)
<1>9. g[n] = f[n]
  <2> DEFINE T == {k \in 0..n : g[k] = f[k]}
  <2>1. 0 \in T /\ T \in SUBSET (0..n)
    BY <1>1, <1>2, <1>8
  <2>2. ASSUME NEW k \in 1..n, k - 1 \in T
        PROVE  k \in T
    <3>1. k \in 0..n /\ g[k - 1] = f[k - 1]
      BY <1>1, <2>2
    <3> QED
      BY <1>3, <1>8, <3>1
  <2>3. T = 0..n
    <3> HIDE DEF T
    <3> QED
      BY <1>1, <2>1, <2>2, StepByStep
  <2>4. n \in 0..n
    BY <1>1
  <2> QED
    BY <2>3, <2>4
<1> QED
  BY <1>5, <1>7, <1>9

-----------------------------------------------------------------------------
(* The spans of a line, from left to right.  They are finitely many, and   *)
(* their places and numbers tell them apart: each has a rank of its own.   *)

(* Ranking a finite set by what comes earlier puts it in order. *)
Ordered(spans) ==
    /\ \A s \in spans : ~Earlier(s, s)
    /\ \A s, t, u \in spans : Earlier(s, t) /\ Earlier(t, u) => Earlier(s, u)
    /\ \A s, t \in spans : s = t \/ Earlier(s, t) \/ Earlier(t, s)

InRank(spans, n) == CHOOSE s \in spans : Cardinality({t \in spans : Earlier(t, s)}) = n - 1

LEMMA InOrder ==
    ASSUME NEW spans, IsFiniteSet(spans), Ordered(spans)
    PROVE  /\ \A n \in 1..Cardinality(spans) : InRank(spans, n) \in spans
           /\ \A i, j \in 1..Cardinality(spans) :
                 i < j => Earlier(InRank(spans, i), InRank(spans, j))
<1> DEFINE before(s) == {t \in spans : Earlier(t, s)}
           f == [s \in spans |-> Cardinality(before(s)) + 1]
           c == Cardinality(spans)
<1>1. c \in Nat /\ IsFiniteSet(1..c) /\ Cardinality(1..c) = c
  BY FS_CardinalityType, FS_Interval
<1>2. ASSUME NEW s \in spans
      PROVE  IsFiniteSet(before(s)) /\ Cardinality(before(s)) \in Nat /\ f[s] \in 1..c
  <2>1. s \notin before(s) /\ before(s) \subseteq spans /\ before(s) # spans
    BY DEF Ordered
  <2>2. f[s] = Cardinality(before(s)) + 1
    OBVIOUS
  <2> HIDE DEF before, f
  <2>3. IsFiniteSet(before(s)) /\ Cardinality(before(s)) <= c /\ Cardinality(before(s)) # c
    BY <2>1, FS_Subset
  <2>4. Cardinality(before(s)) \in Nat
    BY <2>3, FS_CardinalityType
  <2> QED
    BY <1>1, <2>2, <2>3, <2>4
<1>3. ASSUME NEW s \in spans, NEW t \in spans, Earlier(s, t)
      PROVE  f[s] < f[t]
  <2>1. s \in before(t) /\ s \notin before(s) /\ before(s) \subseteq before(t)
    BY <1>3 DEF Ordered
  <2>2. f[s] = Cardinality(before(s)) + 1 /\ f[t] = Cardinality(before(t)) + 1
    OBVIOUS
  <2> HIDE DEF before, f
  <2>3. Cardinality(before(s)) < Cardinality(before(t))
    BY <1>2, <2>1, FS_Subset
  <2> QED
    BY <1>2, <2>2, <2>3
<1>4. \A s, t \in spans : f[s] = f[t] => s = t
  <2> HIDE DEF f
  <2>1. ASSUME NEW s \in spans, NEW t \in spans, f[s] = f[t]
        PROVE  s = t
    <3>1. f[s] \in Nat /\ f[t] \in Nat
      <4>1. f[s] \in 1..c /\ f[t] \in 1..c
        BY <1>2
      <4> QED
        BY <4>1
    <3>2. ~Earlier(s, t) /\ ~Earlier(t, s)
      BY <1>3, <2>1, <3>1
    <3> QED
      BY <3>2 DEF Ordered
  <2> QED
    BY <2>1
<1>5. f \in Injection(spans, 1..c)
  <2>1. f \in [spans -> 1..c]
    BY <1>2
  <2> HIDE DEF f
  <2> QED
    BY <1>4, <2>1 DEF Injection, IsInjective
<1>6. \A s \in spans : f[s] = Cardinality({t \in spans : Earlier(t, s)}) + 1
  OBVIOUS
<1>7. \A s \in spans : Cardinality({t \in spans : Earlier(t, s)}) \in Nat
  BY <1>2
<1> HIDE DEF f, before
<1>8. f \in Surjection(spans, 1..c)
  BY <1>1, <1>5, FS_Injection
<1>9. ASSUME NEW n \in 1..c
      PROVE  InRank(spans, n) \in spans /\ f[InRank(spans, n)] = n
  <2>1. PICK s \in spans : f[s] = n
    BY <1>8 DEF Surjection
  <2>2. Cardinality({t \in spans : Earlier(t, s)}) = n - 1
    BY <1>6, <1>7, <2>1
  <2>3. /\ InRank(spans, n) \in spans
        /\ Cardinality({t \in spans : Earlier(t, InRank(spans, n))}) = n - 1
    BY <2>2 DEF InRank
  <2> DEFINE x == InRank(spans, n)
  <2>4. x \in spans /\ Cardinality({t \in spans : Earlier(t, x)}) = n - 1
    BY <2>3
  <2> HIDE DEF x
  <2>5. f[x] = n - 1 + 1
    BY <1>6, <2>4
  <2>6. x \in spans /\ f[x] = n
    BY <1>1, <2>4, <2>5
  <2> QED
    BY <2>6 DEF x
<1>10. ASSUME NEW i \in 1..c, NEW j \in 1..c, i < j
       PROVE  Earlier(InRank(spans, i), InRank(spans, j))
  <2> DEFINE s == InRank(spans, i)
             t == InRank(spans, j)
  <2>1. s \in spans /\ t \in spans /\ f[s] = i /\ f[t] = j
    BY <1>9
  <2> HIDE DEF s, t
  <2>2. s # t
    BY <1>1, <1>10, <2>1
  <2>3. ~Earlier(t, s)
    BY <1>1, <1>3, <1>10, <2>1
  <2>4. Earlier(s, t)
    BY <2>1, <2>2, <2>3 DEF Ordered
  <2> QED
    BY <2>4 DEF s, t
<1> QED
  BY <1>9, <1>10

LEMMA RangeIs ==
    ASSUME NEW C, NEW canonical \in Seq(C), NEW op, ~IsLineOp(op),
           op.anchor.kind = "range" \/ \E M : op.anchor.match \in Seq(M),
           NEW r \in SpanRanges(op, canonical)
    PROVE  r.start \in 0..Len(canonical) /\ r.end \in r.start..Len(canonical)
<1> DEFINE anchor == op.anchor
           L == Len(canonical)
<1>1. L \in Nat /\ r \in normalize_anchor(anchor, canonical)
  BY LenProperties DEF SpanRanges
<1>2. CASE anchor.kind = "range"
  <2>1. PICK s \in {anchor.start} \cap 0..anchor.end, e \in {anchor.end} \cap 0..L : r = [start |-> s, end |-> e]
    BY <1>1, <1>2 DEF normalize_anchor
  <2>2. s \in 0..e /\ e \in 0..L /\ r.start = s /\ r.end = e
    BY <2>1
  <2> QED
    BY <1>1, <2>2
<1>3. CASE anchor.kind # "range"
  <2>1. PICK s \in {t \in Chosen(Positions(canonical, anchor.match), anchor.occurrence) : anchor.match # <<>>} :
           r = [start |-> s, end |-> s + Len(anchor.match)]
    BY <1>1, <1>3 DEF normalize_anchor
  <2>2. s \in Positions(canonical, anchor.match)
    BY <2>1 DEF Chosen
  <2>3. s \in 0..(L - Len(anchor.match))
    BY <2>2 DEF Positions
  <2>4. Len(anchor.match) \in Nat
    BY <1>3, LenProperties
  <2>5. r.start = s /\ r.end = s + Len(anchor.match)
    BY <2>1
  <2> QED
    BY <1>1, <2>3, <2>4, <2>5
<1> QED
  BY <1>2, <1>3

(* The operations of a line that are spans. *)
SpanList(list, C) ==
    /\ Listed(list)
    /\ \A k \in DOMAIN list : /\ ~IsLineOp(list[k]) /\ list[k].text \in Seq(C)
                              /\ list[k].anchor.kind = "range" \/ \E M : list[k].anchor.match \in Seq(M)

LEMMA NamedIs ==
    ASSUME NEW C, NEW canonical \in Seq(C), NEW list, SpanList(list, C)
    PROVE  /\ IsFiniteSet(NamedSpans(list, canonical)) /\ Ordered(NamedSpans(list, canonical))
           /\ \A s \in NamedSpans(list, canonical) : Fits(s, C, canonical)
<1> DEFINE L == Len(canonical)
           N == NamedSpans(list, canonical)
<1>1. PICK m \in Nat : DOMAIN list = 1..m
  BY DEF SpanList, Listed
<1>2. L \in Nat
  BY LenProperties
<1>3. ASSUME NEW s \in N
      PROVE  \E k \in 1..m : \E a, b \in 0..L :
                /\ a <= b
                /\ s = [start |-> a, end |-> b, text |-> list[k].text, nr |-> k]
  <2>1. PICK k \in DOMAIN list : \E r \in SpanRanges(list[k], canonical) :
           s = [start |-> r.start, end |-> r.end, text |-> list[k].text, nr |-> k]
    BY DEF NamedSpans
  <2>2. PICK r \in SpanRanges(list[k], canonical) :
           s = [start |-> r.start, end |-> r.end, text |-> list[k].text, nr |-> k]
    BY <2>1
  <2>3. r.start \in 0..L /\ r.end \in r.start..L
    <3>1. /\ ~IsLineOp(list[k])
          /\ list[k].anchor.kind = "range" \/ \E M : list[k].anchor.match \in Seq(M)
      BY DEF SpanList
    <3> QED
      BY <3>1, RangeIs
  <2>4. r.end \in 0..L /\ r.start <= r.end
    BY <1>2, <2>3
  <2> QED
    BY <1>1, <2>3, <2>4, <2>2
<1> HIDE DEF N
<1>4. IsFiniteSet(N)
  <2> DEFINE P == ((0..L) \X (0..L)) \X (1..m)
             f == [p \in P |-> [start |-> p[1][1], end |-> p[1][2], text |-> list[p[2]].text, nr |-> p[2]]]
  <2>1. IsFiniteSet(0..L) /\ IsFiniteSet(1..m)
    BY <1>2, FS_Interval
  <2>2. IsFiniteSet((0..L) \X (0..L))
    BY <2>1, FS_Product
  <2>3. IsFiniteSet(P)
    BY <2>1, <2>2, FS_Product
  <2>4. ASSUME NEW s \in N
        PROVE  \E p \in P : s = f[p]
    <3>1. PICK k \in 1..m, a \in 0..L, b \in 0..L :
             s = [start |-> a, end |-> b, text |-> list[k].text, nr |-> k]
      BY <1>3
    <3>2. <<<<a, b>>, k>> \in P
      OBVIOUS
    <3>3. f[<<<<a, b>>, k>>] = [start |-> a, end |-> b, text |-> list[k].text, nr |-> k]
      BY <3>2
    <3> HIDE DEF f, P
    <3> QED
      BY <3>1, <3>2, <3>3
  <2> HIDE DEF f, P
  <2>5. IsFiniteSet({f[p] : p \in P})
    <3>1. f \in Surjection(P, {f[p] : p \in P})
      BY DEF Surjection, f
    <3> QED
      BY <2>3, <3>1, FS_Surjection
  <2>6. N \subseteq {f[p] : p \in P}
    BY <2>4
  <2> QED
    BY <2>5, <2>6, FS_Subset
<1>5. \A s \in N : Fits(s, C, canonical)
  <2>1. \A k \in 1..m : list[k].text \in Seq(C)
    BY <1>1 DEF SpanList
  <2> SUFFICES ASSUME NEW s \in N
               PROVE  Fits(s, C, canonical)
    OBVIOUS
  <2>2. PICK k \in 1..m, a \in 0..L, b \in 0..L :
           a <= b /\ s = [start |-> a, end |-> b, text |-> list[k].text, nr |-> k]
    BY <1>3
  <2>3. s.start = a /\ s.end = b /\ s.text = list[k].text /\ b \in a..L
    BY <1>2, <2>2
  <2> QED
    BY <1>2, <2>1, <2>3 DEF Fits
<1>6. \A s \in N : s.start \in Nat /\ s.end \in Nat /\ s.nr \in Nat
  <2> SUFFICES ASSUME NEW s \in N
               PROVE  s.start \in Nat /\ s.end \in Nat /\ s.nr \in Nat
    OBVIOUS
  <2>1. PICK k \in 1..m, a \in 0..L, b \in 0..L :
           s = [start |-> a, end |-> b, text |-> list[k].text, nr |-> k]
    BY <1>3
  <2> QED
    BY <1>2, <2>1
<1>7. \A s, t \in N : s.start = t.start /\ s.end = t.end /\ s.nr = t.nr => s = t
  <2> SUFFICES ASSUME NEW s \in N, NEW t \in N, s.start = t.start, s.end = t.end, s.nr = t.nr
               PROVE  s = t
    OBVIOUS
  <2>1. PICK k \in 1..m, a \in 0..L, b \in 0..L :
           s = [start |-> a, end |-> b, text |-> list[k].text, nr |-> k]
    BY <1>3
  <2>2. PICK j \in 1..m, c \in 0..L, d \in 0..L :
           t = [start |-> c, end |-> d, text |-> list[j].text, nr |-> j]
    BY <1>3
  <2>3. a = c /\ b = d /\ k = j
    BY <2>1, <2>2
  <2> QED
    BY <2>1, <2>2, <2>3
<1>8. Ordered(N)
  <2>1. \A s \in N : ~Earlier(s, s)
    BY <1>6 DEF Earlier
  <2>2. ASSUME NEW s \in N, NEW t \in N, NEW u \in N, Earlier(s, t), Earlier(t, u)
        PROVE  Earlier(s, u)
    BY <1>6, <2>2 DEF Earlier
  <2>3. ASSUME NEW s \in N, NEW t \in N, s # t
        PROVE  Earlier(s, t) \/ Earlier(t, s)
    BY <1>6, <1>7, <2>3 DEF Earlier
  <2> QED
    BY <2>1, <2>2, <2>3 DEF Ordered
<1> QED
  BY <1>4, <1>5, <1>8 DEF N

-----------------------------------------------------------------------------
(* What is accepted of a line's spans lies from left to right.             *)

LEMMA NormalizedIs ==
    ASSUME NEW C, NEW canonical \in Seq(C), NEW list, SpanList(list, C)
    PROVE  LET spans == Normalized(list, canonical)
           IN /\ spans \in Seq(NamedSpans(list, canonical))
              /\ \A i, j \in 1..Len(spans) : i < j => spans[i].start <= spans[j].start
<1> DEFINE N == NamedSpans(list, canonical)
           c == Cardinality(N)
           spans == Normalized(list, canonical)
<1>1. IsFiniteSet(N) /\ Ordered(N) /\ \A s \in N : Fits(s, C, canonical)
  BY NamedIs
<1>2. spans = [n \in 1..c |-> InRank(N, n)]
  BY DEF Normalized, InRank
<1> HIDE DEF N, spans
<1>3. c \in Nat /\ \A s \in N : s.start \in Nat
  <2>1. c \in Nat
    BY <1>1, FS_CardinalityType
  <2>2. \A s \in N : s.start \in 0..Len(canonical)
    BY <1>1 DEF Fits
  <2> QED
    BY <2>1, <2>2
<1>4. /\ \A n \in 1..c : InRank(N, n) \in N
      /\ \A i, j \in 1..c : i < j => Earlier(InRank(N, i), InRank(N, j))
  BY <1>1, InOrder
<1> HIDE DEF c
<1>5. /\ DOMAIN spans = 1..c
      /\ \A n \in 1..c : spans[n] = InRank(N, n)
  BY <1>2
<1>6. spans \in Seq(N) /\ Len(spans) = c
  <2>1. spans \in [1..c -> N]
    BY <1>2, <1>4
  <2> QED
    BY <1>3, <2>1, SeqDef, LenProperties
<1>7. ASSUME NEW i \in 1..c, NEW j \in 1..c, i < j
      PROVE  spans[i].start <= spans[j].start
  <2>1. Earlier(spans[i], spans[j])
    BY <1>4, <1>5, <1>7
  <2>2. spans[i].start \in Nat /\ spans[j].start \in Nat
    BY <1>3, <1>4, <1>5
  <2> QED
    BY <2>1, <2>2 DEF Earlier
<1> QED
  BY <1>6, <1>7 DEF N, spans

LEMMA AcceptedIs ==
    ASSUME NEW C, NEW canonical \in Seq(C), NEW list, SpanList(list, C)
    PROVE  LET accepted == Accepted(Normalized(list, canonical))
           IN accepted \in Seq(NamedSpans(list, canonical)) /\ Neat(accepted, C, canonical)
<1> DEFINE N == NamedSpans(list, canonical)
           spans == Normalized(list, canonical)
           n == Len(spans)
<1>1. \A s \in N : Fits(s, C, canonical)
  BY NamedIs
<1>2. spans \in Seq(N) /\ \A i, j \in 1..n : i < j => spans[i].start <= spans[j].start
  BY NormalizedIs
<1> HIDE DEF N, spans
<1>3. PICK kept \in [0..n -> Seq(N)] :
         /\ kept[0] = <<>>
         /\ \A k \in 1..n :
               kept[k] = IF Collides(kept[k - 1], spans[k]) THEN kept[k - 1]
                         ELSE Append(kept[k - 1], spans[k])
         /\ Accepted(spans) = kept[n]
  BY <1>2, KeptIs
<1>4. n \in Nat /\ \A k \in 1..n : spans[k] \in N
  BY <1>2, LenProperties, ElementOfSeq
<1>5. \A s \in N : s.start \in Nat /\ s.end \in Nat /\ s.start <= s.end
  <2> SUFFICES ASSUME NEW s \in N
               PROVE  s.start \in Nat /\ s.end \in Nat /\ s.start <= s.end
    OBVIOUS
  <2>1. s.start \in 0..Len(canonical) /\ s.end \in s.start..Len(canonical) /\ Len(canonical) \in Nat
    BY <1>1, LenProperties DEF Fits
  <2> QED
    BY <2>1
<1> DEFINE Left(seq) == \A i, j \in 1..Len(seq) :
                           i < j => seq[i].start < seq[j].start /\ seq[i].end <= seq[j].start
           From(seq, k) == \A i \in 1..Len(seq) : \E j \in 1..k : seq[i] = spans[j]
           T == {k \in 0..n : Left(kept[k]) /\ From(kept[k], k)}
<1>6. 0 \in T /\ T \in SUBSET (0..n)
  <2>1. Len(kept[0]) = 0
    BY <1>3
  <2>2. Left(kept[0]) /\ From(kept[0], 0)
    BY <2>1
  <2> QED
    BY <1>4, <2>2
<1>7. ASSUME NEW k \in 1..n, k - 1 \in T
      PROVE  k \in T
  <2> DEFINE old == kept[k - 1]
             new == kept[k]
             s == spans[k]
             m == Len(old)
  <2>1. k \in 0..n /\ k - 1 \in 0..n /\ old \in Seq(N) /\ m \in Nat /\ s \in N
    <3>1. k \in 0..n /\ k - 1 \in 0..n
      BY <1>4
    <3> QED
      BY <1>3, <1>4, <3>1, LenProperties
  <2>2. Left(old) /\ From(old, k - 1)
    BY <1>7
  <2>3. new = IF Collides(old, s) THEN old ELSE Append(old, s)
    BY <1>3
  <2> HIDE DEF old, new, s
  <2>4. From(old, k)
    <3>1. \A j \in 1..(k - 1) : j \in 1..k
      OBVIOUS
    <3> QED
      BY <2>2, <3>1
  <2>5. CASE Collides(old, s)
    <3>1. new = old
      BY <2>3, <2>5
    <3>2. Left(new) /\ From(new, k)
      BY <2>2, <2>4, <3>1
    <3> QED
      BY <2>1, <3>2 DEF new
  <2>6. CASE ~Collides(old, s)
    <3>1. new = Append(old, s)
      BY <2>3, <2>6
    <3>2. /\ Len(new) = m + 1 /\ new[m + 1] = s
          /\ \A i \in 1..m : new[i] = old[i]
      BY <2>1, <3>1, AppendProperties
    <3>3. \A i \in 1..m : old[i] \in N /\ old[i].start <= s.start
      <4> SUFFICES ASSUME NEW i \in 1..m
                   PROVE  old[i] \in N /\ old[i].start <= s.start
        OBVIOUS
      <4>1. PICK j \in 1..(k - 1) : old[i] = spans[j]
        BY <2>2
      <4>2. j \in 1..n /\ j < k
        BY <1>4
      <4> QED
        BY <1>2, <1>4, <4>1, <4>2 DEF s
    <3>4. m # 0 => m \in 1..m /\ ~(s.start < old[m].end) /\ s.start # old[m].start
      <4>1. m # 0 => m \in 1..m /\ old # <<>> /\ Last(old) = old[m]
        BY <2>1 DEF Last
      <4> QED
        BY <2>6, <4>1 DEF Collides
    <3>5. ASSUME NEW i \in 1..m
          PROVE  old[i].start < s.start /\ old[i].end <= s.start
      <4>1. m # 0 /\ m \in 1..m /\ old[m] \in N /\ old[i] \in N
        BY <2>1, <3>3
      <4>2. old[m].start < s.start /\ old[m].end <= s.start
        BY <1>5, <2>1, <3>3, <3>4, <4>1
      <4>3. CASE i = m
        BY <4>2, <4>3
      <4>4. CASE i # m
        <5>1. i < m
          BY <2>1, <4>4
        <5>2. old[i].start < old[m].start /\ old[i].end <= old[m].start
          BY <2>2, <4>1, <5>1
        <5> QED
          BY <1>5, <2>1, <4>1, <4>2, <5>2
      <4> QED
        BY <4>3, <4>4
    <3>6. Left(new)
      <4> SUFFICES ASSUME NEW i \in 1..Len(new), NEW j \in 1..Len(new), i < j
                   PROVE  new[i].start < new[j].start /\ new[i].end <= new[j].start
        OBVIOUS
      <4>1. i \in 1..m /\ new[i] = old[i]
        BY <2>1, <3>2
      <4>2. CASE j = m + 1
        BY <3>2, <3>5, <4>1, <4>2
      <4>3. CASE j # m + 1
        <5>1. j \in 1..m /\ new[j] = old[j]
          BY <2>1, <3>2, <4>3
        <5> QED
          BY <2>2, <4>1, <5>1
      <4> QED
        BY <4>2, <4>3
    <3>7. From(new, k)
      <4> SUFFICES ASSUME NEW i \in 1..Len(new)
                   PROVE  \E j \in 1..k : new[i] = spans[j]
        OBVIOUS
      <4>1. CASE i = m + 1
        <5>1. k \in 1..k /\ new[i] = spans[k]
          BY <1>4, <3>2, <4>1 DEF s
        <5> QED
          BY <5>1
      <4>2. CASE i # m + 1
        <5>1. i \in 1..m /\ new[i] = old[i]
          BY <2>1, <3>2, <4>2
        <5> QED
          BY <2>4, <5>1
      <4> QED
        BY <4>1, <4>2
    <3> QED
      BY <2>1, <3>6, <3>7 DEF new
  <2> QED
    BY <2>5, <2>6
<1>8. n \in T
  <2>1. T = 0..n
    <3> HIDE DEF T
    <3> QED
      BY <1>4, <1>6, <1>7, StepByStep
  <2>2. n \in 0..n
    BY <1>4
  <2> QED
    BY <2>1, <2>2
<1>9. Left(kept[n]) /\ kept[n] \in Seq(N)
  <2>1. n \in 0..n
    BY <1>4
  <2> QED
    BY <1>3, <1>8, <2>1
<1>10. \A k \in 1..Len(kept[n]) : Fits(kept[n][k], C, canonical)
  BY <1>1, <1>9, ElementOfSeq
<1> QED
  BY <1>3, <1>9, <1>10 DEF Neat, N, spans

-----------------------------------------------------------------------------
(* What the producer proposed is what the document allows.                 *)

Proposed == \A k \in DOMAIN ops : ops[k] \in Operations(doc)

LEMMA ProposedAlways == Spec => []Proposed
<1>1. Init => Proposed
  BY DEF Init, Proposed
<1>2. ASSUME Proposed, [Next]_vars
      PROVE  Proposed'
  <2>1. CASE Propose
    <3>1. PICK proposed \in SeqOf(Operations(doc), MaxOps) : ops' = proposed
      BY <2>1 DEF Propose
    <3>2. PICK k \in 0..MaxOps : proposed \in [1..k -> Operations(doc)]
      BY <3>1 DEF SeqOf
    <3>3. doc' = doc
      BY <2>1 DEF Propose, SetUp
    <3> QED
      BY <3>1, <3>2, <3>3 DEF Proposed
  <2>2. CASE RetryAnswer
    BY <2>2 DEF RetryAnswer, Proposed
  <2>3. CASE UNCHANGED <<doc, ops>>
    BY <1>2, <2>3 DEF Proposed
  <2>4. AcceptAnswer \/ GiveUp \/ Decide \/ Publish \/ Replay \/ UNCHANGED vars => UNCHANGED <<doc, ops>>
    BY DEF AcceptAnswer, GiveUp, Decide, Publish, Replay, SetUp, vars
  <2> QED
    BY <1>2, <2>1, <2>2, <2>3, <2>4 DEF Next
<1> QED
  BY <1>1, <1>2, PTL DEF Spec

LEMMA Widened ==
    ASSUME NEW A, NEW B, A \subseteq B, NEW x \in Seq(A)
    PROVE  x \in Seq(B)
<1>1. PICK m \in Nat : x \in [1..m -> A]
  BY SeqDef
<1>2. x \in [1..m -> B]
  BY <1>1
<1> QED
  BY <1>2, SeqDef

(* A script's spans leave on a line the pieces that core/editing.py's      *)
(* _apply_spans is meant to leave: every accepted replacement where its    *)
(* span began, every character no span covers, in order, and nothing else; *)
(* applying them one by one from the right moves none of them.             *)
THEOREM SpansLandExactly == Spec => []SpliceIsExact
<1>1. ASSUME AnswerInv, Proposed
      PROVE  SpliceIsExact
  <2> SUFFICES ASSUME stage = "proposed", NEW l \in DOMAIN edited.text
               PROVE  edited.text[l] =
                        Pieces(doc.source[l], Range(Accepted(Normalized(SpanOps(ops)[l], doc.source[l]))))
    BY DEF SpliceIsExact
  <2> DEFINE list == SpanOps(ops)[l]
             canonical == doc.source[l]
             spoken == [ops |-> SpanOps(ops), expects |-> None]
             C == Range(canonical) \cup UNION {Range(ops[k].text) : k \in DOMAIN ops}
  <2>1. doc \in Documents /\ Listed(ops) /\ edited = apply_edit_script(spoken, doc.source, targets, doc.role)
    BY <1>1 DEF AnswerInv, Spans
  <2>2. /\ l \in Editable(spoken, doc.source, targets)
        /\ edited.text[l] \in LineText(spoken.ops[l], doc.source[l], doc.role[l])
    BY <2>1, Replayed
  <2>3. l \in DOMAIN SpanOps(ops) /\ l \in Lines
    <3>1. l \in DOMAIN spoken.ops /\ l \in DOMAIN doc.source
      BY <2>2 DEF Editable
    <3> QED
      BY <2>1, <3>1, ProposalAssumption
  <2>4. list = OpsAt(ops, SpanPlaces(ops, l)) /\ SpanPlaces(ops, l) \in SUBSET DOMAIN ops
    BY <2>3 DEF SpanOps, SpanPlaces
  <2>5. /\ DOMAIN list = 1..Cardinality(SpanPlaces(ops, l))
        /\ Cardinality(SpanPlaces(ops, l)) \in Nat
        /\ \A n \in DOMAIN list : \E p \in SpanPlaces(ops, l) : list[n] = ops[p]
    <3> HIDE DEF list
    <3> QED
      BY <2>1, <2>4, Picked
  <2>6. canonical \in Seq(C)
    <3>1. canonical \in Seq(Range(canonical))
      BY <2>1, <2>3, ProposalAssumption
    <3>2. Range(canonical) \subseteq C
      OBVIOUS
    <3> HIDE DEF C, canonical
    <3> QED
      BY <3>1, <3>2, Widened
  <2>7. SpanList(list, C)
    <3>1. ASSUME NEW n \in DOMAIN list
          PROVE  /\ ~IsLineOp(list[n]) /\ list[n].text \in Seq(C)
                 /\ list[n].anchor.kind = "range" \/ \E M : list[n].anchor.match \in Seq(M)
      <4>1. PICK p \in SpanPlaces(ops, l) : list[n] = ops[p]
        BY <2>5
      <4>2. p \in DOMAIN ops /\ ~IsLineOp(ops[p])
        BY <4>1 DEF SpanPlaces
      <4>3. ops[p] \in Operations(doc)
        BY <1>1, <4>2 DEF Proposed
      <4>4. /\ ops[p].text \in Seq(Range(ops[p].text))
            /\ \/ ops[p].anchor.kind \in {"line", "range"}
               \/ ops[p].anchor.match \in Seq(Range(ops[p].anchor.match))
        BY <2>1, <4>3, ProposalAssumption
      <4>5. Range(ops[p].text) \subseteq C
        BY <4>2
      <4> HIDE DEF C, list
      <4>6. ops[p].text \in Seq(C)
        BY <4>4, <4>5, Widened
      <4>7. ops[p].anchor.kind # "line"
        BY <4>2 DEF IsLineOp
      <4> QED
        BY <4>1, <4>2, <4>4, <4>6, <4>7
    <3>2. Listed(list)
      BY <2>5 DEF Listed
    <3> HIDE DEF C, list
    <3> QED
      BY <3>1, <3>2 DEF SpanList
  <2>8. edited.text[l] = SpansMake(list, canonical)
    <3>1. spoken.ops[l] = list
      OBVIOUS
    <3> HIDE DEF list, spoken, canonical
    <3>2. LineText(list, doc.source[l], doc.role[l]) = SpanText(list, doc.source[l], doc.role[l])
      BY <2>7 DEF LineText, SpanList
    <3>3. edited.text[l] \in SpanText(list, doc.source[l], doc.role[l])
      BY <2>2, <3>1, <3>2
    <3>4. edited.text[l] = SpansMake(list, doc.source[l])
      BY <3>3, SpansMakeOne
    <3> QED
      BY <3>4 DEF canonical
  <2> HIDE DEF list, canonical, C
  <2>9. /\ Accepted(Normalized(list, canonical)) \in Seq(NamedSpans(list, canonical))
        /\ Neat(Accepted(Normalized(list, canonical)), C, canonical)
    BY <2>6, <2>7, AcceptedIs
  <2>10. ApplySpans(canonical, Accepted(Normalized(list, canonical)))
           = Pieces(canonical, Range(Accepted(Normalized(list, canonical))))
    BY <2>6, <2>9, AppliedIs
  <2> QED
    BY <2>8, <2>10 DEF SpansMake, list, canonical
<1> QED
  BY <1>1, AnswerInvAlways, ProposedAlways, PTL
=============================================================================
