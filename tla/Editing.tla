------------------------------ MODULE Editing ------------------------------
(***************************************************************************)
(* The span edit protocol (core/editing.py): anchors, the checks E1..E5b   *)
(* and the application of a script to the texts of some lines.             *)
(*                                                                         *)
(* A text is a sequence of characters; its digest is the text itself.  An  *)
(* operation is [line, anchor, text], its anchor a record whose "kind" is  *)
(*   line    the whole line;                                               *)
(*   range   [start, end), offsets from 0;                                 *)
(*   match   an exact substring, by occurrence or, Unspecified, unique.    *)
(* What may be refused is a set of at most one element, empty on refusal.  *)
(***************************************************************************)
EXTENDS Texts

CONSTANTS
    GrowthRatio,    \* edit_span_max_growth_ratio
    LineBudget      \* edit_line_max_changed_chars

ASSUME EditingAssumption == GrowthRatio \in Nat \ {0} /\ LineBudget \in Nat

Unspecified == -1
WholeLine == [kind |-> "line"]

-----------------------------------------------------------------------------
OneLine(text) == "newline" \notin Range(text)
Positions(text, match) ==
    {s \in 0..(Len(text) - Len(match)) : SubSeq(text, s + 1, s + Len(match)) = match}

(* An occurrence names the n-th match; none at all asks for uniqueness. *)
Chosen(starts, occurrence) ==
    IF occurrence = Unspecified
    THEN {s \in starts : Cardinality(starts) = 1}
    ELSE {s \in starts : Cardinality({t \in starts : t < s}) = occurrence}

normalize_anchor(anchor, canonical) ==
    IF anchor.kind = "range"
    THEN {[start |-> s, end |-> e] :
            s \in {anchor.start} \cap 0..anchor.end, e \in {anchor.end} \cap 0..Len(canonical)}
    ELSE {[start |-> s, end |-> s + Len(anchor.match)] :
            s \in {t \in Chosen(Positions(canonical, anchor.match), anchor.occurrence) :
                     anchor.match # <<>>}}

(* What is left of an edit once the common prefix and suffix are trimmed. *)
ChangedChars(original, replacement) ==
    LET long == Max({Len(original), Len(replacement)})
        short == Min({Len(original), Len(replacement)})
        prefix == Max({k \in 0..short : SubSeq(original, 1, k) = SubSeq(replacement, 1, k)})
        suffix == Max({k \in 0..(short - prefix) :
                        SubSeq(original, Len(original) - k + 1, Len(original))
                          = SubSeq(replacement, Len(replacement) - k + 1, Len(replacement))})
    IN long - prefix - suffix

(* E5: a line that opens a word keeps its mark and something before it;    *)
(* a space before the mark must come from the source.                      *)
e5_hyphen_ok(role, result, source) ==
    role \in {"PART1", "BOTH"} =>
        /\ EndsWithMark(result)
        /\ BeforeMark(result) # <<>>
        /\ Last(BeforeMark(result)) \in White =>
              BeforeMark(source) # <<>> /\ Last(BeforeMark(source)) = " "

(* E5b: no single span erases the word that continues a broken word. *)
e5b_boundary_word_kept(role, canonical, accepted) ==
    role \in {"PART2", "BOTH"} /\ WordStarts(canonical) # {} =>
        LET first == Min(WordStarts(canonical))
        IN \A k \in DOMAIN accepted :
              ~(/\ accepted[k].start < first
                /\ accepted[k].end >= WordEnd(canonical, first)
                /\ BlankText(accepted[k].text))

-----------------------------------------------------------------------------
(* Spans *)

SpanRanges(op, canonical) ==
    {r \in normalize_anchor(op.anchor, canonical) :
        OneLine(op.text) /\ Len(op.text) <= GrowthRatio * Max({1, r.end - r.start})}

Earlier(p, q) ==
    \/ p.start < q.start
    \/ p.start = q.start /\ p.end < q.end
    \/ p.start = q.start /\ p.end = q.end /\ p.nr < q.nr

(* What a list of operations names on a line, from left to right. *)
NamedSpans(ops, canonical) ==
    UNION {{[start |-> r.start, end |-> r.end, text |-> ops[k].text, nr |-> k] :
              r \in SpanRanges(ops[k], canonical)} : k \in DOMAIN ops}

Normalized(ops, canonical) ==
    LET spans == NamedSpans(ops, canonical)
    IN [n \in 1..Cardinality(spans) |->
          CHOOSE s \in spans : Cardinality({t \in spans : Earlier(t, s)}) = n - 1]

(* Faulty: an insertion where another span starts is let through. *)
Collides_CrossingOnly(accepted, span) ==
    accepted # <<>> /\ span.start < Last(accepted).end

(* E2: a span may not reach into the previous one, nor start where it does. *)
Collides(accepted, span) ==
    /\ accepted # <<>>
    /\ span.start < Last(accepted).end \/ span.start = Last(accepted).start

Accepted(spans) ==
    LET kept[k \in 0..Len(spans)] ==
            IF k = 0 THEN <<>>
            ELSE IF Collides(kept[k - 1], spans[k]) THEN kept[k - 1]
            ELSE Append(kept[k - 1], spans[k])
    IN kept[Len(spans)]

Spliced(text, s) == SubSeq(text, 1, s.start) \o s.text \o SubSeq(text, s.end + 1, Len(text))

(* From the right, so that an edit never moves the offsets of the next. *)
ApplySpans(canonical, accepted) ==
    LET n == Len(accepted)
        text[k \in 0..n] == IF k = 0 THEN canonical ELSE Spliced(text[k - 1], accepted[n - k + 1])
    IN text[n]

SpanCost(canonical, accepted) ==
    MapThenSumSet(LAMBDA k : ChangedChars(SubSeq(canonical, accepted[k].start + 1, accepted[k].end),
                                          accepted[k].text),
                  DOMAIN accepted)

SpanText(ops, canonical, role) ==
    LET accepted == Accepted(Normalized(ops, canonical))
    IN {text \in {ApplySpans(canonical, accepted)} :
          /\ accepted # <<>>
          /\ SpanCost(canonical, accepted) <= LineBudget
          /\ ~BlankText(text)
          /\ e5_hyphen_ok(role, text, canonical)
          /\ e5b_boundary_word_kept(role, canonical, accepted)}

(* A line is refused when any of its spans is, not only when all are. *)
SpansRefused(ops, canonical, role) ==
    \/ SpanText(ops, canonical, role) = {}
    \/ Len(Accepted(Normalized(ops, canonical))) < Len(ops)

-----------------------------------------------------------------------------
(* Scripts *)

IsLineOp(op) == op.anchor.kind = "line"

WholeLineText(ops, canonical, role) ==
    {text \in {ops[k].text : k \in DOMAIN ops} :
        /\ Len(ops) = 1
        /\ OneLine(text) /\ ~BlankText(text)
        /\ ChangedChars(canonical, text) <= LineBudget
        /\ e5_hyphen_ok(role, text, canonical)}

LineText(ops, canonical, role) ==
    IF \E k \in DOMAIN ops : IsLineOp(ops[k])
    THEN WholeLineText(ops, canonical, role)
    ELSE SpanText(ops, canonical, role)

(* The operations at some places of a list, in its order. *)
OpsAt(ops, places) == [n \in 1..Cardinality(places) |-> ops[Nth(places, n)]]

OpsOf(ops, line) == OpsAt(ops, {k \in DOMAIN ops : ops[k].line = line})
LinesOf(ops) == {ops[k].line : k \in DOMAIN ops}

(* A script keeps its operations line by line, each line's in the order    *)
(* they were given.  E1 and the preconditions: which lines of it may be    *)
(* edited here.                                                            *)
Editable(script, canonical, targets) ==
    {l \in DOMAIN script.ops \cap DOMAIN canonical \cap targets :
        l \in DOMAIN script.expects => script.expects[l] = canonical[l]}

(* apply_edit_script: the lines that get a text, with it, and the refused. *)
apply_edit_script(script, canonical, targets, role) ==
    LET text == [l \in Editable(script, canonical, targets) |->
                    LineText(script.ops[l], canonical[l], role[l])]
        edited == {l \in DOMAIN text : text[l] # {}}
    IN [text |-> [l \in edited |-> CHOOSE t \in text[l] : TRUE],
        refused |-> {l \in DOMAIN script.ops :
                        \/ l \notin edited
                        \/ /\ \A k \in DOMAIN script.ops[l] : ~IsLineOp(script.ops[l][k])
                           /\ SpansRefused(script.ops[l], canonical[l], role[l])}]
=============================================================================
