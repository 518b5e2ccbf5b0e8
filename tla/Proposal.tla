------------------------------ MODULE Proposal ------------------------------
(***************************************************************************)
(* What becomes of a producer's edit script (core/attempt.py,              *)
(* core/validator.py, core/report.py).                                     *)
(*                                                                         *)
(* One chunk: the script is turned into an answer and validated, retried   *)
(* or given up; the lines are decided; the script the run publishes is     *)
(* rebuilt from what was decided; and a consumer replays it, on the        *)
(* document of the run or on another one.  The decision itself is          *)
(* PageDriver's: here it is a free verdict, held to what the published     *)
(* script may rely on.                                                     *)
(***************************************************************************)
EXTENDS Editing

CONSTANTS
    Lines,          \* the lines of the chunk
    Documents,      \* [source, role, subs : Lines -> ...,  pairs : <<head, tail>>]
    Operations(_),  \* what a producer may propose about a document
    MaxOps,         \* bound on the operations of a script
    MaxAttempts,
    WordGrowth,     \* pair_drift_part1_word_growth
    MinWords        \* pair_drift_part2_min_words

ASSUME ProposalAssumption ==
    /\ MaxOps \in Nat /\ MaxAttempts \in Nat \ {0} /\ WordGrowth \in Nat /\ MinWords \in Nat
    /\ \A d \in Documents : /\ DOMAIN d.source = Lines
                            /\ \A l \in Lines : d.source[l] \in Seq(Range(d.source[l]))
                            /\ \A o \in Operations(d) :
                                  /\ o.text \in Seq(Range(o.text))
                                  /\ \/ o.anchor.kind \in {"line", "range"}
                                     \/ o.anchor.match \in Seq(Range(o.anchor.match))
                            /\ \A p \in d.pairs : p[1] \in Lines /\ p[2] \in Lines

VARIABLES
    doc, targets,   \* the chunk: its lines, and those it owns
    fullCoverage,   \* requires_full_coverage of the producer
    stage,          \* "asked", "proposed", "validated", "decided", "published", "replayed"
    attempt,
    ops,            \* the producer's operations
    edited,         \* what came of its spans: a text per line, and the refused
    batch,          \* the validated answer: a text per line
    captured,       \* ctx.producer_ops
    decision,       \* status and text of the targets
    script,         \* the published script
    held, replay    \* the consumer's document, and what it got

vars == <<doc, targets, fullCoverage, stage, attempt, ops, edited, batch, captured, decision,
          script, held, replay>>

None == [l \in {} |-> <<>>]

-----------------------------------------------------------------------------
(* The answer: whole lines as proposed, spans as applied, and for a        *)
(* producer that only speaks of what it edits, the rest as it was.         *)

NoSpans == [text |-> None, refused |-> {}]
SpanPlaces(proposed, l) == {k \in DOMAIN proposed : proposed[k].line = l /\ ~IsLineOp(proposed[k])}
SpanOps(proposed) ==
    [l \in {k \in LinesOf(proposed) : SpanPlaces(proposed, k) # {}} |->
        OpsAt(proposed, SpanPlaces(proposed, l))]
Spans(proposed) ==
    apply_edit_script([ops |-> SpanOps(proposed), expects |-> None], doc.source, targets, doc.role)

LineOps(l) == {k \in DOMAIN ops : ops[k].line = l /\ IsLineOp(ops[k])}
Given(l) == Cardinality(LineOps(l)) + (IF l \in DOMAIN edited.text THEN 1 ELSE 0)
Spoken == {l \in LinesOf(ops) : Given(l) > 0}
Named == IF fullCoverage THEN Spoken ELSE Spoken \cup Lines

RawText(l) ==
    IF LineOps(l) # {} THEN ops[Min(LineOps(l))].text
    ELSE IF l \in DOMAIN edited.text THEN edited.text[l] ELSE doc.source[l]

(* A blank line answered by a blank one is a reading, not an erasure. *)
CheckedText(l) ==
    IF BlankText(RawText(l)) /\ BlankText(doc.source[l]) THEN <<>> ELSE RawText(l)

Erases(l) == BlankText(RawText(l)) /\ ~BlankText(doc.source[l])

WellFormed ==
    /\ targets \subseteq Named /\ Named \subseteq Lines
    /\ \A l \in Named : Given(l) <= 1 /\ ~Erases(l) /\ OneLine(CheckedText(l))

(* Hyphen integrity, over pairs the chunk owns whole. *)

Words(text) == Cardinality(WordStarts(text))

PairDrifts(a, b) ==
    /\ doc.source[a] # <<>> /\ doc.source[b] # <<>>
    /\ \/ Words(CheckedText(a)) > Words(doc.source[a]) + WordGrowth
       \/ /\ Words(doc.source[b]) >= MinWords
          /\ 5 * Words(CheckedText(b)) < 2 * Words(doc.source[b])

(* The last word of a text without its break mark; a set of at most one. *)
LastWord(text) ==
    LET words == SplitWords(BeforeMark(text))
    IN {words[w] : w \in {Len(words)} \cap DOMAIN words}

(* Faulty: a source that already reads as the whole word is a fusion too. *)
Fused_WhateverTheSource(l) ==
    doc.subs[l] # {} /\ LastWord(CheckedText(l)) = doc.subs[l]

(* The head swallowed its tail: it now ends in the word the markup says    *)
(* the two make, which the source did not.                                 *)
Fused(l) ==
    /\ doc.subs[l] # {} /\ LastWord(CheckedText(l)) = doc.subs[l]
    /\ LastWord(doc.source[l]) # doc.subs[l]

HyphenIntegrity ==
    doc.pairs # {} =>
        /\ \A p \in doc.pairs :
              {p[1], p[2]} \subseteq targets =>
                  /\ CheckedText(p[1]) # <<>> /\ CheckedText(p[2]) # <<>>
                  /\ ~PairDrifts(p[1], p[2])
        /\ \A l \in targets : ~Fused(l)

Valid == WellFormed /\ HyphenIntegrity

(* _capture_producer_ops: nothing is kept of a line with a refused span. *)
Captured ==
    [l \in (targets \cap LinesOf(ops)) \ edited.refused |->
        [ops |-> OpsOf(ops, l), text |-> CheckedText(l)]]

-----------------------------------------------------------------------------
SetUp == <<doc, targets, fullCoverage>>

Propose ==
    /\ stage = "asked" /\ stage' = "proposed"
    /\ \E proposed \in SeqOf(Operations(doc), MaxOps) :
        ops' = proposed /\ edited' = Spans(proposed)
    /\ UNCHANGED <<SetUp, attempt, batch, captured, decision, script, held, replay>>

AcceptAnswer ==
    /\ stage = "proposed" /\ Valid
    /\ stage' = "validated"
    /\ batch' = [l \in Named |-> CheckedText(l)]
    /\ captured' = Captured
    /\ UNCHANGED <<SetUp, attempt, ops, edited, decision, script, held, replay>>

RetryAnswer ==
    /\ stage = "proposed" /\ ~Valid /\ attempt < MaxAttempts
    /\ stage' = "asked" /\ attempt' = attempt + 1 /\ ops' = <<>> /\ edited' = NoSpans
    /\ UNCHANGED <<SetUp, batch, captured, decision, script, held, replay>>

Reverted(l) == [status |-> "FALLBACK", text |-> doc.source[l]]

GiveUp ==
    /\ stage = "proposed" /\ ~Valid /\ attempt = MaxAttempts
    /\ stage' = "decided" /\ decision' = [l \in targets |-> Reverted(l)]
    /\ UNCHANGED <<SetUp, attempt, ops, edited, batch, captured, script, held, replay>>

KeepsItsMark(l) ==
    doc.role[l] \in {"PART1", "BOTH"} /\ EndsWithMark(doc.source[l]) => EndsWithMark(batch[l])

(* Any verdict on a changed line; a pair the chunk owns stands or falls    *)
(* as one, and an opening line never stands without its mark.              *)
Decide ==
    /\ stage = "validated" /\ stage' = "decided"
    /\ \E stand \in SUBSET {l \in targets : KeepsItsMark(l)} :
        /\ \A p \in doc.pairs : {p[1], p[2]} \subseteq targets => (p[1] \in stand <=> p[2] \in stand)
        /\ decision' = [l \in targets |->
              IF l \in stand
              THEN [status |-> "CORRECTED", text |-> preserve_break_char(doc.source[l], batch[l])]
              ELSE Reverted(l)]
    /\ UNCHANGED <<SetUp, attempt, ops, edited, batch, captured, script, held, replay>>

Applied == {l \in targets \cap DOMAIN captured : decision[l].status = "CORRECTED"}

(* Faulty: the producer's operations, whatever became of them. *)
PublishedOps_AsProposed(l) == captured[l].ops

PublishedOps(l) ==
    IF captured[l].text = decision[l].text THEN captured[l].ops
    ELSE <<[line |-> l, anchor |-> WholeLine, text |-> decision[l].text]>>

(* Faulty: only spans are tied to the text they were computed against. *)
Preconditions_SpansOnly ==
    [l \in {k \in Applied : \A o \in DOMAIN PublishedOps(k) : ~IsLineOp(PublishedOps(k)[o])}
        |-> doc.source[l]]

Preconditions == [l \in Applied |-> doc.source[l]]

(* _build_final_edit_script *)
Publish ==
    /\ stage = "decided" /\ stage' = "published"
    /\ script' = [ops |-> [l \in Applied |-> PublishedOps(l)], expects |-> Preconditions]
    /\ UNCHANGED <<SetUp, attempt, ops, edited, batch, captured, decision, held, replay>>

(* A consumer replays the script on a document with the same line ids,     *)
(* telling the roles or not.                                               *)
Replay ==
    /\ stage = "published" /\ stage' = "replayed"
    /\ \E d \in Documents, roles \in {doc.role, [l \in Lines |-> "NONE"]} :
        /\ held' = d.source
        /\ replay' = apply_edit_script(script, d.source, Lines, roles)
    /\ UNCHANGED <<SetUp, attempt, ops, edited, batch, captured, decision, script>>

Init ==
    /\ doc \in Documents /\ targets \in SUBSET Lines \ {{}} /\ fullCoverage \in BOOLEAN
    /\ stage = "asked" /\ attempt = 1 /\ ops = <<>> /\ edited = NoSpans
    /\ batch = None /\ captured = None /\ decision = None
    /\ script = [ops |-> None, expects |-> None] /\ held = None
    /\ replay = NoSpans

Next ==
    \/ Propose \/ AcceptAnswer \/ RetryAnswer \/ GiveUp
    \/ Decide \/ Publish \/ Replay

Spec == Init /\ [][Next]_vars

-----------------------------------------------------------------------------
(* What accepted spans make of a line, position by position: the           *)
(* replacement of the span that starts there, and the character unless a   *)
(* span covers it.                                                         *)
Piece(canonical, spans, p) ==
    LET at == {s \in spans : s.start = p}
        covered == \E s \in spans : s.start <= p /\ p < s.end
    IN (IF at = {} THEN <<>> ELSE (CHOOSE s \in at : TRUE).text)
       \o (IF p = Len(canonical) \/ covered THEN <<>> ELSE <<canonical[p + 1]>>)

Pieces(canonical, spans) ==
    FlattenSeq([k \in 1..(Len(canonical) + 1) |-> Piece(canonical, spans, k - 1)])

(* The edits of a line land each on the characters it named, none on what  *)
(* another wrote, in whatever order the producer listed them.              *)
SpliceIsExact ==
    stage = "proposed" =>
        \A l \in DOMAIN edited.text :
            edited.text[l] = Pieces(doc.source[l], Range(Accepted(Normalized(SpanOps(ops)[l], doc.source[l]))))

(* An answer that gives lines back as they were, every target once and no  *)
(* line twice, is never refused: it would be again on every retry "until   *)
(* the whole chunk hard-fails", and the chunk would lose its other         *)
(* corrections.                                                            *)
IdentityIsAccepted ==
    (/\ stage = "proposed"
     /\ \A l \in Lines : Given(l) <= 1 /\ (l \in targets => Given(l) = 1)
     /\ \A k \in DOMAIN ops : /\ ops[k].line \in Lines /\ IsLineOp(ops[k])
                              /\ ops[k].text = doc.source[ops[k].line])
        => Valid

(* A consumer that replays the script never gets another text than the     *)
(* run delivered ("the library ships two answers to one question"), and    *)
(* gets all of what was published as spans.                                *)
ReplayTellsTheTruth ==
    stage = "replayed" =>
        /\ \A l \in DOMAIN replay.text : decision[l].text = replay.text[l]
        /\ \A l \in DOMAIN script.ops : \A k \in DOMAIN script.ops[l] :
              ~IsLineOp(script.ops[l][k]) /\ held[l] = doc.source[l] => l \in DOMAIN replay.text

(* A line with the right id and another text is never edited: "an op must  *)
(* never land on a lookalike".                                             *)
NeverEditsALookalike ==
    stage = "replayed" => \A l \in DOMAIN replay.text : held[l] = doc.source[l]

(* Documented: a line whose delivered text differs from its source has an  *)
(* operation behind it ("no byte the caller cannot account for").          *)
EveryChangeHasAnOp ==
    stage \in {"published", "replayed"} =>
        \A l \in targets : decision[l].text # doc.source[l] => l \in DOMAIN script.ops
=============================================================================
