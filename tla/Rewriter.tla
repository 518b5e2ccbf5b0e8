------------------------------ MODULE Rewriter ------------------------------
(***************************************************************************)
(* One ALTO TextLine from its markup to its rewritten markup               *)
(* (formats/alto/parser.py, rewriter.py, _text.py, losses.py).             *)
(*                                                                         *)
(* The line is parsed, linked by its neighbours or severed from them,      *)
(* decided, and rewritten along one of four paths; then the result is read *)
(* and rewritten by a run that corrects nothing.  The slow path aligns the *)
(* words of the correction with the Strings of the source, with the steps  *)
(* of Alignment.                                                           *)
(*                                                                         *)
(* A child is [tag, text, id, style, conf, subs, pos, width]: conf is 1    *)
(* for a String with WC or CC, subs is <<SUBS_TYPE, SUBS_CONTENT>>.  An    *)
(* empty sequence stands for what is absent.                               *)
(***************************************************************************)
EXTENDS Alignment, Texts

CONSTANTS
    SourceLines,     \* [children, hpos, width]: the TextLines of the sources
    Corrections(_),  \* texts a producer may have got accepted for a text
    Joined,          \* the word a broken word and its rest make
    Hyphen,          \* "-"
    SoftHyphen       \* U+00AD, read as Hyphen

ASSUME RewriterAssumption == Hyphen \in Marks /\ SoftHyphen \in Marks /\ Hyphen # SoftHyphen

VARIABLES
    children,        \* of the TextLine, as they are now
    original,        \* the TextLine as parsed
    manifest,        \* its LineManifest: role, explicit flags, subs
    joins,           \* its links: [back, on] -> "free", "linked", "cut"
    decided,         \* its decision
    path, passes,    \* the rewriter's path, and how often it ran
    losses, moved    \* what the first pass reported

rewriteVars == <<children, original, manifest, joins, decided, path, passes, losses, moved>>
idle == UNCHANGED alignVars

Absent == <<>>
NoLoss == [style |-> 0, subs |-> 0, hyp |-> 0, conf |-> 0]

Tagged(kids, tag) == SelectSeq(kids, LAMBDA c : c.tag = tag)
Strings(kids) == Tagged(kids, "String")
CountIf(seq, Test(_)) == Cardinality({k \in DOMAIN seq : Test(seq[k])})
SubsType(s) == IF s.subs = Absent THEN "none" ELSE s.subs[1]

-----------------------------------------------------------------------------
(* Reading a line. *)

(* A mark the last String already shows is not shown twice; a soft hyphen  *)
(* does not count as shown.                                                *)
reconstruct_textline(kids) ==
    FoldLeft(LAMBDA text, c :
                CASE c.tag = "String" -> text \o c.text
                  [] c.tag = "SP"     -> Append(text, " ")
                  [] c.tag = "HYP"    ->
                       IF text # <<>> /\ Last(text) \in Marks \ {SoftHyphen} THEN text
                       ELSE text \o (IF c.text = <<SoftHyphen>> THEN <<Hyphen>> ELSE c.text),
             <<>>, kids)

ocr_text == Strip(reconstruct_textline(original.children))

(* Roles from the markup, or from a mark right after a letter. *)
Parsed(kids) ==
    LET strings == Strings(kids)
        part2 == strings # <<>> /\ SubsType(strings[1]) = "HypPart2"
        hyp == kids # <<>> /\ Last(kids).tag = "HYP"
        explicit == hyp \/ (strings # <<>> /\ SubsType(Last(strings)) = "HypPart1")
        part1 == explicit \/ BreaksAWord(Strip(reconstruct_textline(kids)))
        backward == IF part2 THEN strings[1].subs[2] ELSE Absent
        forward == IF explicit /\ strings # <<>> /\ Last(strings).subs # Absent
                   THEN Last(strings).subs[2] ELSE Absent
    IN [role |-> IF part1 /\ part2 THEN "BOTH" ELSE IF part2 THEN "PART2"
                 ELSE IF part1 THEN "PART1" ELSE "NONE",
        explicit |-> part2 \/ explicit,
        subs |-> IF part2 THEN backward ELSE forward,
        fwdExplicit |-> part1 /\ part2 /\ explicit,
        fwdSubs |-> IF part1 /\ part2 THEN forward ELSE Absent]

Known(word, other) == IF word # Absent THEN word ELSE other

-----------------------------------------------------------------------------
(* Linking (core/pairing.py) and severing (core/units.py). *)

SetUpFrame == UNCHANGED <<children, original, decided, path, passes, losses, moved>> /\ idle

(* The line above continues onto this one. *)
LinkBack ==
    /\ path = "none" /\ joins.back = "free" /\ joins.on = "free"
    /\ joins' = [joins EXCEPT !.back = "linked"]
    /\ \E explicit \in BOOLEAN, word \in {Absent, Joined} :
        manifest' =
            CASE manifest.role = "PART1" ->
                   [role |-> "BOTH", explicit |-> explicit, subs |-> word,
                    fwdExplicit |-> manifest.explicit, fwdSubs |-> manifest.subs]
              [] manifest.role = "NONE" ->
                   [manifest EXCEPT !.role = "PART2", !.explicit = explicit, !.subs = word]
              [] OTHER -> [manifest EXCEPT !.subs = Known(word, manifest.subs)]
    /\ SetUpFrame

(* This line continues onto the line below. *)
LinkOn ==
    /\ path = "none" /\ joins.on = "free" /\ manifest.role \in {"PART1", "BOTH"}
    /\ joins' = [joins EXCEPT !.on = "linked"]
    /\ \E word \in {Absent, Joined} :
        manifest' = IF manifest.role = "BOTH"
                    THEN [manifest EXCEPT !.fwdSubs = Known(manifest.fwdSubs, word)]
                    ELSE [manifest EXCEPT !.subs = Known(manifest.subs, word)]
    /\ SetUpFrame

SeverOn ==
    /\ path = "none" /\ joins.on = "linked"
    /\ joins' = [joins EXCEPT !.on = "cut"]
    /\ manifest' = IF manifest.role = "BOTH"
                   THEN [manifest EXCEPT !.role = "PART2", !.fwdSubs = Absent]
                   ELSE [manifest EXCEPT !.role = "NONE", !.subs = Absent]
    /\ SetUpFrame

SeverBack ==
    /\ path = "none" /\ joins.back = "linked"
    /\ joins' = [joins EXCEPT !.back = "cut"]
    /\ manifest' = IF manifest.role = "BOTH"
                   THEN [manifest EXCEPT !.role = "PART1", !.subs = manifest.fwdSubs,
                            !.explicit = manifest.fwdExplicit, !.fwdSubs = Absent]
                   ELSE [manifest EXCEPT !.role = "NONE", !.subs = Absent]
    /\ SetUpFrame

(* The source text, or a correction that keeps the mark of a line that     *)
(* opens a word.                                                           *)
Decide ==
    /\ path = "none"
    /\ path' = "decided"
    /\ decided' \in {ocr_text} \cup
          {preserve_break_char(ocr_text, t) : t \in
              {c \in Corrections(ocr_text) :
                  manifest.role \in {"PART1", "BOTH"} /\ EndsWithMark(ocr_text) => EndsWithMark(c)}}
    /\ UNCHANGED <<children, original, manifest, joins, passes, losses, moved>> /\ idle

-----------------------------------------------------------------------------
(* SUBS: what the hyphen state asks for, and where. *)

(* Faulty: the backward flag, whichever break is asked about. *)
forward_break_is_explicit_Backward == manifest.explicit

forward_break_is_explicit ==
    IF manifest.role = "BOTH" THEN manifest.fwdExplicit ELSE manifest.explicit

Subs(type, explicit, word) == IF explicit /\ word # Absent THEN <<type, word>> ELSE Absent

desired_subs ==
    CASE manifest.role = "PART1" -> Subs("HypPart1", manifest.explicit, manifest.subs)
      [] manifest.role \in {"PART2", "BOTH"} -> Subs("HypPart2", manifest.explicit, manifest.subs)
      [] OTHER -> Absent

desired_forward_subs ==
    IF manifest.role = "BOTH" THEN Subs("HypPart1", manifest.fwdExplicit, manifest.fwdSubs) ELSE Absent

LastString(kids) == Max({k \in DOMAIN kids : kids[k].tag = "String"})

(* The index of the String to write, in a set of at most one. *)
subs_target(kids) ==
    LET strings == {k \in DOMAIN kids : kids[k].tag = "String"}
    IN IF strings = {} \/ manifest.role = "NONE" THEN {}
       ELSE IF manifest.role = "PART1" THEN {Max(strings)} ELSE {Min(strings)}

(* Faulty: the last String, also when it is the first. *)
forward_subs_target_AnyLast(kids) ==
    {k \in DOMAIN kids : manifest.role = "BOTH" /\ kids[k].tag = "String" /\ k = LastString(kids)}

(* A line of one String has no place for the word it opens. *)
forward_subs_target(kids) ==
    {k \in DOMAIN kids : manifest.role = "BOTH" /\ kids[k].tag = "String" /\ k = LastString(kids)}
        \ subs_target(kids)

SubsNeedUpdate(kids) ==
    /\ manifest.role # "NONE"
    /\ \/ subs_target(kids) = {} /\ desired_subs # Absent
       \/ \E k \in subs_target(kids) : kids[k].subs # desired_subs
       \/ \E k \in forward_subs_target(kids) : kids[k].subs # desired_forward_subs

ApplySubs(kids) ==
    [k \in DOMAIN kids |->
        IF k \in forward_subs_target(kids) THEN [kids[k] EXCEPT !.subs = desired_forward_subs]
        ELSE IF k \in subs_target(kids) THEN [kids[k] EXCEPT !.subs = desired_subs]
        ELSE kids[k]]

-----------------------------------------------------------------------------
(* What to write. *)

(* An explicit break is carried by its HYP: one mark is dropped from the   *)
(* text, and a space that stood before it is remembered.                   *)
CarriesBreak == manifest.role \in {"PART1", "BOTH"} /\ forward_break_is_explicit

WriteText ==
    LET s == RStrip(decided, White)
    IN IF CarriesBreak /\ EndsWithMark(decided) THEN Front(s) ELSE decided

BreakSpace == CarriesBreak /\ WriteText # RStrip(WriteText, White)

NewWords == SplitWords(WriteText)
OldWords == [k \in DOMAIN Strings(children) |-> Strings(children)[k].text]

TextUnchanged == Strip(reconstruct_textline(children)) = Strip(decided)

(* A word in a box drawn for another: the same letters cut elsewhere, or a *)
(* length no correction explains.                                          *)
WordBoundaryMoved ==
    /\ OldWords # NewWords
    /\ \/ FlattenSeq(OldWords) = FlattenSeq(NewWords)
       \/ \E k \in DOMAIN OldWords :
            LET grown == Len(NewWords[k]) - Len(OldWords[k])
                slack == Max({1, Len(OldWords[k]) \div 2})
            IN grown > slack \/ -grown > slack

FitsInPlace == Len(NewWords) = Len(OldWords) /\ ~WordBoundaryMoved

ConfidenceLoss(before, after) ==
    LET count(kids) == CountIf(Strings(kids), LAMBDA s : s.conf = 1)
    IN IF count(after) < count(before) THEN 1 ELSE 0

(* One pass over the line: the first one reports. *)
Written(how, kids, lost, suspected) ==
    /\ path' = how /\ children' = kids /\ passes' = passes + 1
    /\ losses' = IF passes = 0
                 THEN [lost EXCEPT !.conf = ConfidenceLoss(children, kids)] ELSE losses
    /\ moved' = (moved \/ suspected)
    /\ UNCHANGED <<original, manifest, joins, decided>>

AtRewrite == path = "decided"

LeaveUntouched ==
    /\ AtRewrite /\ TextUnchanged /\ ~SubsNeedUpdate(children)
    /\ Written("untouched", children, NoLoss, FALSE) /\ idle

UpdateSubs ==
    /\ AtRewrite /\ TextUnchanged /\ SubsNeedUpdate(children)
    /\ Written("subs_only", ApplySubs(children), NoLoss, FALSE) /\ idle

UpdateInPlace ==
    /\ AtRewrite /\ ~TextUnchanged /\ FitsInPlace
    /\ LET nth(k) == Cardinality({c \in 1..k : children[c].tag = "String"})
           updated == [k \in DOMAIN children |->
               IF children[k].tag # "String" \/ children[k].text = NewWords[nth(k)] THEN children[k]
               ELSE [children[k] EXCEPT !.text = NewWords[nth(k)], !.conf = 0]]
       IN Written("fast_path", ApplySubs(updated), NoLoss, FALSE)
    /\ idle

-----------------------------------------------------------------------------
(* Rebuilding the line. *)

IsPart1Like == manifest.role \in {"PART1", "BOTH"} /\ manifest.explicit

OldHyps == Tagged(children, "HYP")
KeptHyps == IF IsPart1Like \/ manifest.role = "PART2" THEN <<>> ELSE OldHyps

(* The end of the line kept for the mark, and for the space before it. *)
BreakSlot ==
    LET wanted == IF OldHyps # <<>> /\ OldHyps[1].width > 0 THEN OldHyps[1].width
                  ELSE Max({1, Round(original.width * 4, 100)})
    IN Min({Max({IF BreakSpace THEN 2 ELSE 1, wanted}), Max({1, original.width - 1})})

TextWidth == IF IsPart1Like THEN Max({1, original.width - BreakSlot}) ELSE original.width

(* Words and the spaces between them share the width by weight: 5 a        *)
(* character, 3 a space.  No token is narrower than 1; the widest pay.     *)
Slots == 2 * m - 1
Weight(k) == IF k % 2 = 0 THEN 3 ELSE 5 * Len(target[(k + 1) \div 2])
Total(k) == MapThenSumSet(Weight, 1..k)

TokenWidths(width) ==
    LET edge == [k \in 0..Slots |-> Round(Total(k) * width, Total(Slots))]
        share == [k \in 1..Slots |-> edge[k] - edge[k - 1]]
        owed == MapThenSumSet(LAMBDA k : Max({0, 1 - share[k]}), 1..Slots)
        donor(w) == Min({k \in 1..Slots : \A l \in 1..Slots : w[l] <= w[k]})
        pay(acc, k) ==
            LET d == donor(acc.widths)
                take == Min({acc.owed, acc.widths[d] - 1})
            IN [widths |-> [acc.widths EXCEPT ![d] = @ - take], owed |-> acc.owed - take]
    IN FoldLeft(pay, [widths |-> [k \in 1..Slots |-> Max({1, share[k]})], owed |-> owed],
                [k \in 1..Slots |-> k]).widths

SlotPos(widths, k) == original.hpos + MapThenSumSet(LAMBDA l : widths[l], 1..(k - 1))

MatchedSources == {p[1] : p \in Matched}

(* Faulty: the String that sat at the same place. *)
Recycled_ByPosition(w) == IF w \in DOMAIN Strings(children) THEN {Strings(children)[w]} ELSE {}

(* Identity follows the word: the String the aligner matched. *)
Recycled(w) == {Strings(children)[p[1]] : p \in {q \in Matched : q[2] = w}}

(* IDs, word by word: the matched String's, or the first free one of the   *)
(* form line_STR_n, line_STR_n_2, ...  IDs to come are taken from the      *)
(* start.                                                                  *)
FreeId(w, used) ==
    CHOOSE id \in {<<w - 1, suffix>> : suffix \in 1..(Cardinality(used) + 1)} :
        /\ id \notin used
        /\ \A suffix \in 1..(id[2] - 1) : <<w - 1, suffix>> \in used

RecycledIds == {Strings(children)[k].id : k \in MatchedSources} \ {Absent}

NewIds ==
    FoldLeft(LAMBDA ids, w :
                Append(ids, IF \E s \in Recycled(w) : s.id # Absent
                            THEN (CHOOSE s \in Recycled(w) : TRUE).id
                            ELSE FreeId(w, RecycledIds \cup Range(ids))),
             <<>>, [w \in 1..m |-> w])

Child(tag, text, pos, width) ==
    [tag |-> tag, text |-> text, id |-> Absent, style |-> 0, conf |-> 0, subs |-> Absent,
     pos |-> pos, width |-> width]

Token(k, widths, ids) ==
    IF k % 2 = 0 THEN Child("SP", <<>>, SlotPos(widths, k), widths[k])
    ELSE LET w == (k + 1) \div 2
         IN [Child("String", target[w], SlotPos(widths, k), widths[k]) EXCEPT
                !.id = ids[w],
                !.style = IF \E s \in Recycled(w) : s.style = 1 THEN 1 ELSE 0]

(* Faulty: the mark keeps the box it had. *)
Break_StaleBox(pos, slot, space) ==
    IF OldHyps = <<>> THEN <<Child("HYP", <<Hyphen>>, pos, slot)>> ELSE <<OldHyps[1]>>

(* The mark, after the space it was decided with; its look is the source's.*)
Break(pos, slot, space) ==
    LET gap == IF space /\ slot >= 2 THEN Max({1, slot \div 3}) ELSE 0
        look == IF OldHyps = <<>> THEN Child("HYP", <<Hyphen>>, 0, 0) ELSE OldHyps[1]
    IN (IF gap = 0 THEN <<>> ELSE <<Child("SP", <<>>, pos, gap)>>)
       \o <<[look EXCEPT !.pos = pos + gap, !.width = slot - gap]>>

(* SUBS other than the hyphen state's, such as an abbreviation. *)
Unwritable(s) ==
    SubsType(s) \notin {"none"} \cup {d[1] : d \in {desired_subs, desired_forward_subs} \ {Absent}}

(* Faulty: as many styles go as there are words fewer. *)
RebuildLosses_ByCount(matched) ==
    [NoLoss EXCEPT
        !.style = Max({0, Len(OldWords) - Len(NewWords)}),
        !.subs = CountIf(Strings(children), Unwritable),
        !.hyp = IF manifest.role = "PART2" THEN Len(OldHyps) ELSE 0]

RebuildLosses(matched) ==
    [NoLoss EXCEPT
        !.style = Cardinality({k \in DOMAIN Strings(children) \ matched : Strings(children)[k].style = 1}),
        !.subs = CountIf(Strings(children), Unwritable),
        !.hyp = IF manifest.role = "PART2" THEN Len(OldHyps) ELSE 0]

(* Nothing left to write but the mark. *)
RebuildEmpty ==
    /\ AtRewrite /\ ~TextUnchanged /\ ~FitsInPlace /\ NewWords = <<>>
    /\ LET rest == IF IsPart1Like THEN Break(original.hpos + TextWidth, BreakSlot, FALSE) ELSE KeptHyps
       IN Written("slow_path", rest, RebuildLosses({}), FALSE)
    /\ idle

(* The aligner's next call; it keeps nothing of the last one. *)
CallAligner(from, to) ==
    /\ source' = from /\ target' = to /\ band' = NoBand
    /\ rows' = [r \in {} |-> <<>>] /\ i' = Len(from) /\ j' = Len(to)
    /\ pairs' = <<>> /\ exhausted' = FALSE /\ stage' = "fill" /\ ops' = {}

AlignWords ==
    /\ AtRewrite /\ ~TextUnchanged /\ ~FitsInPlace /\ NewWords # <<>>
    /\ path' = "aligning" /\ CallAligner(OldWords, NewWords)
    /\ UNCHANGED <<children, original, manifest, joins, decided, passes, losses, moved>>

Rebuild ==
    /\ path = "aligning" /\ stage = "aligned"
    /\ LET widths == TokenWidths(TextWidth)
           ids == NewIds
           body == [k \in 1..Slots |-> Token(k, widths, ids)]
           end == SlotPos(widths, Slots + 1)
           rest == IF IsPart1Like THEN Break(end, BreakSlot, BreakSpace) ELSE KeptHyps
       IN Written("slow_path", ApplySubs(body \o rest), RebuildLosses(MatchedSources), MoveSuspected)
    /\ CallAligner(<<>>, <<>>)

AlignStep ==
    /\ path = "aligning"
    /\ FillRow \/ Match \/ Delete \/ Insert \/ EndReading
    /\ UNCHANGED rewriteVars

(* The corrected file is the source of another run, which corrects nothing. *)
ReadBack ==
    /\ passes = 1 /\ path # "decided"
    /\ path' = "decided"
    /\ original' = [original EXCEPT !.children = children]
    /\ manifest' = Parsed(children)
    /\ joins' = [back |-> "free", on |-> "free"]
    /\ decided' = Strip(reconstruct_textline(children))
    /\ UNCHANGED <<children, passes, losses, moved>> /\ idle

RewriteInit ==
    /\ original \in SourceLines
    /\ children = original.children /\ manifest = Parsed(original.children)
    /\ joins = [back |-> "free", on |-> "free"]
    /\ decided = Absent /\ path = "none" /\ passes = 0 /\ losses = NoLoss /\ moved = FALSE

RewriteNext ==
    \/ LinkBack \/ LinkOn \/ SeverOn \/ SeverBack \/ Decide
    \/ LeaveUntouched \/ UpdateSubs \/ UpdateInPlace \/ RebuildEmpty
    \/ AlignWords \/ AlignStep \/ Rebuild \/ ReadBack

-----------------------------------------------------------------------------
Rewritten == path \in {"untouched", "subs_only", "fast_path", "slow_path"}

(* The break is where the writer looks for it: an explicit break of an     *)
(* opening line has a HYP, and a space before it comes or goes only on a   *)
(* line rebuilt with its break; a HYP a line no longer opens with (its     *)
(* link was severed) still has its mark in the decision.                   *)
SpacedBreak(text) == LET s == RStrip(text, White) IN Len(s) > 1 /\ s[Len(s) - 1] \in White

BreakHasItsHyp ==
    IF manifest.role \in {"PART1", "BOTH"}
    THEN forward_break_is_explicit =>
            /\ Tagged(original.children, "HYP") # <<>>
            /\ path = "fast_path" => (SpacedBreak(decided) <=> SpacedBreak(ocr_text))
            /\ path = "slow_path" /\ SpacedBreak(decided) => IsPart1Like
    ELSE Tagged(original.children, "HYP") # <<>> =>
            EndsWithMark(decided) /\ (path = "fast_path" => ~SpacedBreak(ocr_text))

(* The rewritten line reads as it was decided, word for word, along every  *)
(* path, whichever of the text and the HYP shows the mark: otherwise       *)
(* _verify_projection refuses the whole file.                              *)
ReadsAsDecided ==
    Rewritten /\ BreakHasItsHyp =>
        SplitWords(reconstruct_textline(children)) = SplitWords(decided)

(* A rebuilt line is tiled by its children: each starts where the one      *)
(* before it ends, none is empty, and the last one ends with the line      *)
(* ("the children still tile the line exactly").                           *)
ChildrenTile ==
    (path = "slow_path" /\ NewWords # <<>> /\ TextWidth >= 2 * Len(NewWords) - 1
     /\ (Tagged(original.children, "HYP") = <<>> \/ IsPart1Like \/ manifest.role = "PART2"))
        => /\ children[1].pos = original.hpos
           /\ \A k \in DOMAIN children :
                /\ children[k].width >= 1
                /\ children[k].pos + children[k].width
                     = IF k = Len(children) THEN original.hpos + original.width
                       ELSE children[k + 1].pos

(* No two Strings share an ID, and on a rebuilt line a word the correction *)
(* kept keeps its ID and style, whatever came or went before it ("an       *)
(* inserted word must not shift every following word onto the wrong source *)
(* ID").                                                                   *)
IdentityFollowsWords ==
    Rewritten =>
        LET new == Strings(children)
            old == Strings(original.children)
            kept == {p \in (DOMAIN old) \X (DOMAIN new) : old[p[1]].text = new[p[2]].text}
            apart(seq) == \A k, l \in DOMAIN seq : k # l => Similarity[seq[k].text, seq[l].text] = 0
        IN /\ \A k, l \in DOMAIN new : new[k].id = new[l].id /\ k # l => new[k].id = Absent
           /\ (path = "slow_path" /\ apart(old) /\ apart(new) /\ \A p, q \in kept : p[1] < q[1] => p[2] < q[2])
                => \A p \in kept : /\ old[p[1]].id # Absent => new[p[2]].id = old[p[1]].id
                                   /\ new[p[2]].style = old[p[1]].style

(* What the report says a line lost is what its markup lost, no less and   *)
(* no more: styles, HYP elements, confidence, and on a rebuilt line SUBS,  *)
(* but for a doubly broken line left with one String.                      *)
LossesExact ==
    (passes = 1 /\ Rewritten) =>
        LET old == Strings(original.children)
            new == Strings(children)
            lost(Test(_)) == CountIf(old, Test) - CountIf(new, Test)
            lostSubs(type) == Max({0, lost(LAMBDA s : SubsType(s) = type)})
        IN /\ losses.style = lost(LAMBDA s : s.style = 1)
           /\ losses.hyp = Max({0, Len(Tagged(original.children, "HYP")) - Len(Tagged(children, "HYP"))})
           /\ losses.conf = 1 <=> lost(LAMBDA s : s.conf = 1) > 0
           /\ path = "slow_path" /\ Len(new) >= (IF manifest.role = "BOTH" THEN 2 ELSE 1) =>
                losses.subs = lostSubs("HypPart1") + lostSubs("HypPart2") + lostSubs("Abbreviation")

(* The last String of a line that opens a word has no SUBS but the break's. *)
(* Any other kind is read as the word the break makes, and written back    *)
(* as HypPart1, or removed when the break is only a mark in the text.      *)
BreakOwnsItsSubs ==
    LET strings == Strings(original.children)
    IN manifest.role \in {"PART1", "BOTH"} /\ strings # <<>> => SubsType(Last(strings)) # "Abbreviation"

(* A line with nothing to correct is left alone, byte for byte: its own    *)
(* reading as its decision never rewrites it, not even when this rewriter  *)
(* wrote it ("byte-parity on an identity correction").                     *)
SettlesAtOnce ==
    (/\ Rewritten /\ decided = ocr_text /\ BreakOwnsItsSubs
     /\ joins.back = "free" /\ joins.on = "free")
        => path = "untouched" /\ children = original.children
=============================================================================
