------------------------------- MODULE Texts --------------------------------
(***************************************************************************)
(* Line texts and their break marks (core/pairing.py, and Python's strip   *)
(* and split).  A text is a sequence of characters.                        *)
(***************************************************************************)
EXTENDS Integers, Sequences, FiniteSets, FiniteSetsExt, SequencesExt

CONSTANT Marks          \* HYPHEN_CHARS

White == {" ", "newline"}

(* The n-th of some places of a sequence. *)
Nth(places, n) == CHOOSE p \in places : Cardinality({q \in places : q <= p}) = n

RStrip(text, chars) == SubSeq(text, 1, Max({0} \cup {k \in DOMAIN text : text[k] \notin chars}))
Strip(text) == Reverse(RStrip(Reverse(RStrip(text, White)), White))
BlankText(text) == Strip(text) = <<>>

(* Words are counted by their first characters. *)
WordStarts(text) ==
    {k \in DOMAIN text : text[k] \notin White /\ (k = 1 \/ text[k - 1] \in White)}
WordEnd(text, k) ==
    Max({j \in k..Len(text) : \A i \in k..j : text[i] \notin White})
SplitWords(text) ==
    LET start(w) == Nth(WordStarts(text), w)
    IN [w \in 1..Cardinality(WordStarts(text)) |-> SubSeq(text, start(w), WordEnd(text, start(w)))]

EndsWithMark(text) ==
    LET stripped == RStrip(text, White)
    IN stripped # <<>> /\ Last(stripped) \in Marks

BeforeMark(text) == RStrip(RStrip(text, White), Marks)

(* A mark right after a letter breaks a word; every character that is      *)
(* neither a mark nor white is a letter here.                              *)
BreaksAWord(text) ==
    LET s == RStrip(text, White)
    IN Len(s) > 1 /\ Last(s) \in Marks /\ s[Len(s) - 1] \notin Marks \cup White

(* The source's mark, whichever one the correction ends in. *)
preserve_break_char(source, text) ==
    IF BreaksAWord(source) /\ EndsWithMark(text)
    THEN [text EXCEPT ![Len(RStrip(text, White))] = Last(RStrip(source, White))]
    ELSE text
=============================================================================
