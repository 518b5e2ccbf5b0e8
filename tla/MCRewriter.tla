---------------------------- MODULE MCRewriter -----------------------------
(* Alignments of short sequences, in every corridor; and lines of one to   *)
(* three Strings with every kind of break, wide and narrow.                *)
EXTENDS Rewriter

A == <<"a">>
AB == <<"a", "b">>
C == <<"c">>
CM == <<"c", "-">>
FourTokens == {A, AB, C, CM}
AllTokens == FourTokens \cup {<<"-">>, <<"a", "-">>, <<"a", "b", "-">>}
AskedBands == {NoBand, 0, 1}

(* Halves: the same token, tokens that share a character, and the others. *)
Likeness ==
    [p \in AllTokens \X AllTokens |->
        IF p[1] = p[2] THEN 2 ELSE IF Range(p[1]) \cap Range(p[2]) # {} THEN 1 ELSE 0]

TheWord == <<"c", "a">>

(* IDs clash with the ones a rewrite makes up; the first String is styled, *)
(* the last has confidences.                                               *)
Kids(words, first, last, tail) ==
    LET slots == 2 * Len(words) - 1
        text(k) == words[(k + 1) \div 2]
        subs(k) == IF k = 1 /\ first # Absent THEN first ELSE IF k = slots THEN last ELSE Absent
        body == [k \in 1..slots |->
            IF k % 2 = 0 THEN Child("SP", <<>>, 3 * (k - 1), 3)
            ELSE [Child("String", text(k), 3 * (k - 1), 3) EXCEPT
                    !.id = <<(k + 1) \div 2, 1>>, !.subs = subs(k),
                    !.style = IF k = 1 THEN 1 ELSE 0, !.conf = IF k = slots THEN 1 ELSE 0]]
        hyp(text_, pos) == Child("HYP", text_, pos, 2)
    IN body \o (CASE tail = "none" -> <<>>
                  [] tail = "hyp"  -> <<hyp(<<"-">>, 3 * slots)>>
                  [] tail = "soft" -> <<hyp(<<"~">>, 3 * slots)>>
                  [] tail = "gap"  -> <<Child("SP", <<>>, 3 * slots, 1), hyp(<<"-">>, 3 * slots + 1)>>)

LineOf(words, first, last, tail, width) ==
    [children |-> Kids(words, first, last, tail), hpos |-> 1, width |-> width]

Abbreviation == <<"Abbreviation", C>>
SomeLines ==
    {LineOf(w, f, l, t, width) :
        w \in {<<AB>>, <<AB, C>>, <<A, C, AB>>}, t \in {"none", "hyp", "gap"}, width \in {6, 20},
        f \in {Absent, <<"HypPart2", TheWord>>}, l \in {Absent, <<"HypPart1", TheWord>>}}
    \cup {LineOf(<<AB, CM>>, f, l, t, 20) :
            f \in {Absent, <<"HypPart2", TheWord>>}, l \in {Absent, <<"HypPart1", TheWord>>}, t \in {"none", "hyp"}}
    \cup {LineOf(<<AB, C>>, Abbreviation, Absent, t, 20) : t \in {"none", "soft"}}
    \cup {LineOf(<<AB, C>>, Absent, Abbreviation, t, 20) : t \in {"none", "hyp"}}

Spaced(words) ==
    FoldLeft(LAMBDA text, w : IF text = <<>> THEN w ELSE text \o <<" ">> \o w, <<>>, words)

Accepted(text) ==
    {Spaced(w) \o mark : w \in SeqOf({A, AB, C}, 2) \cup {<<A, AB, C>>, <<AB, A, C>>, <<A, C, AB>>},
                         mark \in {<<>>, <<"-">>, <<" ", "-">>, <<"-", " ">>}} \ {<<>>}

NoRewrite ==
    /\ original = [children |-> <<>>, hpos |-> 0, width |-> 0]
    /\ children = <<>> /\ manifest = Parsed(<<>>) /\ joins = [back |-> "free", on |-> "free"]
    /\ decided = <<>> /\ path = "alone" /\ passes = 0 /\ losses = NoLoss /\ moved = FALSE

AloneInit == \E from, to \in SeqOf(FourTokens, MaxLength), width \in Bands : Aligning(from, to, width)
Init == (AloneInit /\ NoRewrite) \/ (RewriteInit /\ Aligning(<<>>, <<>>, NoBand))
Next == (path = "alone" /\ AlignNext /\ UNCHANGED rewriteVars) \/ RewriteNext
Spec == Init /\ [][Next]_<<alignVars, rewriteVars>>
=============================================================================
