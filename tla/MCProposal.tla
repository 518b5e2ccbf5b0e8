---------------------------- MODULE MCProposal ----------------------------
(* A broken word over two lines, one whose first half already reads as the *)
(* whole word, and a plain line followed by a blank one.                   *)
EXTENDS Proposal

TwoLines == {1, 2}
Doc(first, second, roles, subs, pairs) ==
    [source |-> <<first, second>>, role |-> roles, subs |-> <<subs, {}>>, pairs |-> pairs]

Broken == Doc(<<"a", "b", "-">>, <<"c", " ", "a">>, <<"PART1", "PART2">>, {<<"a", "b", "c">>}, {<<1, 2>>})
Degenerate == Doc(<<"a", "a", "-">>, <<"a">>, <<"PART1", "PART2">>, {<<"a", "a">>}, {<<1, 2>>})
Plain == Doc(<<"a", "b", "a">>, <<>>, <<"NONE", "NONE">>, {}, {})

ThreeDocuments == {Broken, Degenerate, Plain}

RangeOf(s, e) == [kind |-> "range", start |-> s, end |-> e]
MatchOf(t, k) == [kind |-> "match", match |-> t, occurrence |-> k]

Anchors == {RangeOf(0, 2), RangeOf(1, 1), RangeOf(1, 2), RangeOf(2, 3),
            MatchOf(<<"a">>, Unspecified), MatchOf(<<"a">>, 1)}
Replacements == {<<>>, <<"c">>, <<"c", "=">>}

(* Line 3 is a line nobody sent. *)
Proposed(d) ==
    {[line |-> l, anchor |-> a, text |-> t] : l \in Lines, a \in Anchors, t \in Replacements}
    \cup {[line |-> l, anchor |-> WholeLine, text |-> t] :
             l \in Lines, t \in {d.source[1], d.source[2], <<"c", "=">>, <<"a", "b", "c">>,
                                 <<" ">>, <<"a", "newline">>}}
    \cup {[line |-> 3, anchor |-> WholeLine, text |-> <<"a">>]}
=============================================================================
