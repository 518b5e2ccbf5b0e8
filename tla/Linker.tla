------------------------------- MODULE Linker -------------------------------
(***************************************************************************)
(* How hyphenated lines are linked (core/pairing.py), as operators: one    *)
(* iteration of each linking loop, and the links a whole parse ends with.  *)
(***************************************************************************)
EXTENDS HyphenUnits, SequencesExt

CONSTANTS
    Blank,   \* lines whose text is empty
    Refused  \* candidate pairs PairingPolicy.can_pair rejects

ASSUME LinkerAssumption == Blank \subseteq Lines /\ Refused \subseteq Lines \X Lines

Substantive(p) == {l \in Lines \ Blank : PageOf[l] = p}
Pages == {PageOf[l] : l \in Lines}
Unlinked(roles) ==
    [role |-> roles, pair |-> [l \in Lines |-> NoLine], forward |-> [l \in Lines |-> NoLine]]

-----------------------------------------------------------------------------
(* Faulty: a middle line is not promoted to BOTH; the head's own           *)
(* continuation is reset.                                                  *)
LinkPair_NoPromotion(lk, a, b) ==
    IF lk.role[a] \notin {"PART1", "BOTH"} THEN lk
    ELSE [lk EXCEPT !.role[b] = IF @ = "NONE" THEN "PART2" ELSE @, !.pair[a] = b, !.pair[b] = a]
LinkPair_ResetsHead(lk, a, b) ==
    IF lk.role[a] = "PART1" THEN [lk EXCEPT !.pair[a] = b, !.pair[b] = a, !.forward[b] = NoLine]
    ELSE IF lk.role[a] = "BOTH" THEN [lk EXCEPT !.forward[a] = b, !.pair[b] = a] ELSE lk

(* One iteration of link_hyphen_pairs: line a and the next candidate b. *)
LinkPair(lk, a, b) ==
    IF lk.role[a] \notin {"PART1", "BOTH"} \/ <<a, b>> \in Refused THEN lk
    ELSE [role |-> [lk.role EXCEPT ![b] = CASE @ = "PART1" -> "BOTH"
                                            [] @ = "NONE"  -> "PART2"
                                            [] OTHER       -> @],
          pair |-> IF lk.role[a] = "BOTH" THEN [lk.pair EXCEPT ![b] = a]
                   ELSE [lk.pair EXCEPT ![a] = b, ![b] = a],
          forward |-> IF lk.role[a] = "BOTH" THEN [lk.forward EXCEPT ![a] = b]
                      ELSE lk.forward]

(* Faulty: a blank line as partner. *)
LinkInPage_BlankPartner(lk, l) ==
    IF l \in Blank \/ l = N \/ PageOf[l + 1] # PageOf[l] THEN lk ELSE LinkPair(lk, l, l + 1)

(* The in-page iteration for line l: its candidate is the next line of its *)
(* page that carries text.                                                 *)
LinkInPage(lk, l) ==
    LET after == {m \in Substantive(PageOf[l]) : m > l}
    IN IF l \in Blank \/ after = {} THEN lk ELSE LinkPair(lk, l, Min(after))

(* The seam below page p: its last line and the first line of the next     *)
(* page with text, linked only when the last line still lacks its forward  *)
(* link.                                                                   *)
LinkSeam(lk, p) ==
    LET later == {m \in Lines \ Blank : PageOf[m] > p}
        last  == Max(Substantive(p))
    IN IF Substantive(p) = {} \/ later = {} THEN lk
       ELSE IF \/ lk.role[last] = "PART1" /\ lk.pair[last] = NoLine
               \/ lk.role[last] = "BOTH" /\ lk.forward[last] = NoLine
       THEN LinkPair(lk, last, Min(later)) ELSE lk

(* The links a parser hands to the run: both passes, end to end. *)
ParsedLinks(roles) ==
    FoldLeft(LinkSeam, FoldLeft(LinkInPage, Unlinked(roles), [l \in Lines |-> l]),
             SetToSortSeq(Pages, <))
=============================================================================
