--------------------------- MODULE PairingProofs ---------------------------
(* What the linker leaves behind, for every document and every assignment  *)
(* of roles a parser can start from.                                       *)
EXTENDS Pairing, FiniteSetTheorems, WellFoundedInduction, TLAPS

LEMMA LeastOf ==
    ASSUME NEW T \in SUBSET Nat, T # {}
    PROVE  Min(T) \in T /\ \A y \in T : Min(T) =< y
<1> DEFINE R == {p \in Nat \X Nat : p[1] < p[2]}
<1>1. IsWellFoundedOn(R, Nat)
  BY NatLessThanWellFounded DEF OpToRel
<1>2. PICK x \in T : \A y \in T : <<y, x>> \notin R
  <2> HIDE DEF R
  <2>1. T \subseteq Nat
    OBVIOUS
  <2> QED
    BY ONLY <1>1, <2>1, T # {}, WFMin
<1>3. ASSUME NEW y \in T
      PROVE  x =< y
  <2>1. x \in Nat /\ y \in Nat
    OBVIOUS
  <2>2. ~(y < x)
    <3>1. <<y, x>> \in R <=> y < x
      BY <2>1
    <3> QED
      BY <1>2, <3>1
  <2> QED
    BY <2>1, <2>2
<1> QED
  BY <1>3 DEF Min

LEMMA GreatestOf ==
    ASSUME NEW T \in SUBSET Lines, T # {}
    PROVE  Max(T) \in T /\ \A y \in T : y =< Max(T)
<1> DEFINE U == {N - x : x \in T}
<1>1. U \in SUBSET Nat /\ U # {}
  <2>1. PICK x : x \in T
    OBVIOUS
  <2>2. N - x \in U
    BY <2>1
  <2>3. \A y \in T : N - y \in Nat
    BY LayoutAssumption DEF Lines
  <2> QED
    BY <2>2, <2>3
<1>2. PICK u \in U : \A v \in U : u =< v
  <2> HIDE DEF U
  <2> QED
    BY <1>1, LeastOf
<1>3. PICK x \in T : u = N - x
  BY <1>2
<1>4. ASSUME NEW y \in T
      PROVE  x >= y
  <2>1. N - y \in U
    OBVIOUS
  <2>2. u =< N - y
    BY <1>2, <2>1
  <2> QED
    BY <1>3, <2>2, LayoutAssumption DEF Lines
<1> QED
  BY <1>4 DEF Max

-----------------------------------------------------------------------------
(* Two lines with text, one after the other but for blank lines. *)
Adjacent(a, b) ==
    /\ a \in Lines \ Blank /\ b \in Lines \ Blank
    /\ a < b
    /\ \A k \in Lines : a < k /\ k < b => k \in Blank

LEMMA AdjacentOnce ==
    ASSUME NEW a, NEW b, NEW c
    PROVE  /\ Adjacent(a, b) /\ Adjacent(a, c) => b = c
           /\ Adjacent(b, a) /\ Adjacent(c, a) => b = c
  BY DEF Adjacent, Lines

(* Links reach the next line with text, from either end; a slot that says  *)
(* nothing is empty.  Nothing here depends on the parse roles.             *)
ReachNextText(lk) ==
    /\ lk \in LinkSpace
    /\ \A l \in Lines :
          /\ forward_partner_ref(lk, l) # NoLine => Adjacent(l, forward_partner_ref(lk, l))
          /\ backward_partner_ref(lk, l) # NoLine => Adjacent(backward_partner_ref(lk, l), l)
          /\ lk.role[l] # "BOTH" => lk.forward[l] = NoLine
          /\ lk.role[l] = "NONE" => lk.pair[l] = NoLine
    /\ \A l, m \in Lines : m \in {lk.pair[l], lk.forward[l]} => lk.role[m] # "NONE"

(* What one iteration of a linking loop writes. *)
LEMMA LinkPairSlots ==
    ASSUME NEW lk \in LinkSpace, NEW a \in Lines, NEW b \in Lines, a # b,
           lk.role[a] \in {"PART1", "BOTH"}, <<a, b>> \notin Refused,
           NEW new, new = LinkPair(lk, a, b)
    PROVE  /\ new \in LinkSpace
           /\ new.role[a] = lk.role[a]
           /\ new.role[b] \in {"PART2", "BOTH"} /\ new.pair[b] = a
           /\ new.role[b] = "BOTH" <=> lk.role[b] \in {"PART1", "BOTH"}
           /\ new.forward[b] = lk.forward[b]
           /\ lk.role[a] = "PART1" => new.pair[a] = b /\ new.forward[a] = lk.forward[a]
           /\ lk.role[a] = "BOTH" => new.pair[a] = lk.pair[a] /\ new.forward[a] = b
           /\ \A l \in Lines \ {a, b} : /\ new.role[l] = lk.role[l] /\ new.pair[l] = lk.pair[l]
                                        /\ new.forward[l] = lk.forward[l]
<1>1. /\ lk.role \in [Lines -> Roles]
      /\ lk.pair \in [Lines -> Lines \cup {NoLine}]
      /\ lk.forward \in [Lines -> Lines \cup {NoLine}]
  BY DEF LinkSpace
<1>2. new = [role |-> [lk.role EXCEPT ![b] = CASE @ = "PART1" -> "BOTH"
                                               [] @ = "NONE"  -> "PART2"
                                               [] OTHER       -> @],
             pair |-> IF lk.role[a] = "BOTH" THEN [lk.pair EXCEPT ![b] = a]
                      ELSE [lk.pair EXCEPT ![a] = b, ![b] = a],
             forward |-> IF lk.role[a] = "BOTH" THEN [lk.forward EXCEPT ![a] = b]
                         ELSE lk.forward]
  BY DEF LinkPair
<1>3. new \in LinkSpace
  BY <1>1, <1>2 DEF LinkSpace, Roles
<1>4. /\ new.role[a] = lk.role[a]
      /\ new.role[b] \in {"PART2", "BOTH"} /\ new.pair[b] = a
      /\ new.role[b] = "BOTH" <=> lk.role[b] \in {"PART1", "BOTH"}
      /\ new.forward[b] = lk.forward[b]
  BY <1>1, <1>2 DEF Roles
<1>5. /\ lk.role[a] = "PART1" => new.pair[a] = b /\ new.forward[a] = lk.forward[a]
      /\ lk.role[a] = "BOTH" => new.pair[a] = lk.pair[a] /\ new.forward[a] = b
  BY <1>1, <1>2
<1>6. \A l \in Lines \ {a, b} : /\ new.role[l] = lk.role[l] /\ new.pair[l] = lk.pair[l]
                                /\ new.forward[l] = lk.forward[l]
  BY <1>1, <1>2
<1> QED
  BY <1>3, <1>4, <1>5, <1>6

LEMMA LinkPairReaches ==
    ASSUME NEW lk, ReachNextText(lk), NEW a, NEW b, Adjacent(a, b)
    PROVE  ReachNextText(LinkPair(lk, a, b))
<1>1. CASE LinkPair(lk, a, b) = lk
  BY <1>1
<1>2. CASE lk.role[a] \in {"PART1", "BOTH"} /\ <<a, b>> \notin Refused
  <2> DEFINE new == LinkPair(lk, a, b)
  <2>1. a \in Lines /\ b \in Lines /\ a # b /\ b # NoLine /\ a # NoLine
    BY DEF Adjacent, Lines, NoLine
  <2>2. lk \in LinkSpace /\ lk.role \in [Lines -> Roles]
    BY DEF ReachNextText, LinkSpace
  <2> HIDE DEF new
  <2>3. new = LinkPair(lk, a, b)
    BY DEF new
  <2>4. new \in LinkSpace
    BY <1>2, <2>1, <2>2, <2>3, LinkPairSlots
  <2>5. /\ new.role[a] = lk.role[a]
        /\ new.role[b] \in {"PART2", "BOTH"} /\ new.pair[b] = a
        /\ new.role[b] = "BOTH" <=> lk.role[b] \in {"PART1", "BOTH"}
        /\ new.forward[b] = lk.forward[b]
    BY <1>2, <2>1, <2>2, <2>3, LinkPairSlots
  <2>6. /\ lk.role[a] = "PART1" => new.pair[a] = b /\ new.forward[a] = lk.forward[a]
        /\ lk.role[a] = "BOTH" => new.pair[a] = lk.pair[a] /\ new.forward[a] = b
    BY <1>2, <2>1, <2>2, <2>3, LinkPairSlots
  <2>7. \A l \in Lines \ {a, b} : /\ new.role[l] = lk.role[l] /\ new.pair[l] = lk.pair[l]
                                  /\ new.forward[l] = lk.forward[l]
    BY <1>2, <2>1, <2>2, <2>3, LinkPairSlots
  <2>8. ASSUME NEW l \in Lines
        PROVE  /\ forward_partner_ref(new, l) # NoLine => Adjacent(l, forward_partner_ref(new, l))
               /\ backward_partner_ref(new, l) # NoLine => Adjacent(backward_partner_ref(new, l), l)
               /\ new.role[l] # "BOTH" => new.forward[l] = NoLine
               /\ new.role[l] = "NONE" => new.pair[l] = NoLine
    <3>1. CASE l = a
      BY <1>2, <2>1, <2>5, <2>6, <3>1
      DEF ReachNextText, forward_partner_ref, backward_partner_ref
    <3>2. CASE l = b
      <4>1. new.forward[b] = NoLine \/ (lk.role[b] = "BOTH" /\ Adjacent(b, new.forward[b]))
        BY <2>1, <2>5 DEF ReachNextText, forward_partner_ref
      <4>2. lk.role[b] # "BOTH" => lk.forward[b] = NoLine
        BY <2>1 DEF ReachNextText
      <4> QED
        BY <2>1, <2>2, <2>5, <3>2, <4>1, <4>2
        DEF forward_partner_ref, backward_partner_ref, Roles
    <3>3. CASE l \notin {a, b}
      BY <2>7, <3>3 DEF ReachNextText, forward_partner_ref, backward_partner_ref
    <3> QED
      BY <3>1, <3>2, <3>3
  <2>9. ASSUME NEW l \in Lines, NEW m \in Lines, m \in {new.pair[l], new.forward[l]}
        PROVE  new.role[m] # "NONE"
    <3>1. m \in {a, b} \/ m \in {lk.pair[l], lk.forward[l]}
      BY <1>2, <2>5, <2>6, <2>7, <2>9
    <3>2. m \in {lk.pair[l], lk.forward[l]} => lk.role[m] # "NONE"
      BY DEF ReachNextText
    <3> QED
      BY <1>2, <2>5, <2>7, <3>1, <3>2
  <2> QED
    BY <2>4, <2>8, <2>9 DEF ReachNextText, new
<1> QED
  BY <1>1, <1>2 DEF LinkPair

(* The two loops only ever pair adjacent lines. *)
LEMMA InPageCandidate ==
    ASSUME NEW l \in Lines \ Blank,
           {m \in Substantive(PageOf[l]) : m > l} # {}
    PROVE  Adjacent(l, Min({m \in Substantive(PageOf[l]) : m > l}))
<1> DEFINE after == {m \in Substantive(PageOf[l]) : m > l}
<1>1. after \in SUBSET Nat /\ after # {}
  BY DEF Substantive, Lines
<1>2. Min(after) \in after /\ \A k \in after : Min(after) =< k
  <2> HIDE DEF after
  <2> QED
    BY <1>1, LeastOf
<1>3. PICK b : b = Min(after)
  OBVIOUS
<1>4. /\ b \in Lines \ Blank /\ PageOf[b] = PageOf[l] /\ l < b
      /\ \A k \in Lines \ Blank : PageOf[k] = PageOf[l] /\ l < k => b =< k
  BY <1>2, <1>3 DEF Substantive, Lines
<1>5. ASSUME NEW k \in Lines, l < k, k < b, k \notin Blank
      PROVE  FALSE
  <2>1. PageOf[l] =< PageOf[k] /\ PageOf[k] =< PageOf[b]
    BY <1>4, <1>5, LayoutAssumption
  <2>2. PageOf[k] = PageOf[l]
    BY <1>4, <2>1, LayoutAssumption
  <2>3. b =< k
    BY <1>4, <1>5, <2>2
  <2> QED
    BY <1>4, <1>5, <2>3 DEF Lines
<1> QED
  BY <1>3, <1>4, <1>5 DEF Adjacent

LEMMA SeamCandidate ==
    ASSUME NEW p \in Nat, Substantive(p) # {}, {m \in Lines \ Blank : PageOf[m] > p} # {}
    PROVE  /\ Adjacent(Max(Substantive(p)), Min({m \in Lines \ Blank : PageOf[m] > p}))
           /\ PageOf[Max(Substantive(p))] = p
           /\ PageOf[Min({m \in Lines \ Blank : PageOf[m] > p})] > p
<1> DEFINE later == {m \in Lines \ Blank : PageOf[m] > p}
<1>1. Substantive(p) \in SUBSET Lines
  BY DEF Substantive
<1>2. PICK a : a = Max(Substantive(p))
  OBVIOUS
<1>3. a \in Lines \ Blank /\ PageOf[a] = p /\ \A k \in Lines \ Blank : PageOf[k] = p => k =< a
  BY <1>1, <1>2, GreatestOf DEF Substantive
<1>4. PICK b : b = Min(later)
  OBVIOUS
<1>5. Min(later) \in later /\ \A k \in later : Min(later) =< k
  <2>1. later \in SUBSET Nat
    BY DEF Lines
  <2> HIDE DEF later
  <2> QED
    BY <2>1, LeastOf DEF later
<1>6. b \in Lines \ Blank /\ PageOf[b] > p /\ \A k \in Lines \ Blank : PageOf[k] > p => b =< k
  BY <1>4, <1>5
<1>7. a < b
  <2>1. ~(b < a)
    BY <1>3, <1>6, LayoutAssumption
  <2> QED
    BY <1>3, <1>6, <2>1, LayoutAssumption DEF Lines
<1>8. ASSUME NEW k \in Lines, a < k, k < b, k \notin Blank
      PROVE  FALSE
  <2>1. PageOf[k] \in Nat /\ p =< PageOf[k]
    BY <1>3, <1>8, LayoutAssumption
  <2>2. CASE PageOf[k] = p
    BY <1>3, <1>8, <2>2 DEF Lines
  <2>3. CASE PageOf[k] > p
    BY <1>6, <1>8, <2>3 DEF Lines
  <2> QED
    BY <2>1, <2>2, <2>3
<1> QED
  BY <1>2, <1>3, <1>4, <1>6, <1>7, <1>8 DEF Adjacent

-----------------------------------------------------------------------------
(* The specification's steps. *)


(* A step leaves the links alone, or links two adjacent lines the way the  *)
(* loop it belongs to does.                                                *)
LEMMA StepsLink ==
    ASSUME linkAt \in Nat, linkAt >= 1, [PairNext]_pairVars
    PROVE  /\ linkAt' \in Nat /\ linkAt' >= 1
           /\ pass' = pass => linkAt' >= linkAt
           /\ \/ UNCHANGED links
              \/ \E a, b \in Lines :
                    /\ Adjacent(a, b) /\ links' = LinkPair(links, a, b)
                    /\ \/ pass = "page" /\ linkAt = a /\ PageOf[a] = PageOf[b]
                       \/ /\ pass = "seam" /\ linkAt =< PageOf[a] /\ PageOf[a] < PageOf[b]
                          /\ linkAt' = PageOf[a] + 1
                          /\ \/ links.role[a] = "PART1" /\ links.pair[a] = NoLine
                             \/ links.role[a] = "BOTH" /\ links.forward[a] = NoLine
<1>1. CASE LinkNextLine
  <2>1. linkAt \in Lines /\ pass = "page" /\ links' = LinkInPage(links, linkAt) /\ linkAt' = linkAt + 1
    BY <1>1, LayoutAssumption DEF LinkNextLine, Lines
  <2> DEFINE after == {m \in Substantive(PageOf[linkAt]) : m > linkAt}
  <2>2. CASE linkAt \in Blank \/ after = {}
    BY <2>1, <2>2 DEF LinkInPage
  <2>3. CASE linkAt \notin Blank /\ after # {}
    <3>1. Adjacent(linkAt, Min(after))
      BY <2>1, <2>3, InPageCandidate
    <3>2. links' = LinkPair(links, linkAt, Min(after))
      BY <2>1, <2>3 DEF LinkInPage
    <3>3. PageOf[Min(after)] = PageOf[linkAt]
      <4>1. after \in SUBSET Nat
        BY DEF Substantive, Lines
      <4>2. Min(after) \in after
        <5> HIDE DEF after
        <5> QED
          BY <2>3, <4>1, LeastOf
      <4> QED
        BY <4>2 DEF Substantive
    <3>4. linkAt \in Lines /\ Min(after) \in Lines
      BY <3>1 DEF Adjacent
    <3>5. linkAt' \in Nat /\ linkAt' >= linkAt
      BY <2>1 DEF Lines
    <3> HIDE DEF after
    <3> QED
      BY <2>1, <3>1, <3>2, <3>3, <3>4, <3>5
  <2> QED
    BY <2>1, <2>2, <2>3
<1>2. CASE LinkNextSeam
  <2> DEFINE ahead == {q \in Pages : q >= linkAt}
             p == Min(ahead)
             later == {m \in Lines \ Blank : PageOf[m] > p}
             last == Max(Substantive(p))
  <2>1. p \in Nat /\ p >= linkAt
    <3>1. ahead \in SUBSET Nat /\ ahead # {}
      BY <1>2, LayoutAssumption DEF LinkNextSeam, Pages
    <3>2. Min(ahead) \in ahead
      <4> HIDE DEF ahead
      <4> QED
        BY <3>1, LeastOf
    <3> QED
      BY <3>1, <3>2
  <2>2. pass = "seam" /\ links' = LinkSeam(links, p) /\ linkAt' = p + 1
    BY <1>2 DEF LinkNextSeam
  <2> HIDE DEF p
  <2>3. CASE links' = links
    BY <2>1, <2>2, <2>3
  <2>4. CASE /\ Substantive(p) # {} /\ later # {}
             /\ \/ links.role[last] = "PART1" /\ links.pair[last] = NoLine
                \/ links.role[last] = "BOTH" /\ links.forward[last] = NoLine
    <3>1. /\ Adjacent(last, Min(later)) /\ PageOf[last] = p /\ PageOf[Min(later)] > p
      BY <2>1, <2>4, SeamCandidate
    <3>2. links' = LinkPair(links, last, Min(later))
      BY <2>2, <2>4 DEF LinkSeam
    <3> HIDE DEF last, later
    <3>3. last \in Lines /\ Min(later) \in Lines
      BY <3>1 DEF Adjacent
    <3> QED
      BY <2>1, <2>2, <2>4, <3>1, <3>2, <3>3 DEF last
  <2> QED
    BY <2>2, <2>3, <2>4 DEF LinkSeam
<1> QED
  BY <1>1, <1>2 DEF PairNext, StartSeams, EndLinking, pairVars

LinkingInv == linkAt \in Nat /\ linkAt >= 1 /\ ReachNextText(links)

LEMMA LinkingInit == PairInit => LinkingInv
<1> SUFFICES ASSUME PairInit
             PROVE  LinkingInv
  OBVIOUS
<1>1. PICK roles \in [Lines -> Roles] : links = Unlinked(roles)
  BY PairingAssumption DEF PairInit
<1> QED
  BY <1>1 DEF PairInit, LinkingInv, ReachNextText, Unlinked, LinkSpace, NoLine, Lines,
              forward_partner_ref, backward_partner_ref

LEMMA LinkingNext == LinkingInv /\ [PairNext]_pairVars => LinkingInv'
<1> SUFFICES ASSUME LinkingInv, [PairNext]_pairVars
             PROVE  LinkingInv'
  OBVIOUS
<1>1. linkAt' \in Nat /\ linkAt' >= 1
  BY StepsLink DEF LinkingInv
<1>2. links' = links \/ \E a, b \in Lines : Adjacent(a, b) /\ links' = LinkPair(links, a, b)
  BY StepsLink DEF LinkingInv
<1> QED
  BY <1>1, <1>2, LinkPairReaches DEF LinkingInv, ReachNextText

(* A broken word continues on the next line that carries text, whatever    *)
(* roles the parser read: never backwards, never over a line with text,    *)
(* never onto a blank one (link_hyphen_pairs, link_cross_page_hyphens).    *)
THEOREM WordsReachTheNextText == PairSpec => []LinksSkipOnlyBlanks
<1>1. LinkingInv => LinksSkipOnlyBlanks
  <2> SUFFICES ASSUME LinkingInv, NEW l \in Lines, forward_partner_ref(links, l) # NoLine
               PROVE  /\ forward_partner_ref(links, l) > l
                      /\ forward_partner_ref(links, l) \notin Blank
                      /\ (l + 1)..(forward_partner_ref(links, l) - 1) \subseteq Blank
    BY DEF LinksSkipOnlyBlanks
  <2>1. Adjacent(l, forward_partner_ref(links, l))
    BY DEF LinkingInv, ReachNextText
  <2>2. PICK m : m = forward_partner_ref(links, l)
    OBVIOUS
  <2>3. m \in Lines /\ m > l /\ m \notin Blank /\ \A k \in Lines : l < k /\ k < m => k \in Blank
    BY <2>1, <2>2 DEF Adjacent, Lines
  <2>4. \A k \in (l + 1)..(m - 1) : k \in Lines /\ l < k /\ k < m
    BY <2>3, LayoutAssumption DEF Lines
  <2> QED
    BY <2>2, <2>3, <2>4
<1> QED
  BY <1>1, LinkingInit, LinkingNext, PTL DEF PairSpec

(* Whatever the linker leaves is a link structure the run may be given:    *)
(* no head has two tails, no tail two heads, and a line something points   *)
(* at has a role.  It is what LinkChoicesAssumption asks of the run's      *)
(* documents, and holds for words broken at a page seam too.               *)
THEOREM LinkerLeavesWellLinked == PairSpec => [](links \in LinkSpace /\ WellLinked(links))
<1>1. LinkingInv => links \in LinkSpace /\ WellLinked(links)
  <2> SUFFICES ASSUME LinkingInv
               PROVE  links \in LinkSpace /\ WellLinked(links)
    OBVIOUS
  <2>1. ASSUME NEW l \in Lines, NEW m \in Lines,
               forward_partner_ref(links, l) = forward_partner_ref(links, m),
               forward_partner_ref(links, m) # NoLine
        PROVE  l = m
    BY <2>1, AdjacentOnce DEF LinkingInv, ReachNextText
  <2>2. ASSUME NEW l \in Lines, NEW m \in Lines,
               backward_partner_ref(links, l) = backward_partner_ref(links, m),
               backward_partner_ref(links, m) # NoLine
        PROVE  l = m
    BY <2>2, AdjacentOnce DEF LinkingInv, ReachNextText
  <2> QED
    BY <2>1, <2>2 DEF LinkingInv, ReachNextText, WellLinked
<1> QED
  BY <1>1, LinkingInit, LinkingNext, PTL DEF PairSpec

(* Read from either end, a link goes down the document: at every moment,   *)
(* also where the two ends of a word disagree (link_hyphen_pairs,          *)
(* link_cross_page_hyphens).                                               *)
THEOREM LinksGoDown ==
    PairSpec => [](\A l, m \in Lines : /\ forward_partner_ref(links, l) = m => l < m
                                       /\ backward_partner_ref(links, m) = l => l < m)
<1>1. LinkingInv => \A l, m \in Lines : /\ forward_partner_ref(links, l) = m => l < m
                                        /\ backward_partner_ref(links, m) = l => l < m
  BY DEF LinkingInv, ReachNextText, Adjacent, Lines, NoLine
<1> QED
  BY <1>1, LinkingInit, LinkingNext, PTL DEF PairSpec

(* Whatever the parse roles, a slot that is not read holds nothing, and a  *)
(* line between the ends of a link, being blank, continues no word: at     *)
(* every moment (link_hyphen_pairs, link_cross_page_hyphens).              *)
THEOREM LinksHaveShape == PairSpec => [](SlotsRead(links) /\ LinksClose(links))
<1>1. LinkingInv => SlotsRead(links)
  BY DEF LinkingInv, ReachNextText, SlotsRead
<1>2. ASSUME LinkingInv
      PROVE  LinksClose(links)
  <2>1. SUFFICES ASSUME NEW l \in Lines, NEW m \in Lines, NEW k \in Lines,
                        forward_partner_ref(links, l) = m, l < k, k < m,
                        forward_partner_ref(links, k) # NoLine
                 PROVE  FALSE
    BY DEF LinksClose
  <2>2. Adjacent(l, m) /\ Adjacent(k, forward_partner_ref(links, k))
    <3>1. m # NoLine
      BY LayoutAssumption DEF Lines, NoLine
    <3> QED
      BY <1>2, <2>1, <3>1 DEF LinkingInv, ReachNextText
  <2> QED
    BY <2>1, <2>2 DEF Adjacent
<1> QED
  BY <1>1, <1>2, LinkingInit, LinkingNext, PTL DEF PairSpec

-----------------------------------------------------------------------------
(* Agreement from both ends.  It needs a document none of whose pages opens *)
(* in the middle of a word: there a head that already continues down its   *)
(* page is paired again, with the line above the seam.                     *)
Later(l) == pass = "page" \/ (pass = "seam" /\ PageOf[l] >= linkAt)

(* What the loops have not reached is still unlinked on that side: lines   *)
(* below the page pass have no continuation, and the first line of a page  *)
(* whose seam is still to come continues nothing if it opens a word.       *)
AgreeInv ==
    /\ Symmetric(links)
    /\ \A l \in Lines : ~MidwordSeam(links.role, l)
    /\ pass = "page" => \A l \in Lines : l >= linkAt => forward_partner_ref(links, l) = NoLine
    /\ \A l \in Lines \ Blank :
          /\ links.role[l] = "PART1" /\ Later(l)
          /\ \E k \in Lines \ Blank : PageOf[k] < PageOf[l]
          /\ \A k \in Lines \ Blank : k < l => PageOf[k] < PageOf[l]
          => links.pair[l] = NoLine

(* Pairing two adjacent lines that are free on the sides that meet. *)
Free(lk, a, b) ==
    /\ forward_partner_ref(lk, a) = NoLine
    /\ lk.role[b] = "PART1" => lk.pair[b] = NoLine

LEMMA LinkPairPartners ==
    ASSUME NEW lk, ReachNextText(lk), NEW a, NEW b, Adjacent(a, b), Free(lk, a, b),
           lk.role[a] \in {"PART1", "BOTH"}, <<a, b>> \notin Refused,
           NEW new, new = LinkPair(lk, a, b)
    PROVE  /\ forward_partner_ref(new, a) = b
           /\ backward_partner_ref(new, b) = a
           /\ \A l \in Lines \ {a} : forward_partner_ref(new, l) = forward_partner_ref(lk, l)
           /\ \A l \in Lines \ {b} : backward_partner_ref(new, l) = backward_partner_ref(lk, l)
<1>1. a \in Lines /\ b \in Lines /\ a # b
  BY DEF Adjacent, Lines
<1>2. lk \in LinkSpace /\ lk.role \in [Lines -> Roles]
  BY DEF ReachNextText, LinkSpace
<1>3. /\ new.role[a] = lk.role[a]
      /\ new.role[b] \in {"PART2", "BOTH"} /\ new.pair[b] = a
      /\ new.role[b] = "BOTH" <=> lk.role[b] \in {"PART1", "BOTH"}
      /\ new.forward[b] = lk.forward[b]
  BY <1>1, <1>2, LinkPairSlots
<1>4. /\ lk.role[a] = "PART1" => new.pair[a] = b /\ new.forward[a] = lk.forward[a]
      /\ lk.role[a] = "BOTH" => new.pair[a] = lk.pair[a] /\ new.forward[a] = b
  BY <1>1, <1>2, LinkPairSlots
<1>5. \A l \in Lines \ {a, b} : /\ new.role[l] = lk.role[l] /\ new.pair[l] = lk.pair[l]
                                /\ new.forward[l] = lk.forward[l]
  BY <1>1, <1>2, LinkPairSlots
<1>6. forward_partner_ref(new, a) = b /\ backward_partner_ref(new, a) = backward_partner_ref(lk, a)
  BY <1>3, <1>4 DEF forward_partner_ref, backward_partner_ref
<1>7. forward_partner_ref(new, b) = forward_partner_ref(lk, b)
  <2>1. lk.role[b] # "BOTH" => lk.forward[b] = NoLine
    BY <1>1 DEF ReachNextText
  <2> QED
    BY <1>1, <1>2, <1>3, <2>1 DEF forward_partner_ref, Free, Roles
<1>8. backward_partner_ref(new, b) = a
  BY <1>3 DEF backward_partner_ref
<1>9. \A l \in Lines \ {a, b} :
         /\ forward_partner_ref(new, l) = forward_partner_ref(lk, l)
         /\ backward_partner_ref(new, l) = backward_partner_ref(lk, l)
  BY <1>5 DEF forward_partner_ref, backward_partner_ref
<1> QED
  BY <1>6, <1>7, <1>8, <1>9

LEMMA LinkPairAgrees ==
    ASSUME NEW lk, ReachNextText(lk), Symmetric(lk), NEW a, NEW b, Adjacent(a, b), Free(lk, a, b)
    PROVE  /\ Symmetric(LinkPair(lk, a, b))
           /\ \A l \in Lines : forward_partner_ref(lk, l) # NoLine =>
                 forward_partner_ref(LinkPair(lk, a, b), l) = forward_partner_ref(lk, l)
<1>1. CASE LinkPair(lk, a, b) = lk
  BY <1>1
<1>2. CASE lk.role[a] \in {"PART1", "BOTH"} /\ <<a, b>> \notin Refused
  <2>1. PICK new : new = LinkPair(lk, a, b)
    OBVIOUS
  <2>2. /\ forward_partner_ref(new, a) = b
        /\ backward_partner_ref(new, b) = a
        /\ \A l \in Lines \ {a} : forward_partner_ref(new, l) = forward_partner_ref(lk, l)
        /\ \A l \in Lines \ {b} : backward_partner_ref(new, l) = backward_partner_ref(lk, l)
    BY <1>2, <2>1, LinkPairPartners
  <2>3. a \in Lines /\ b \in Lines /\ a # NoLine /\ b # NoLine
    BY DEF Adjacent, Lines, NoLine
  <2>4. backward_partner_ref(lk, b) = NoLine
    <3> SUFFICES ASSUME backward_partner_ref(lk, b) # NoLine
                 PROVE  FALSE
      OBVIOUS
    <3>1. backward_partner_ref(lk, b) = a
      BY <2>3, AdjacentOnce DEF ReachNextText
    <3>2. forward_partner_ref(lk, a) = b
      BY <2>3, <3>1 DEF Symmetric
    <3> QED
      BY <2>3, <3>2 DEF Free
  <2>5. ASSUME NEW l \in Lines, NEW m \in Lines
        PROVE  forward_partner_ref(new, l) = m <=> backward_partner_ref(new, m) = l
    <3>1. forward_partner_ref(lk, l) = m <=> backward_partner_ref(lk, m) = l
      BY DEF Symmetric
    <3>2. l # NoLine /\ m # NoLine
      BY DEF Lines, NoLine
    <3>3. CASE l = a
      BY <2>2, <2>4, <3>1, <3>2, <3>3 DEF Free
    <3>4. CASE l # a
      BY <2>2, <2>4, <3>1, <3>2, <3>4
    <3> QED
      BY <3>3, <3>4
  <2> QED
    BY <2>1, <2>2, <2>5 DEF Symmetric, Free
<1> QED
  BY <1>1, <1>2 DEF LinkPair

(* The loops only pair lines that are free. *)
LEMMA LoopsPairFree ==
    ASSUME LinkingInv, AgreeInv, NEW a \in Lines, NEW b \in Lines, Adjacent(a, b),
           \/ pass = "page" /\ linkAt = a
           \/ /\ pass = "seam" /\ linkAt =< PageOf[a] /\ PageOf[a] < PageOf[b]
              /\ \/ links.role[a] = "PART1" /\ links.pair[a] = NoLine
                 \/ links.role[a] = "BOTH" /\ links.forward[a] = NoLine
    PROVE  Free(links, a, b)
<1>1. a < b /\ b \notin Blank
  BY DEF Adjacent
<1>2. CASE pass = "page" /\ linkAt = a
  <2>1. forward_partner_ref(links, a) = NoLine /\ forward_partner_ref(links, b) = NoLine
    BY <1>1, <1>2 DEF AgreeInv, Lines
  <2> QED
    BY <2>1 DEF Free, forward_partner_ref
<1>3. CASE /\ pass = "seam" /\ linkAt =< PageOf[a] /\ PageOf[a] < PageOf[b]
           /\ \/ links.role[a] = "PART1" /\ links.pair[a] = NoLine
              \/ links.role[a] = "BOTH" /\ links.forward[a] = NoLine
  <2>1. forward_partner_ref(links, a) = NoLine
    BY <1>3 DEF forward_partner_ref
  <2>2. \A k \in Lines \ Blank : k < b => PageOf[k] < PageOf[b]
    <3> SUFFICES ASSUME NEW k \in Lines \ Blank, k < b
                 PROVE  PageOf[k] < PageOf[b]
      OBVIOUS
    <3>1. ~(a < k)
      BY DEF Adjacent
    <3>2. k = a \/ k < a
      BY <3>1 DEF Lines
    <3>3. PageOf[k] =< PageOf[a]
      BY <3>2, LayoutAssumption
    <3> QED
      BY <1>3, <3>3, LayoutAssumption
  <2>3. a \in Lines \ Blank
    BY DEF Adjacent
  <2>4. PageOf[b] >= linkAt
    BY <1>3, LayoutAssumption DEF LinkingInv
  <2>5. links.role[b] = "PART1" => links.pair[b] = NoLine
    BY <1>1, <1>3, <2>2, <2>3, <2>4 DEF AgreeInv, Later
  <2> QED
    BY <2>1, <2>5 DEF Free
<1> QED
  BY <1>2, <1>3

SeamSafe == \A roles \in ParseRoles, l \in Lines : ~MidwordSeam(roles, l)

LEMMA AgreeInit == SeamSafe /\ PairInit => AgreeInv
<1> SUFFICES ASSUME SeamSafe, PairInit
             PROVE  AgreeInv
  OBVIOUS
<1>1. PICK roles \in ParseRoles : links = Unlinked(roles)
  BY DEF PairInit
<1>2. \A l \in Lines : links.pair[l] = NoLine /\ links.forward[l] = NoLine
  BY <1>1 DEF Unlinked
<1>3. \A l \in Lines : ~MidwordSeam(links.role, l)
  BY <1>1 DEF SeamSafe, Unlinked
<1>4. Symmetric(links)
  BY <1>2 DEF Symmetric, forward_partner_ref, backward_partner_ref, Lines, NoLine
<1> QED
  BY <1>2, <1>3, <1>4 DEF AgreeInv, forward_partner_ref

(* No iteration makes a line the opening half of a word. *)
LEMMA NoNewOpening ==
    ASSUME ReachNextText(links), NEW a, NEW b, Adjacent(a, b), links' = LinkPair(links, a, b),
           NEW l \in Lines, links'.role[l] = "PART1"
    PROVE  /\ links.role[l] = "PART1"
           /\ l # a => links'.pair[l] = links.pair[l]
<1>1. CASE links' = links
  BY <1>1
<1>2. CASE links.role[a] \in {"PART1", "BOTH"} /\ <<a, b>> \notin Refused
  <2>1. a \in Lines /\ b \in Lines /\ a # b /\ links \in LinkSpace
    BY DEF Adjacent, Lines, ReachNextText
  <2>2. links'.role[a] = links.role[a] /\ links'.role[b] \in {"PART2", "BOTH"}
    BY <1>2, <2>1, LinkPairSlots
  <2>3. \A k \in Lines \ {a, b} : links'.role[k] = links.role[k] /\ links'.pair[k] = links.pair[k]
    BY <1>2, <2>1, LinkPairSlots
  <2> QED
    BY <2>2, <2>3
<1> QED
  BY <1>1, <1>2 DEF LinkPair

LEMMA AgreeNext ==
    LinkingInv /\ AgreeInv /\ [PairNext]_pairVars =>
        /\ AgreeInv'
        /\ \A l \in Lines : forward_partner_ref(links, l) # NoLine =>
              forward_partner_ref(links', l) = forward_partner_ref(links, l)
<1> SUFFICES ASSUME LinkingInv, AgreeInv, [PairNext]_pairVars
             PROVE  /\ AgreeInv'
                    /\ \A l \in Lines : forward_partner_ref(links, l) # NoLine =>
                          forward_partner_ref(links', l) = forward_partner_ref(links, l)
  OBVIOUS
<1>1. linkAt \in Nat /\ linkAt >= 1 /\ linkAt' \in Nat /\ (pass' = pass => linkAt' >= linkAt)
  BY StepsLink DEF LinkingInv
<1>2. /\ pass' = "page" => pass = "page"
      /\ pass' = "seam" => pass \in {"page", "seam"}
      /\ pass' = "page" /\ links' # links => linkAt' = linkAt + 1
      /\ links' # links => pass' = pass
  BY DEF PairNext, LinkNextLine, StartSeams, LinkNextSeam, EndLinking, pairVars
<1>3. \A l \in Lines : Later(l)' => Later(l)
  BY <1>1, <1>2, LayoutAssumption DEF Later
<1>4. CASE links' = links
  <2>1. pass' = "page" => \A l \in Lines : l >= linkAt' => forward_partner_ref(links', l) = NoLine
    BY <1>1, <1>2, <1>4 DEF AgreeInv, Lines
  <2> QED
    BY <1>3, <1>4, <2>1 DEF AgreeInv, Symmetric
<1>5. ASSUME NEW a \in Lines, NEW b \in Lines, Adjacent(a, b), links' # links,
             links' = LinkPair(links, a, b),
             \/ pass = "page" /\ linkAt = a /\ PageOf[a] = PageOf[b]
             \/ /\ pass = "seam" /\ linkAt =< PageOf[a] /\ PageOf[a] < PageOf[b]
                /\ linkAt' = PageOf[a] + 1
                /\ \/ links.role[a] = "PART1" /\ links.pair[a] = NoLine
                   \/ links.role[a] = "BOTH" /\ links.forward[a] = NoLine
      PROVE  /\ AgreeInv'
             /\ \A l \in Lines : forward_partner_ref(links, l) # NoLine =>
                   forward_partner_ref(links', l) = forward_partner_ref(links, l)
  <2>1. Free(links, a, b) /\ ReachNextText(links)
    BY <1>5, LoopsPairFree DEF LinkingInv
  <2>2. /\ Symmetric(links')
        /\ \A l \in Lines : forward_partner_ref(links, l) # NoLine =>
              forward_partner_ref(links', l) = forward_partner_ref(links, l)
    BY <1>5, <2>1, LinkPairAgrees DEF AgreeInv
  <2>3. \A l \in Lines : links'.role[l] = "PART1" =>
           links.role[l] = "PART1" /\ (l # a => links'.pair[l] = links.pair[l])
    BY <1>5, <2>1, NoNewOpening
  <2>4. \A l \in Lines : ~MidwordSeam(links'.role, l)
    BY <2>3 DEF AgreeInv, MidwordSeam
  <2>5. ASSUME pass' = "page", NEW l \in Lines, l >= linkAt'
        PROVE  forward_partner_ref(links', l) = NoLine
    <3>1. l # a /\ forward_partner_ref(links, l) = NoLine
      BY <1>1, <1>2, <1>5, <2>5 DEF AgreeInv, Lines
    <3>2. links.role[a] \in {"PART1", "BOTH"} /\ <<a, b>> \notin Refused
      BY <1>5 DEF LinkPair
    <3> QED
      BY <1>5, <2>1, <3>1, <3>2, LinkPairPartners
  <2>6. ASSUME NEW l \in Lines \ Blank, links'.role[l] = "PART1", Later(l)',
               \E k \in Lines \ Blank : PageOf[k] < PageOf[l],
               \A k \in Lines \ Blank : k < l => PageOf[k] < PageOf[l]
        PROVE  links'.pair[l] = NoLine
    <3>1. links.role[l] = "PART1" /\ (l # a => links'.pair[l] = links.pair[l])
      BY <2>3, <2>6
    <3>2. l # a
      <4>1. CASE pass = "page" /\ linkAt = a /\ PageOf[a] = PageOf[b]
        <5>1. b \in Substantive(PageOf[a]) /\ b > a
          BY <1>5, <4>1 DEF Substantive, Adjacent, Lines
        <5> QED
          BY <2>6, <3>1, <5>1 DEF AgreeInv, MidwordSeam
      <4>2. CASE pass = "seam" /\ linkAt' = PageOf[a] + 1
        BY <1>2, <1>5, <2>6, <4>2, LayoutAssumption DEF Later
      <4> QED
        BY <1>5, <4>1, <4>2
    <3> QED
      BY <1>3, <2>6, <3>1, <3>2 DEF AgreeInv
  <2> QED
    BY <2>2, <2>4, <2>5, <2>6 DEF AgreeInv, Symmetric
<1> QED
  BY <1>4, <1>5, StepsLink DEF LinkingInv

(* Once a document is linked its links agree from both ends: a line that   *)
(* says its word continues on another is the one that other continues      *)
(* (tests/hyphenation/test_link_symmetry.py), for every document none of   *)
(* whose pages opens in the middle of a word.                              *)
THEOREM LinksAgree ==
    ASSUME SeamSafe
    PROVE  PairSpec => []LinksSymmetric
<1>1. AgreeInv => LinksSymmetric
  BY DEF AgreeInv, Symmetric, LinksSymmetric
<1>2. PairInit => AgreeInv
  BY AgreeInit
<1> QED
  BY <1>1, <1>2, LinkingInit, LinkingNext, AgreeNext, PTL DEF PairSpec

(* On such a document the page seams only add: a continuation found inside *)
(* a page is never lost (link_cross_page_hyphens).                         *)
THEOREM SeamsOnlyAdd ==
    ASSUME SeamSafe
    PROVE  PairSpec => SeamsKeepLinks
<1>1. PairInit => AgreeInv
  BY AgreeInit
<1>2. LinkingInv /\ AgreeInv /\ [PairNext]_pairVars =>
          [\A l \in Lines : forward_partner_ref(links, l) # NoLine =>
              forward_partner_ref(links', l) = forward_partner_ref(links, l)]_pairVars
  BY AgreeNext
<1>3. LinkingInv /\ AgreeInv /\ [PairNext]_pairVars => AgreeInv'
  BY AgreeNext
<1> QED
  BY <1>1, <1>2, <1>3, LinkingInit, LinkingNext, PTL DEF PairSpec, SeamsKeepLinks
=============================================================================
