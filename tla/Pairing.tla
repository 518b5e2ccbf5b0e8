------------------------------ MODULE Pairing ------------------------------
(***************************************************************************)
(* How the parsers link hyphenated lines (core/pairing.py), the origin of  *)
(* every link the run walks.                                               *)
(*                                                                         *)
(* Each page is linked on its own while it is parsed (link_hyphen_pairs);  *)
(* once every file is parsed, the page seams are linked                    *)
(* (link_cross_page_hyphens).  Both passes skip over blank lines.  A role  *)
(* is read off the line's own text or markup before any link is made.      *)
(***************************************************************************)
EXTENDS Linker

CONSTANT
    ParseRoles  \* role assignments a parser may start from

ASSUME PairingAssumption == ParseRoles \subseteq [Lines -> Roles]

VARIABLES
    links,   \* roles and slots written so far
    linkAt,  \* next line (in-page pass) or page seam (cross-page pass)
    pass     \* "page", "seam" or "done"

pairVars == <<links, linkAt, pass>>

-----------------------------------------------------------------------------
PairInit ==
    /\ \E roles \in ParseRoles : links = Unlinked(roles)
    /\ linkAt = 1 /\ pass = "page"

LinkNextLine ==
    /\ pass = "page" /\ linkAt =< N
    /\ links' = LinkInPage(links, linkAt)
    /\ linkAt' = linkAt + 1 /\ pass' = pass

StartSeams ==
    /\ pass = "page" /\ linkAt > N
    /\ linkAt' = 1 /\ pass' = "seam"
    /\ UNCHANGED links

LinkNextSeam ==
    /\ pass = "seam" /\ \E p \in Pages : p >= linkAt
    /\ LET p == Min({q \in Pages : q >= linkAt})
       IN links' = LinkSeam(links, p) /\ linkAt' = p + 1
    /\ pass' = pass

EndLinking ==
    /\ pass = "seam" /\ ~\E p \in Pages : p >= linkAt
    /\ pass' = "done" /\ UNCHANGED <<links, linkAt>>

PairNext == LinkNextLine \/ StartSeams \/ LinkNextSeam \/ EndLinking
PairSpec == PairInit /\ [][PairNext]_pairVars

-----------------------------------------------------------------------------
(* A page below another opens in the middle of a word: its first line with *)
(* text was read as one that continues further down the page.              *)
MidwordSeam(roles, l) ==
    /\ roles[l] = "PART1" /\ l \notin Blank
    /\ \E k \in Lines \ Blank : PageOf[k] < PageOf[l]
    /\ \A k \in Lines \ Blank : k < l => PageOf[k] < PageOf[l]
    /\ \E k \in Substantive(PageOf[l]) : k > l

(* Links agree from both ends once the document is linked, page seams      *)
(* included: if a line says its word continues onto another, that one says *)
(* it is continued from it (tests/hyphenation/test_link_symmetry.py).      *)
LinksSymmetric ==
    pass = "done" => Symmetric(links)

(* The seam pass only adds: no continuation the page pass established is   *)
(* lost.                                                                   *)
SeamsKeepLinks ==
    [][\A l \in Lines : forward_partner_ref(links, l) # NoLine =>
          forward_partner_ref(links', l) = forward_partner_ref(links, l)]_pairVars

(* A word continues forward in reading order, onto the next line that      *)
(* carries text, never across one and never onto a blank one.              *)
LinksSkipOnlyBlanks ==
    \A l \in Lines : forward_partner_ref(links, l) # NoLine =>
        /\ forward_partner_ref(links, l) > l
        /\ forward_partner_ref(links, l) \notin Blank
        /\ (l + 1)..(forward_partner_ref(links, l) - 1) \subseteq Blank
=============================================================================
