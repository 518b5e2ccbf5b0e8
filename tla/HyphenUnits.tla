---------------------------- MODULE HyphenUnits ----------------------------
(***************************************************************************)
(* Hyphen links and the units derived from them (core/pairing.py,          *)
(* core/units.py).                                                         *)
(*                                                                         *)
(* A line is a number: 1..N in document reading order (line_order_global). *)
(* The number stands for the qualified LineRef (page_id, line_id); IdOf    *)
(* gives the bare line_id, which two files may share.  A line carries a    *)
(* hyphen role and two pointer slots, PAIR and FORWARD; NoLine is an empty *)
(* slot.  The slots are the storage of record: every "which lines travel   *)
(* together" question is answered by walking them.                         *)
(***************************************************************************)
EXTENDS Integers, FiniteSets

CONSTANTS
    N,       \* number of lines of the document
    PageOf,  \* page of each line, pages numbered in manifest order
    IdOf     \* bare line_id of each line: unique on a page, not beyond it

Lines == 1..N
NoLine == 0

ASSUME LayoutAssumption ==
    /\ N \in Nat
    /\ PageOf \in [Lines -> Nat \ {0}]
    /\ \A l, m \in Lines : l < m => PageOf[l] =< PageOf[m]
    /\ DOMAIN IdOf = Lines
    /\ \A l, m \in Lines : PageOf[l] = PageOf[m] /\ IdOf[l] = IdOf[m] => l = m

Roles == {"NONE", "PART1", "PART2", "BOTH"}

(* The hyphen fields of every LineManifest. *)
LinkSpace ==
    [role : [Lines -> Roles],
     pair : [Lines -> Lines \cup {NoLine}],
     forward : [Lines -> Lines \cup {NoLine}]]

-----------------------------------------------------------------------------
(* Directed edges: the role -> slot map. *)

(* The line this line's word continues onto. *)
forward_partner_ref(lk, l) ==
    CASE lk.role[l] = "PART1" -> lk.pair[l]
      [] lk.role[l] = "BOTH"  -> lk.forward[l]
      [] OTHER                -> NoLine

(* The line whose word continues onto this one. *)
backward_partner_ref(lk, l) ==
    IF lk.role[l] \in {"PART2", "BOTH"} THEN lk.pair[l] ELSE NoLine

(* Faulty: the next line taken for the partner. *)
ForwardById_NextLine(lk, l, S) == {m \in S : m = l + 1 /\ forward_partner_ref(lk, l) # NoLine}

(* The lines of S a bare-id lookup of l's forward partner returns: the     *)
(* planner's index_by_id.get(forward_partner_id(l)).  Scoped to one page   *)
(* it holds at most one line, which is the partner only when the partner   *)
(* is on that page.                                                        *)
ForwardById(lk, l, S) ==
    {m \in S : /\ forward_partner_ref(lk, l) # NoLine
               /\ IdOf[m] = IdOf[forward_partner_ref(lk, l)]}

(* What the linker leaves: no head with two tails, no tail with two heads,  *)
(* and a role on every line something points at.                           *)
WellLinked(lk) ==
    /\ \A l, m \in Lines : m \in {lk.pair[l], lk.forward[l]} => lk.role[m] # "NONE"
    /\ \A l, m \in Lines :
          \/ l = m
          \/ /\ forward_partner_ref(lk, l) \notin {forward_partner_ref(lk, m)} \ {NoLine}
             /\ backward_partner_ref(lk, l) \notin {backward_partner_ref(lk, m)} \ {NoLine}

(* Links agree from both ends. *)
Symmetric(lk) ==
    \A l, m \in Lines : forward_partner_ref(lk, l) = m <=> backward_partner_ref(lk, m) = l

(* A slot the line's role does not read is empty. *)
SlotsRead(lk) ==
    \A l \in Lines : /\ lk.role[l] # "BOTH" => lk.forward[l] = NoLine
                     /\ lk.role[l] = "NONE" => lk.pair[l] = NoLine

(* No line inside a link continues a word of its own. *)
LinksClose(lk) ==
    \A l, m, k \in Lines :
        forward_partner_ref(lk, l) = m /\ l < k /\ k < m => forward_partner_ref(lk, k) = NoLine

-----------------------------------------------------------------------------
(* Units: connected components of the links, both slots, inside a pool. *)

(* Everything of S reached from x along a successor function on S. *)
Reachable(x, S, next) ==
    LET closed == {T \in SUBSET S : x \in T /\ \A y \in T : next[y] \subseteq T}
    IN {y \in S : \A T \in closed : y \in T}

(* The lines of the pool a line is linked with, from either end. *)
Linked(lk, l, pool) ==
    {m \in pool : \/ m \in {lk.pair[l], lk.forward[l]}
                 \/ l \in {lk.pair[m], lk.forward[m]}}

(* derive_hyphen_groups, read at one line; a line in no group is alone. *)
Unit(lk, l, pool) == Reachable(l, pool, [m \in pool |-> Linked(lk, m, pool)])

(* HyphenGroup.complete: no pointer of a member leaves the pool. *)
UnitComplete(lk, l, pool) ==
    \A m \in Unit(lk, l, pool) : {lk.pair[m], lk.forward[m]} \subseteq pool \cup {NoLine}

(* The seeds and every line of the pool sharing a unit with one of them. *)
units_containing(lk, seeds, pool) ==
    seeds \cup UNION {Unit(lk, s, pool) : s \in seeds \cap pool}

-----------------------------------------------------------------------------
(* Faulty: a head that continues further loses that link too. *)
split_forward_link_DropsHead(lk, tail, head) ==
    [lk EXCEPT !.role[head] = "NONE", !.pair[head] = NoLine,
               !.role[tail] = IF @ = "BOTH" THEN "PART2" ELSE "NONE"]

(* Sever the link tail -> head: only roles and slots change. *)
split_forward_link(lk, tail, head) ==
    LET tailBoth == lk.role[tail] = "BOTH"
        headBoth == lk.role[head] = "BOTH"
        cutTail ==
            [role    |-> [lk.role EXCEPT ![tail] = IF tailBoth THEN "PART2" ELSE "NONE"],
             pair    |-> IF tailBoth THEN lk.pair ELSE [lk.pair EXCEPT ![tail] = NoLine],
             forward |-> IF tailBoth THEN [lk.forward EXCEPT ![tail] = NoLine] ELSE lk.forward]
    IN [role    |-> [cutTail.role EXCEPT ![head] = IF headBoth THEN "PART1" ELSE "NONE"],
        pair    |-> [cutTail.pair EXCEPT ![head] =
                        IF headBoth THEN cutTail.forward[head] ELSE NoLine],
        forward |-> IF headBoth THEN [cutTail.forward EXCEPT ![head] = NoLine]
                    ELSE cutTail.forward]
=============================================================================
