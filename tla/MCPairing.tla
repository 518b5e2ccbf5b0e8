----------------------------- MODULE MCPairing -----------------------------
(* Linking over three pages: a page seam below every page, a blank line,   *)
(* and every parse-role assignment the parsers can make on them.           *)
EXTENDS Pairing

MCPageOf == <<1, 1, 1, 1, 2, 2, 3>>
MCIdOf == [l \in Lines |-> l]

(* The policy refuses one in-page candidate. *)
MCRefused == {<<1, 3>>}

(* Any role on a line with text; a blank line has none. *)
AnyRoles == {r \in [Lines -> Roles] : \A l \in Blank : r[l] = "NONE"}
(* As AnyRoles, but no page below another opens in the middle of a word.   *)
SeamSafeRoles == {r \in AnyRoles : \A l \in Lines : ~MidwordSeam(r, l)}
(* Roles read off trailing marks alone: no SUBS_TYPE in the markup. *)
HeuristicRoles == {r \in AnyRoles : \A l \in Lines : r[l] \in {"NONE", "PART1"}}
=============================================================================
