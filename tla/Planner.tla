------------------------------ MODULE Planner ------------------------------
(***************************************************************************)
(* The chunk planner (core/planner.py): one plan_page call, as the loops   *)
(* the code runs.                                                          *)
(*                                                                         *)
(* A plan covers `scope`, a set of lines of ONE page (the page itself, or  *)
(* the target lines of a failed chunk during a granularity descent).  The  *)
(* planner tries PAGE, then BLOCK, then WINDOW; LINE only when forced.  One *)
(* step is one iteration of the loop of the grain being tried, so that     *)
(* what the loops establish can be stated as an invariant.  Only the LINE  *)
(* loop writes outside the plan: it severs hyphen links.                   *)
(*                                                                         *)
(* A chunk is [gran, lines, targets]: the lines the producer is sent and   *)
(* the ones the chunk owns.  Lines of a chunk are in reading order, so a   *)
(* set says all there is to say about them.                                *)
(***************************************************************************)
EXTENDS HyphenUnits, Sequences, FiniteSetsExt

CONSTANTS
    BlockOf,         \* text block of each line
    Chars,           \* len(ocr_text) of each line
    MaxChars,        \* ChunkPlannerConfig.max_input_chars_per_request
    MaxLines,        \* ChunkPlannerConfig.max_lines_per_request
    WindowSize,      \* ChunkPlannerConfig.line_window_size
    WindowOverlap,   \* ChunkPlannerConfig.line_window_overlap
    ExtensionSlack,  \* lines a window may grow past its core (10 in the code)
    LinkChoices      \* link structures the parser may hand to the run

ASSUME PlannerAssumption ==
    /\ DOMAIN BlockOf = Lines
    /\ Chars \in [Lines -> Nat]
    /\ MaxChars \in Nat /\ MaxLines \in Nat \ {0}
    /\ WindowSize \in Nat \ {0}
    /\ WindowOverlap \in Nat /\ WindowOverlap < WindowSize
    /\ ExtensionSlack \in Nat

(* Every link structure is one the linker can leave (PairingProofs shows   *)
(* that whatever it leaves is one of these).                               *)
ASSUME LinkChoicesAssumption == \A lk \in LinkChoices : lk \in LinkSpace /\ WellLinked(lk)

VARIABLES
    links,     \* hyphen roles and slots of the run's manifest copy
    splits,    \* ctx.hyphen_splits: the severed links
    planning,  \* grain being tried: "page", "block", "window", "line", "idle"
    scope,     \* lines being planned
    at,        \* loop position (1-based) of the WINDOW and LINE loops
    windows,   \* windows cut so far
    chunks     \* chunks emitted so far; the plan once planning = "idle"

planVars == <<links, splits, planning, scope, at, windows, chunks>>

Grains == {"PAGE", "BLOCK", "WINDOW", "LINE"}
Chunk == [gran : Grains, lines : SUBSET Lines, targets : SUBSET Lines]
WholeChunk(g, S) == [gran |-> g, lines |-> S, targets |-> S]

(* The loop that plans the next finer grain; "none" below LINE. *)
downgrade_granularity(g) ==
    CASE g = "PAGE" -> "block" [] g = "BLOCK" -> "window"
      [] g = "WINDOW" -> "line" [] OTHER -> "none"

-----------------------------------------------------------------------------
(* Positions inside the scope. *)

Pos(S, l) == Cardinality({m \in S : m =< l})
Slice(S, i, j) == {l \in S : i =< Pos(S, l) /\ Pos(S, l) =< j}
LineAt(S, i) == CHOOSE l \in S : Pos(S, l) = i
TotalChars(S) == MapThenSumSet(LAMBDA l : Chars[l], S)
FitsRequest(S) == TotalChars(S) =< MaxChars /\ Cardinality(S) =< MaxLines

(* BLOCK: blocks linked by a hyphen unit travel together. *)
BlockGroup(lk, l, S) ==
    Reachable(l, S, [m \in S |-> Linked(lk, m, S) \cup {k \in S : BlockOf[k] = BlockOf[m]}])

(* WINDOW: the last position (exclusive) the line count and the char       *)
(* budget allow; one line always enters.                                   *)
SizeLimit(S, i) == Min({i + WindowSize, Cardinality(S) + 1})
CoreEnd(S, i) ==
    Max({e \in (i + 1)..SizeLimit(S, i) :
            e = i + 1 \/ TotalChars(Slice(S, i, e - 1)) =< MaxChars})

(* Faulty: windows are never extended to hold a unit. *)
UnitReach_None(lk, S, i, e) == e

(* The exclusive end that holds every forward link leaving positions i..e-1. *)
UnitReach(lk, S, i, e) ==
    Max({e} \cup {p \in (e + 1)..(Cardinality(S) + 1) :
            \E l \in Slice(S, i, e - 1) : \E m \in ForwardById(lk, l, S) : Pos(S, m) = p - 1})

(* The window's end: extended unit by unit, line-capped. *)
WindowEnd(lk, S, i) ==
    LET core == CoreEnd(S, i)
        limit == Max({MaxLines, core - i + ExtensionSlack})
        maxEnd == Min({Cardinality(S) + 1, i + limit})
    IN Min({e \in core..maxEnd : e = maxEnd \/ UnitReach(lk, S, i, e) =< e})

(* Where the next window starts: always further on. *)
NextStart(S, i) ==
    LET core == CoreEnd(S, i)
        step == IF core < SizeLimit(S, i) THEN core - WindowOverlap
                ELSE i + (WindowSize - WindowOverlap)
    IN Max({i + 1, step})

(* The one window that owns a line: the last that holds its whole unit, or *)
(* the last that holds the line when none does.                            *)
TargetWindow(lk, S, ws, l) ==
    LET unit   == Unit(lk, l, S)
        common == {k \in DOMAIN ws : unit \subseteq ws[k]}
    IN IF common # {} THEN Max(common) ELSE Max({k \in DOMAIN ws : l \in ws[k]})

(* Faulty: a window owns all it holds.                                     *)
AssignWindowTargets_AllOwned(lk, S, ws) ==
    [k \in DOMAIN ws |-> WholeChunk("WINDOW", ws[k])]

AssignWindowTargets(lk, S, ws) ==
    LET owner == [l \in S |-> TargetWindow(lk, S, ws, l)]
    IN [k \in DOMAIN ws |->
          [gran |-> "WINDOW", lines |-> ws[k], targets |-> {l \in ws[k] : owner[l] = k}]]

(* Faulty: a chain of any length becomes one request. *)
Chain_Uncapped(lk, S, i) ==
    Reachable(LineAt(S, i), S, [l \in S |-> {m \in ForwardById(lk, l, S) : Pos(S, m) > Pos(S, l)}])

(* LINE: the chain followed from position i along the forward links, as    *)
(* long as it fits in one request.                                         *)
Chain(lk, S, i) ==
    Reachable(LineAt(S, i), S,
        [l \in S |-> {m \in ForwardById(lk, l, S) :
                         Pos(S, m) > Pos(S, l) /\ Pos(S, m) - i + 1 =< MaxLines}])
ChainEnd(lk, S, i) == Max({i} \cup {Pos(S, l) : l \in Chain(lk, S, i)})

-----------------------------------------------------------------------------
(* plan_page is called: on a page (first = "page"), or on the targets of a *)
(* failed chunk with a forced granularity.                                 *)
BeginPlan(S, first) ==
    /\ planning' = first /\ scope' = S /\ at' = 1
    /\ windows' = <<>> /\ chunks' = <<>>
    /\ UNCHANGED <<links, splits>>

TryPage ==
    /\ planning = "page"
    /\ IF FitsRequest(scope)
       THEN chunks' = <<WholeChunk("PAGE", scope)>> /\ planning' = "idle"
       ELSE chunks' = <<>> /\ planning' = "block"
    /\ UNCHANGED <<links, splits, scope, at, windows>>

(* One group of blocks, in page order; a group too large for a request     *)
(* gives up the whole BLOCK plan for WINDOW.                               *)
TryBlock ==
    /\ planning = "block"
    /\ LET rest  == scope \ UNION {chunks[k].lines : k \in DOMAIN chunks}
           group == BlockGroup(links, Min(rest), scope)
       IN \/ /\ rest = {}
             /\ planning' = IF chunks = <<>> THEN "window" ELSE "idle"
             /\ chunks' = chunks
          \/ /\ rest # {} /\ ~FitsRequest(group)
             /\ planning' = "window" /\ chunks' = <<>>
          \/ /\ rest # {} /\ FitsRequest(group)
             /\ planning' = planning
             /\ chunks' = Append(chunks, WholeChunk("BLOCK", group))
    /\ UNCHANGED <<links, splits, scope, at, windows>>

TryWindow ==
    /\ planning = "window" /\ at =< Cardinality(scope)
    /\ windows' = Append(windows, Slice(scope, at, WindowEnd(links, scope, at) - 1))
    /\ at' = NextStart(scope, at)
    /\ UNCHANGED <<links, splits, planning, scope, chunks>>

CloseWindows ==
    /\ planning = "window" /\ at > Cardinality(scope)
    /\ chunks' = AssignWindowTargets(links, scope, windows)
    /\ planning' = "idle"
    /\ UNCHANGED <<links, splits, scope, at, windows>>

(* One chain becomes one chunk; when its tail's partner is outside, the    *)
(* link to the line the bare-id lookup returns is severed and recorded.    *)
PlanLine ==
    /\ planning = "line" /\ at =< Cardinality(scope)
    /\ \E tail \in scope :
       LET end  == ChainEnd(links, scope, at)
           body == Slice(scope, at, end)
           cut  == ForwardById(links, tail, scope) \ body
       IN /\ Pos(scope, tail) = end
          /\ chunks' = Append(chunks, WholeChunk("LINE", body))
          /\ at' = end + 1
          /\ \/ cut = {} /\ UNCHANGED <<links, splits>>
             \/ \E head \in cut :
                   /\ links' = split_forward_link(links, tail, head)
                   /\ splits' = splits \cup {<<tail, head>>}
    /\ UNCHANGED <<planning, scope, windows>>

(* Faulty: the loop waits for a position past its end. *)
CloseLines_OneMore ==
    /\ planning = "line" /\ at > Cardinality(scope) + 1
    /\ planning' = "idle"
    /\ UNCHANGED <<links, splits, scope, at, windows, chunks>>

CloseLines ==
    /\ planning = "line" /\ at > Cardinality(scope)
    /\ planning' = "idle"
    /\ UNCHANGED <<links, splits, scope, at, windows, chunks>>

PlanNext == TryPage \/ TryBlock \/ TryWindow \/ CloseWindows \/ PlanLine \/ CloseLines

-----------------------------------------------------------------------------
(* The planner on its own: any plan_page call the run can make on a page. *)

PlanInit ==
    /\ links \in LinkChoices
    /\ splits = {}
    /\ planning \in {"page", "block", "window", "line"}
    /\ scope \in {S \in SUBSET Lines : \A l, m \in S : PageOf[l] = PageOf[m]}
    /\ at = 1 /\ windows = <<>> /\ chunks = <<>>

PlanSpec == PlanInit /\ [][PlanNext]_planVars /\ WF_planVars(PlanNext)

PlanTypeOK ==
    /\ links \in LinkSpace
    /\ splits \subseteq Lines \X Lines
    /\ planning \in {"page", "block", "window", "line", "idle"}
    /\ scope \subseteq Lines
    /\ at \in Nat \ {0}
    /\ windows \in Seq(SUBSET Lines)
    /\ chunks \in Seq(Chunk)

(* No request above LINE grain's cap: a PAGE, BLOCK or LINE chunk respects *)
(* max_lines_per_request, whatever the hyphen chains look like.            *)
RequestsBounded ==
    \A k \in DOMAIN chunks :
        chunks[k].gran # "WINDOW" => Cardinality(chunks[k].lines) =< MaxLines

(* Pair atomicity of a finished plan: two lines of the scope still linked  *)
(* are owned by the same chunk (docs/promises.md: together, or separated   *)
(* with a recorded HyphenSplit, which removes the link).                   *)
UnitsPlannedWhole ==
    planning = "idle" =>
        \A l, m \in scope : forward_partner_ref(links, l) = m =>
            \E k \in DOMAIN chunks : {l, m} \subseteq chunks[k].targets

(* A link disappears only through a recorded split, the LINE loop is the   *)
(* only one that severs ("the only place that severs a link"), and what a  *)
(* split names is the link it severed: a bare id never stands for a line   *)
(* of another page (HyphenSplit: "a split never crosses a page").          *)
OnlySplitsSever ==
    [][/\ \A l \in Lines :
            forward_partner_ref(links, l) # forward_partner_ref(links', l) =>
                planning = "line" /\ \E h \in Lines : <<l, h>> \in splits' \ splits
       /\ \A s \in splits' \ splits : forward_partner_ref(links, s[1]) = s[2]]_planVars

(* The planner's loops end. *)
PlanEnds == <>(planning = "idle")
=============================================================================
