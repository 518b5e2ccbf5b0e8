----------------------------- MODULE Alignment -----------------------------
(***************************************************************************)
(* The token aligner (core/alignment.py: align_tokens) and what the        *)
(* page-aligned producer makes of it (core/page_alignment.py,              *)
(* producers/page_llm.py).                                                 *)
(*                                                                         *)
(* A cost table is filled row by row inside a corridor around the          *)
(* diagonal, then read back from its last cell, one pair per step.  The    *)
(* same code aligns the words of a line (rewriters, confidence) and the    *)
(* lines of a page (page producer).                                        *)
(*                                                                         *)
(* Tokens are model values.  Their similarity is counted in halves: 0      *)
(* nothing in common, 2 the same token.  A gap costs 1 and a substitution  *)
(* 2 * (1 - similarity) = 2 - halves.                                      *)
(***************************************************************************)
EXTENDS Integers, Sequences, FiniteSets, FiniteSetsExt, SequencesExt

CONSTANTS
    Tokens,        \* words of a line, or lines of a page
    Similarity,    \* [Tokens \X Tokens -> 0..2]
    MaxLength,     \* bound on the length of both sequences
    Bands          \* corridor half-widths asked for; NoBand searches everything

NoBand == -1
Unreached == 1000      \* float("inf"): above the cost of any alignment

ASSUME AlignmentAssumption ==
    /\ Similarity \in [Tokens \X Tokens -> 0..2]
    /\ \A a, b \in Tokens : Similarity[<<a, b>>] = Similarity[<<b, a>>]
    /\ \A a \in Tokens : Similarity[<<a, a>>] = 2
    /\ MaxLength \in Nat /\ MaxLength < 100
    /\ Bands \subseteq Nat \cup {NoBand}

VARIABLES
    source, target,    \* the two token sequences
    band,              \* the corridor asked for
    rows,              \* the cost table so far; row i is a function on its columns
    i, j,              \* the cell being read back
    pairs,             \* [src, tgt] read back so far, last pair first; 0 is a gap
    exhausted,         \* TokenAlignment.band_exhausted
    stage,             \* "fill", "read", "aligned", "refused", "answered"
    ops                \* the page producer's edits: <<source, target>>

inputs == <<source, target, band>>
alignVars == <<inputs, rows, i, j, pairs, exhausted, stage, ops>>

n == Len(source)
m == Len(target)
Longest == Max({n, m})
sim(k, l) == Similarity[<<source[k], target[l]>>]

-----------------------------------------------------------------------------
(* Python's round: halves go to the even neighbour. *)
Round(a, b) ==
    LET down == a \div b
        rest == 2 * (a % b)
    IN IF rest > b \/ (rest = b /\ down % 2 = 1) THEN down + 1 ELSE down

(* Faulty: the corridor as wide as asked, even when no path fits in it. *)
effective_AsAsked == IF band = NoBand THEN Longest ELSE band

(* A corridor narrower than the length difference would hold no path. *)
effective == IF band = NoBand THEN Longest ELSE Max({band, n - m, m - n})

(* The corridor of row k: its first column, and the one after its last. *)
BandedRange(k) ==
    LET centre == IF n = m THEN k ELSE IF n = 0 THEN 0 ELSE Round(k * m, n)
    IN [lo |-> Max({0, centre - effective}), hi |-> Min({m, centre + effective + 1})]

(* Faulty: the neighbours of the corridor's edge are left out. *)
Columns_Unpadded(k) == BandedRange(k).lo..(BandedRange(k).hi - 1) \cup (IF k = n THEN {m} ELSE {})

(* A row of the table: the corridor, padded by one on each side. *)
Columns(k) == Max({0, BandedRange(k).lo - 1})..Min({m, BandedRange(k).hi})

Get(k, c) == IF c \in Columns(k) THEN rows[k][c] ELSE Unreached

Plus(a, b) == IF a = Unreached THEN Unreached ELSE a + b

(* Faulty: a token is never inserted. *)
Cell_NoLeft(k, c, up, diagonal, left) ==
    Min({Plus(up, 1), Plus(diagonal, 2 - sim(k, c))})

Cell(k, c, up, diagonal, left) ==
    Min({Plus(up, 1), Plus(left, 1), Plus(diagonal, 2 - sim(k, c))})

(* Row k, left to right. *)
Row(k) ==
    LET cell[c \in Columns(k)] ==
            IF k = 0 THEN c
            ELSE IF c = 0 THEN k
            ELSE Cell(k, c, Get(k - 1, c), Get(k - 1, c - 1),
                      IF c - 1 \in Columns(k) THEN cell[c - 1] ELSE Unreached)
    IN cell

FillRow ==
    /\ stage = "fill"
    /\ LET k == Cardinality(DOMAIN rows)
       IN /\ rows' = [r \in 0..k |-> IF r = k THEN Row(k) ELSE rows[r]]
          /\ stage' = IF k = n THEN "read" ELSE "fill"
    /\ UNCHANGED <<inputs, i, j, pairs, exhausted, ops>>

-----------------------------------------------------------------------------
(* Reading back: a match wins a tie, then a deletion, then an insertion.   *)

Here == Get(i, j)
NearEdge == band # NoBand /\ j \in 1..(m - 1) /\ {j - 1, j + 1} \ Columns(i) # {}
ReadStep == stage = "read" /\ (i > 0 \/ j > 0) /\ exhausted' = (exhausted \/ NearEdge)
ReadFrame == UNCHANGED <<inputs, rows, stage, ops>>

(* A correspondence needs evidence: with nothing in common it would cost   *)
(* exactly two gaps, and must not win that tie.                            *)
MatchFits ==
    /\ i > 0 /\ j > 0 /\ Get(i - 1, j - 1) # Unreached
    /\ Here = Get(i - 1, j - 1) + 2 - sim(i, j)
    /\ sim(i, j) > 0

DeletionFits ==
    /\ i > 0 /\ Get(i - 1, j) # Unreached
    /\ Here = Get(i - 1, j) + 1

(* Faulty: a deletion walks past a target token. *)
Delete_BothSides ==
    /\ ReadStep /\ ~MatchFits /\ DeletionFits
    /\ pairs' = Append(pairs, [src |-> i, tgt |-> 0])
    /\ i' = i - 1 /\ j' = IF j > 1 THEN j - 1 ELSE j
    /\ ReadFrame

Match ==
    /\ ReadStep /\ MatchFits
    /\ pairs' = Append(pairs, [src |-> i, tgt |-> j])
    /\ i' = i - 1 /\ j' = j - 1
    /\ ReadFrame

Delete ==
    /\ ReadStep /\ ~MatchFits /\ DeletionFits
    /\ pairs' = Append(pairs, [src |-> i, tgt |-> 0])
    /\ i' = i - 1 /\ UNCHANGED j
    /\ ReadFrame

(* Whatever is left is taken for an insertion, without a check. *)
Insert ==
    /\ ReadStep /\ ~MatchFits /\ ~DeletionFits
    /\ pairs' = Append(pairs, [src |-> 0, tgt |-> j])
    /\ j' = j - 1 /\ UNCHANGED i
    /\ ReadFrame

EndReading ==
    /\ stage = "read" /\ i = 0 /\ j = 0
    /\ stage' = "aligned"
    /\ UNCHANGED <<inputs, rows, i, j, pairs, exhausted, ops>>

-----------------------------------------------------------------------------
Matched == {<<p.src, p.tgt>> : p \in {q \in Range(pairs) : q.src > 0 /\ q.tgt > 0}}

(* Faulty: a deleted token is not looked for elsewhere. *)
MoveSuspected_WeakMatchesOnly ==
    \E p \in Range(pairs) :
        /\ p.src # 0 /\ p.tgt # 0 /\ sim(p.src, p.tgt) = 0
        /\ \E t \in 1..m : t # p.tgt /\ sim(p.src, t) = 2

(* A token the alignment did not settle has its like elsewhere in the      *)
(* corridor.  Half a similarity settles a match; only the same token is    *)
(* near-identical.                                                         *)
MoveSuspected ==
    \E p \in Range(pairs) :
        /\ p.src # 0 /\ (p.tgt = 0 \/ sim(p.src, p.tgt) = 0)
        /\ \E t \in (BandedRange(p.src).lo + 1)..BandedRange(p.src).hi :
              t # p.tgt /\ sim(p.src, t) = 2

(* PageLLMEditProducer.produce: the answer to a page.  An exhausted        *)
(* corridor refuses it; otherwise each matched line that differs is        *)
(* edited, and an unmatched line keeps its text.                           *)
RefuseAnswer ==
    /\ stage = "aligned" /\ exhausted
    /\ stage' = "refused"
    /\ UNCHANGED <<inputs, rows, i, j, pairs, exhausted, ops>>

EditMatched ==
    /\ stage = "aligned" /\ ~exhausted
    /\ stage' = "answered"
    /\ ops' = {p \in Matched : source[p[1]] # target[p[2]]}
    /\ UNCHANGED <<inputs, rows, i, j, pairs, exhausted>>

Aligning(from, to, width) ==
    /\ source = from /\ target = to /\ band = width
    /\ rows = [r \in {} |-> <<>>]
    /\ i = Len(source) /\ j = Len(target)
    /\ pairs = <<>> /\ exhausted = FALSE /\ stage = "fill" /\ ops = {}

AlignInit == \E from, to \in SeqOf(Tokens, MaxLength), width \in Bands : Aligning(from, to, width)

AlignNext ==
    \/ FillRow \/ Match \/ Delete \/ Insert \/ EndReading
    \/ RefuseAnswer \/ EditMatched

AlignSpec == AlignInit /\ [][AlignNext]_alignVars

-----------------------------------------------------------------------------
(* What an alignment is, without a table: any set of pairs in which later  *)
(* source tokens answer to later target tokens.  A token left over costs   *)
(* 1, a pair 2 less its similarity.                                        *)

Crossing(p, q) == p # q /\ (p[1] <= q[1]) /\ (p[2] >= q[2])
Monotone(M) == \A p, q \in M : ~Crossing(p, q)
PairsOf(M, halves) == {p \in M : sim(p[1], p[2]) = halves}
Price(M) ==
    n + m - 2 * Cardinality(M) + Cardinality(PairsOf(M, 1)) + 2 * Cardinality(PairsOf(M, 0))
Readings == {M \in SUBSET {p \in (1..n) \X (1..m) : sim(p[1], p[2]) > 0} : Monotone(M)}

AtEnd == stage \in {"aligned", "refused", "answered"}

(* Reading back never leaves the table: the cell at hand is one the        *)
(* corridor holds, also for a corridor narrower than the difference in     *)
(* length, where the unchecked insertion would walk off the first column   *)
(* and never come back.                                                    *)
StaysInCorridor == stage = "read" => i >= 0 /\ j \in Columns(i) /\ Here < Unreached

(* The pairs, read forwards, go through every source and every target      *)
(* token exactly once and in order: no token is lost, none is given two    *)
(* counterparts ("Monotonic by construction (an alignment never crosses)").*)
EveryTokenOnce ==
    AtEnd =>
        /\ {p.src : p \in Range(pairs)} \ {0} = 1..n
        /\ {p.tgt : p \in Range(pairs)} \ {0} = 1..m
        /\ \A k, l \in DOMAIN pairs :
              k < l => /\ 0 \notin {pairs[k].src, pairs[l].src} => pairs[l].src < pairs[k].src
                       /\ 0 \notin {pairs[k].tgt, pairs[l].tgt} => pairs[l].tgt < pairs[k].tgt

(* The alignment read back costs what the table says, and when the         *)
(* corridor covers the table, no monotone reading is cheaper.              *)
CheapestReading ==
    stage = "aligned" =>
        /\ Price(Matched) = Get(n, m)
        /\ band = NoBand \/ band >= Longest => \A M \in Readings : Price(M) >= Price(Matched)

(* A page sent back unchanged is never refused, yields no edit and is not  *)
(* suspected of a move, however narrow the corridor and however often a    *)
(* line repeats.                                                           *)
UnchangedIsTrusted ==
    source = target => stage # "refused" /\ ops = {} /\ (AtEnd => ~MoveSuspected)

(* A correction that only moves words about is noticed, and one that moves *)
(* none is not suspected: when no two different words of the line look     *)
(* alike, a rearrangement raises the move flag exactly when it differs     *)
(* from the source (the realign policy drops the correction on it).        *)
ReorderIsFlagged ==
    (/\ stage = "aligned" /\ band = NoBand
     /\ \A a, b \in Range(source) : Similarity[<<a, b>>] # 1
     /\ \E p \in [1..n -> 1..n] : Range(p) = 1..n /\ target = [k \in 1..n |-> source[p[k]]])
        => (MoveSuspected <=> source # target)
=============================================================================
