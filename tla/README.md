# A TLA+ model of the saknussemm correction engine

saknussemm takes a digitised document (ALTO or PAGE XML), asks a *producer*
(a language model, a rule set, a vision model) for corrections, and writes the
document back with the structure it found.  A producer is free to answer
badly, late or not at all; the engine promises that every line still ends with
exactly one accountable decision, and that a word hyphenated over two lines is
never corrected on one line and left alone on the other.

This directory specifies the part of the engine that keeps those promises: the
pipeline core in `src/src/saknussemm/core/`, from the files it reads to the
files it writes, and the ALTO rewriter at the level of a text line.  TLC checks small documents
exhaustively; TLAPS proves most of what the runs check, for every document.  Paths
below are relative to `src/src/saknussemm/` unless they begin with `docs/` or
`tests/`.

## 1. Inventory

| Component | State it keeps | Operations | Interacts with | Correct when |
|---|---|---|---|---|
| Hyphen links and units (`core/pairing.py`, `core/units.py`) | per line: role, PAIR and FORWARD slots | `forward_partner_ref`, `backward_partner_ref`, `derive_hyphen_groups`, `units_containing`, `split_forward_link` | written by the parsers and the LINE planner, read by everyone | the two ends of a link agree; a split removes exactly one link |
| Hyphen linking (`core/pairing.py`) | the links being built | `link_hyphen_pairs` per page, `link_cross_page_hyphens` per seam | parsers call it | links symmetric, only blank lines crossed, later passes only add |
| Chunk planner (`core/planner.py`) | the plan, the severed links | `plan_page`: PAGE, BLOCK, WINDOW, LINE | called per page and per descent | every line owned once, units planned whole or split with a record, loops end |
| Quality routing (`core/routing.py`, `core/quality.py`) | skipped and escalated lines | score, confirm, rebuild work items | between planner and driver | units are never skipped or shared; a skipped line keeps its source text |
| Page driver and attempts (`core/driver.py`, `attempt.py`, `retry.py`, `outcome.py`) | current chunk, budget, retry latch, counters | attempt, retry, descend, fall back, absorb, abort | calls the producer and the planner | bounded cost, nothing left undecided, only owned lines touched, it ends |
| Hyphen reconciliation (`core/reconcile.py`, `core/hyphenation.py`) | the joins of a chunk | claim joins, reconcile a pair | between answer and acceptance | a pair is accepted or reverted together |
| Acceptance and finalization (`core/acceptance.py`, `guards.py`, `finalize.py`) | none of its own | per-line guards; adjacency, break-mark and loss passes | writes decisions | no pass undoes a fallback or splits a pair |
| Decision ledger (`core/decide.py`, `decisions.py`) | status, text, reason per line | `accept`, `fall_back`, `renormalise`, `derive_decision_set` | the only writer of decisions | section 3, `DecisionContract` |
| Pipeline entry (`core/pipeline.py`, `indexing.py`, `context.py`, `workspace.py`, `facade.py`) | page loop, partner index, run context | `load`, `run`, `_process_pages` | owns the run | pages in order, cancellation honoured, a refused run leaves nothing |
| Image-cap batching (`core/batching.py`) | the batch being filled | slice a routed chunk | after planning and routing | no call over its cap, every line owned once, a unit in one call |
| Proposal validation and editing (`core/validator.py`, `editing.py`, `attempt.py`, `report.py`) | the captured operations | anchors, spans, guards E1 to E5b, structural checks, published script, replay | inside an attempt, and after the run | spans land where they name; an unchanged answer passes; a replay never tells another text |
| Token alignment (`core/alignment.py`, `page_alignment.py`, `producers/page_llm.py`) | cost band, pairs | `align_tokens`, page edits | rewriters, page producer | never leaves the corridor, every token once, cheapest reading |
| ALTO parser and rewriter (`formats/alto/`) | the children of a TextLine | read a line, four rewrite paths | first and last | the line says its decision, tiles its box, reports what it lost |
| Rendering and result (`core/preflight.py`, `rendering.py`, `projection.py`, `provenance.py`, `result.py`) | delivered and undeliverable files, digests; the target directory | check, render, verify, attest, `write` | after the decisions; disk | only faithful bytes leave; the report accounts for every source |
| Report (`core/report.py`, `confidence.py`, `losses.py`) | counters | assemble | after rendering | the edit script only |
| PAGE format (`formats/page/`) | XML trees | parse, rewrite | first and last | not modelled |
| Producers, integrations (`producers/`, `integrations/`) | none | produce | driver | external: any answer, any failure |
| Events, errors (`core/events.py`, `errors.py`, `core/protocols.py`) | none | observe, classify | everyone | the error families are the outcomes of an attempt |

What is hard here is mostly not parallelism: a run is a single task, and only
the source files on disk have other writers.  It is the number of *orders*.  A unit can straddle chunks, windows and pages; its halves
are decided in different chunks, possibly with a failure, a descent to finer
chunks or an absorbed error between them; up to six passes may revert a line
afterwards; the LINE planner rewrites links in the middle of it; the host may
cancel at any poll.  `PROJECT.json` lists each hazard at its line.

## 2. Modules

    HyphenUnits            roles, slots, units, severing a link
     |- Linker - Pairing         how the parsers link       (MCPairing)
     |- Planner - Batching       plan_page, image caps      (MCPlanner)
     |- Ledger - DecisionContract  the abstract specification
     '- PageDriver = Planner + Ledger + the run             (MCPageDriver)

    Texts                  words, marks, white space of a text
     |- Editing - Proposal       what becomes of a script   (MCProposal)
     '- Rewriter = Texts + Alignment                        (MCRewriter)

    Output                 files in, files out              (MCOutput)

    PlannerProofs (Planner) - DecisionProofs (DecisionContract, PageDriver) - PageDriverProofs
     '- BatchingProofs (Batching)
    PairingProofs (Pairing), OutputProofs (Output)
    AlignmentProofs (Alignment), ProposalProofs (Proposal)

**Data.** A line is a number in document reading order; it stands for the
qualified reference (page, line id).  `IdOf` is the bare `line_id`, unique on a
page but not across files, because parts of the code compare bare ids.  A
line's text is one of `source`, `fix` (a correction), `glyph` (a correction
that respells the trailing break mark) and `drop` (a correction that loses
it), which is all the engine's control flow tells apart.  The text guards
(similarity scores, migrated words, drift) are nondeterministic verdicts, held
to what they cannot do: an unchanged text always passes, and an unchanged pair
always stands.

**`HyphenUnits`** holds the link structure and what is derived from it.
`Unit` is a connected component over *both* slots inside a pool of lines, as
`derive_hyphen_groups` computes it; `ForwardById` is the planner's bare-id
lookup of a partner.

**`Linker`, `Pairing`.** One step is one iteration of a linking loop.
`SUBS_CONTENT` and the explicit flags travel with the roles and are left out.

**`Planner`.** One step is one iteration of the loop of the grain being tried,
so that what the loops establish is an invariant and not a definition.  The
only action that writes outside the plan is `PlanLine`, which severs links.

**`Ledger`** is `core/decide.py`: the three writers, applied to a set of lines
at a time.

**`DecisionContract`** states what a run promises without saying how: a line
leaves PENDING once; a fallback is final, at the source text, for the first
reason; a correction may be revoked until the decisions are sealed; only a
complete ledger is sealed, and nothing moves afterwards.

**`PageDriver`** is the run.  `pc` is where it is:

| `pc` | code |
|---|---|
| `page` | loop head of `_process_pages` |
| `plan`, `route` | `_plan_page_chunks`, `_route_and_filter_chunks`, `_work_items` |
| `chunk` | loop head of `process_page` |
| `attempt`, `failure` | `_attempt_chunk`, `_handle_chunk_failure` |
| `replan`, `sub` | `_descend_granularity` |
| `reconcile`, `accept` | `_reconcile_chunk_hyphens`, `_apply_line_acceptance` |
| `adjacency`, `breaks`, `loss`, `derive` | `_finalize_document`, `derive_decision_set` |
| `done`, `failed` | the run returned, or raised |

The recursion of `_run_chunk` is flattened into `subs`, what is left of every
open sub-plan, innermost first: the order in which the recursion visits them.
An attempt ends in one of five ways (`Answered`, `Retry`, `AttemptsExhausted`,
`DomainError`, `FatalError`), chosen freely at every call: the producer is
external.  Cancellation (`Abort`) can be seen exactly at the three places the
code polls.

**`Batching`** extends `Planner`: a page plan is cut again under the cap of
the producer each chunk was routed to, one target per step.

**`Texts`, `Editing`, `Proposal`.** Where `PageDriver` takes an answer for a
free choice among outcomes, `Proposal` computes it: the operations of a script
are split, normalised, guarded and applied to texts of a few characters, the
answer is validated and retried, and after a free decision (`Decide` is
`PageDriver`'s business) the script is published and replayed on this document
or on another whose lines carry the same ids.  A script is kept line by line,
each line's operations in their order: nothing in `apply_edit_script` looks
across lines.  The stage names follow
`_attempt_chunk` and `_build_final_edit_script`.

**`Alignment`** fills the cost table one row per step and reads it back one
pair per step, so that a corridor that is too narrow, or a tie that is broken
wrongly, shows in a state.  Similarity is counted in halves, an abstraction of
the ratio `char_similarity` returns; the thresholds keep their order.

**`Rewriter`** is one TextLine: children as records (String, SP, HYP), the
parser's reading and roles, the linker's promotions and severings as they reach
a line, the decision, and the four rewrite paths.  The slow path calls
`Alignment`, step by step.  A second pass reads the result and rewrites it
with nothing corrected.  `_compute_geometry`'s float shares are exact
rationals here; its rounding (half to even) and its floor of one unit are kept.

**`Output`** is everything around the decisions that touches disk.  A source is
read four times: parsed, stamped (`source_digests`, a second read), checked by
the preflight of every run, and rewritten at the end.  `Replace` is anybody
else: it may replace, delete or restore a source between any two steps.
`moved` records the sources replaced where nothing looks.  A rewrite of
well-formed bytes reads back faithfully, with other words, or with a line
missing; which one is `Rewriter`'s subject and free here.  `write` is one step
per file and `Cut` may end it before or in the middle of any of them; the
caller may call again, or run again, into the same directory.

`_claim_joins` also remembers which heads were written so that no head is
written by two tails.  `LinkChoicesAssumption` says no head has two tails
(`WellLinked`; TLC evaluates it on every run's documents, and
`LinkerLeavesWellLinked` proves it of everything `Pairing` produces), so that
memory is never consulted with effect and is left out.

## 3. Properties, runs and what they show

Operators commented *Faulty* are plausible slips in the code they stand next
to.  Each is put in place of the original in turn, and TLC finds the property
it is listed with (in `PROJECT.json`) violated: the property does depend on
the code doing what it does.

| Run | Instance | Checks |
|---|---|---|
| `linking` | 3 pages, 7 lines, one blank, one refused pair, every role assignment in which no later page opens with an unfinished pair | `LinksSymmetric`, `LinksSkipOnlyBlanks`, `SeamsKeepLinks` |
| `planning` | a page of 5 lines in 2 blocks and a page of one; one blank line, one longer than a request's budget; every hyphenation, every scope, every starting grain; image caps 0, 1, 2 | `UnitsPlannedWhole`, `OnlySplitsSever`, `PlanEnds`; `CallsBounded`, `CallsOwnOnce`, `UnitsShareACall` |
| `run_contract` | 3 lines and one over the page break, every hyphenation including chains, request limit 2 lines: descent to LINE with severed chains, every abort | `KeepsContract`, `DecisionsCoherent`, `DecidedBehind`, `CorrectionStands`, `CorrectedWasAsked`, `OwnershipRespected`, `BudgetBound`, `Terminates`, `TypeOK` |
| `run_pairs` | 2 pages in two files, units of two lines and a dangling opening; routing, escalation, realign policy | `NoMixedPair`, `ExhaustedUnitFalls`, `MarkKept`, `UnitsRouteWhole`, `SkippedKeepsSource` |
| `proposal` | 2 lines of 3 documents, every script of 2 operations (6 span anchors, whole lines, a line nobody sent), 2 attempts | `SpliceIsExact`, `IdentityIsAccepted`, `ReplayTellsTheTruth`, `NeverEditsALookalike` |
| `rewriting` | every alignment of two sequences of at most 3 tokens, bands 0, 1 and none; lines of 1 to 3 Strings with every break, widths 6 and 20, corrected to every text of at most 3 words | `StaysInCorridor`, `EveryTokenOnce`, `CheapestReading`, `UnchangedIsTrusted`, `ReorderIsFlagged`; `ReadsAsDecided`, `ChildrenTile`, `IdentityFollowsWords`, `LossesExact`, `SettlesAtOnce` |
| `output` | 2 source files with every flattened name, 3 ways in, 2 runs, 2 calls of `write`, 2 replacements | `OnlyFaithfulLeaves`, `ReportAccountsForAll`, `DeliveredAsParsed` |

The properties are stated, each with the line of code or documentation it
comes from, next to their definitions.

**Bounds, and why they are enough.**  Three or four lines are the smallest
documents with a chain (three linked lines), a cross-page pair next to an
in-page pair, and a line outside every unit.  Two pages give one seam; the run
carries nothing from a page to the next but links and decisions.  Two attempts
per chunk separate the first failure from the last; a budget of 3 runs out
inside a second chunk of a descent, 5 inside a third level.  `WindowSize` 2 with
overlap 1 makes windows overlap, `MaxLines` 2 or 3 is below the longest chain
of the planned scopes only where a split is wanted.  `ExtensionSlack` (10 in
the code) lets a window hold the longest unit of its document: 5 for the
planner's six lines, 2 for the runs' shorter pages.  There are no
state constraints: in the models of the engine every counter is bounded by the
code itself.

An image cap of 2 is one less than the longest chain, 1 cuts a pair, 0 refuses
everything.  Two operations per line are enough for spans that overlap, touch,
share a start, or come in the wrong order, and for one refused beside one
accepted.  Three tokens against three hold a split, a fusion, a swap and a
corridor the path must leave; widths 6 and 20 are a box too small for its
tokens and one with room to round.  A second pass is enough for stability: it
starts from what a first pass writes.  In `Output`, two files are needed for a
collision and for one delivered beside one withheld; two replacements for a
file put back as it was (`MaxReplaced`); two runs (`MaxRuns`) and two writes
(`MaxWrites`) for a retry and for an older set in the directory.  Its file
names and document contents are symmetric: nothing in the module tells one
from another.

**Fairness.**  `Spec` has weak fairness on `RunStep`, the run's own steps:
a run is one coroutine that the host awaits; it never waits on another part of
the engine.  A producer that hangs forever is outside (its own timeouts turn
that into a transport failure).  Nothing forces `Abort`.  `Terminates` and
`PlanEnds` rest on this and nothing else.  Deadlock is checked in the runs of
`PageDriver` (`Terminated` is the explicit end); the other modules simply stop
when they are done.

### Disagreements with the documentation

Five runs are expected to fail.  Each checks one sentence of the repository
and finds a behaviour of the code that breaks it.

* `linking_midword_seam`: the first line of a page is already linked to the
  line below when the seam pass links the previous page onto it.
  `link_hyphen_pairs` promotes it to BOTH but leaves the downward pointer in
  the PAIR slot, which the upward link overwrites: the line below still points
  up, nothing points down.
* `run_chain_half_falls`: on a chain A, B, C, the join A-B is accepted, then
  B-C falls back; A keeps a correction whose second half is source text.
* `run_shared_ids`: the unit extension of a failed chunk skips members by bare
  id, so a cross-page partner that happens to share an id with a target keeps
  its correction.
* `run_dangling_chain`: a line that ends one pair and opens a word nothing
  continues is decided as a head, and the guard that keeps its break mark is
  never asked.
* `replay_misses_a_change`: a line with one operation accepted and one span
  refused is delivered changed, and none of its operations is published
  (`core/attempt.py:285`).

While modelling, five smaller disagreements of the run came up that the passing runs
avoid by their choice of documents, and that the model reproduces when the
constants are changed: with `MaxLines = 2` and `ExtensionSlack = 1` the planner
shares a chain longer than any window between windows without a recorded split
(`UnitsPlannedWhole`, `core/planner.py:169`); with ids restarted on the second
page the LINE planner takes a line of this page for the partner on the next
and severs its link (`OnlySplitsSever`, `core/planner.py:467`); a failed chunk
on page 2 does not reach a unit member two links away on page 1
(`ExhaustedUnitFalls` on a chain over a page break, `core/reconcile.py:182`); a
skipped line kept as context is sent to the producer, although
`core/routing.py:63` says its `model_input_text` stays `None` (in the model,
`skipped` and `asked` intersect); and a second hyphen violation is retried as
malformed output, although `core/retry.py:52` calls it non-retryable (`Retry`
with `coldLatch` set).

Editing and alignment:

* `core/alignment.py:268`: an excursion the corridor forbids is "reported
  rather than silently approximated".  From five tokens on it is not always:
  with band 0, a a b b a against b b a a b yields a dearer reading than the
  whole table would, and `band_exhausted` stays false.
* `core/editing.py:23` says that E4 and E5 never touch `ReplaceLine`; its
  `_whole_line_drift_refusal` applies both to whole lines.  Conversely
  `_script_to_raw`, the path a run takes, applies neither, although
  `docs/promises.md:55` says the whole-line path goes through them.
* `docs/promises.md:53` promises the boundary word; E5b judges each span alone.
* `core/validator.py` is "strict for every entry", context lines included: a
  line outside the chunk answered twice refuses the whole answer, even when both
  entries repeat its text.  `IdentityIsAccepted` therefore asks that no line be
  given twice.
* PAGE text is read with its inner line separators (`formats/page/_text.py`
  only strips the ends), and the validator refuses a text with one
  (`core/validator.py:180`): such a line cannot be given back as it was, so no
  answer about its chunk is ever valid.

Rewriter.  `ReadsAsDecided` holds under `BreakHasItsHyp`, which names the
lines on which the text of a rewritten line is not the decision, so that
`_verify_projection` withholds the file: the fast path ignores the space
before the mark that `_write_text_for` returns (a source with a space before
its HYP corrected to one without, or the reverse, with the same word count); a
heuristic break that the linker made explicit, or an explicit one without HYP,
loses its mark in place or gains a HYP when rebuilt; and a line severed from
its partner while a HYP stands at its end gets its mark back although the
decision dropped it.  `ChildrenTile` and `LossesExact` carry their own
conditions: a line rebuilt as NONE keeps its stale HYP box; a BOTH line that
collapses to one String, or a line with no word left, loses a HypPart1
uncounted; so does an abbreviation on the String that a heuristic link
promotes to HypPart1 or HypPart2.  `SettlesAtOnce` leaves out one kind of line
(`BreakOwnsItsSubs`): when the last String of a line that ends in a break is an
abbreviation, the parser takes its `SUBS_CONTENT` for the broken word whatever
its `SUBS_TYPE` (`formats/alto/parser.py:102`), so the rewriter finds the SUBS
out of date and turns the abbreviation into HypPart1, or removes it when the
break is only a mark, on a line nobody corrected, and counts no loss.

Output:

* `core/provenance.py:85` calls the stamp "both truthful and verified".  The
  parser digests a second read of every file, after all of them were parsed
  (`formats/alto/parser.py:536`); a file replaced in between is stamped, checked
  and attested as bytes nobody parsed.  `DeliveredAsParsed` excludes that
  window, and the one between the check and the rewrite, by name (`moved`).
* A declared source without a page is neither delivered nor undeliverable, and
  `write` does not refuse the set it is missing from.  A test skips such a file
  on purpose (`tests/test_rendering_channels.py:238`), so
  `OnlyFaithfulLeaves` speaks of the sources that have a page.
* A source whose flattened name is `report.json` would be overwritten by the
  report, and one named `sidecar.json` by the sidecar when there is one
  (`core/result.py`); `_refuse_colliding_names` compares sources with each other
  only.  `OutputAssumption` leaves both names out.
* An older report stays in the directory while a later run's files are being
  written, and a cut in that call leaves it beside them.  `ReportAccountsForAll`
  is about the report of the last call.

## 4. Proofs

All proofs are checked by TLAPS from the assumptions named in the modules:
`LayoutAssumption` (lines are numbered, pages are in order, ids are unique on a
page), `PlannerAssumption`, `LinkChoicesAssumption` (the links handed to the
run are `WellLinked`: one head per tail, one tail per head, and a line
something points at has a role), `DriverAssumption` (policy values are
positive), `PairingAssumption`, `OutputAssumption`, `AlignmentAssumption`,
`EditingAssumption` and `ProposalAssumption` (a document gives each of its lines
a text, and texts are finite sequences).  TLC evaluates them in every run that
extends those modules.  Nothing else is assumed, except where a
theorem says `ASSUME`; those hypotheses are discussed below, each with what
happens without it.

A proof follows one pattern throughout: an inductive invariant stated as a
conjunction of named parts, checked with TLC before it was proved; one lemma
per action; a last step that leaves the temporal part to PTL.  Facts that need
an induction over numbers (a loop reaches its end, a table row exists) are
proved from the least counterexample, because the library's induction theorems
take an operator as a parameter.

### The linker (`PairingProofs`)

`LinkingInv` says that every slot in use reaches the next line with text, in
its direction, and that a slot nothing may read is empty (`ReachNextText`).
From it follow `WordsReachTheNextText`, `LinksGoDown` and
`LinkerLeavesWellLinked`, without any hypothesis: even a word broken at a page
seam in the wrong place leaves a well-formed structure.  `LinksHaveShape` adds
two facts the planner relies on: a slot that a role does not read is empty
(`SlotsRead`), and no line inside a link continues a word of its own
(`LinksClose`).

`LinksAgree` and `SeamsOnlyAdd` need `SeamSafe`: no page below another opens
in the middle of a word.  Without it both are false (run
`linking_midword_seam`).  `AgreeInv` adds what the loops have not reached yet:
below the page pass nothing continues, and the first line of a page whose seam
is still to come has an empty PAIR slot if it opens a word.  So every pairing
meets two lines that are `Free` on the sides that meet, and can only add.

### The planner and the batcher (`PlannerProofs`, `BatchingProofs`)

`PlanInv` follows each loop: the chunks of a plan divide its scope
(`Division`), blocks closed so far are closed under what makes blocks travel
together, the windows cover every line before `at`, the LINE loop has planned
exactly the lines before `at`, and an idle plan owns its scope.  It carries
`RequestsAreBounded` and `PlansOwnOnce` (one owner per line, and the owner
sends the line).  The lemmas underneath are about positions in a scope
(`PosGap`, `WindowBounds`, `NextWindow`, `ChainEndBounds`): a window never
skips a line, and every loop advances.

`PlansSendPartners`: outside LINE grain, the chunk that owns the tail of a word
sends its head.  `PlansGoDown`: no chunk owns the head of a
word whose tail a later chunk owns.  `PlansKeepUnits`: two lines that are still
linked when a plan is finished have the same owner.  `WholeInv` says why, loop by
loop: a window that reaches the first line of a unit was extended to its last
(`WindowsWhole`; this is where `UnitsNear` is needed), a block never closes
inside a unit, and the LINE loop severs what it does not keep together
(`PlannedWhole`).  `OnlyRecordedSplits`: only the
LINE loop severs, it records what it severs, and it changes no other link.

`BatchInv` adds the slicing loop: batches and the one being filled divide what
was assigned, and each holds every linked line of its chunk.  It carries
`CallsAreBounded`, `CallsAreOwnedOnce` and `UnitsKeepOneCall`.

### The decisions of a run (`DecisionProofs`)

* **`RunKeepsContract`**: `Spec => KeepsContract`.  The run implements
  `DecisionContract`, for every document, plan, producer, policy, with routing
  on or off.  The inductive invariant is
  `LedgerInv == LedgerTypeOK /\ DecisionsCoherent`: coherence is what makes a
  second `fall_back` a no-op, and what lets acceptance conclude from a missing
  text that a line is undecided.  One lemma per writer (`FallBackMoves`,
  `AcceptMoves`, `RespellMoves`) gives the steps the contract allows; one lemma
  per action applies it.  `RunCoherent` is the same invariant, as a property of
  the report; `ContractCoherent` says the same of every
  implementation of the contract.
* **`WorkStaysOnPage`**: the router accepts lines outside every unit without
  looking at their status, so the contract needs to know that no such line has
  fallen yet.  A line of a later page can only have fallen as a member of a
  unit reaching over the page break.  That takes an invariant about where work
  can reach: plans, windows, chunks and joins stay on the page or its direct
  partners; splits rewrite roles of the current page only, and only after it
  was routed.

### The run (`PageDriverProofs`)

`RunInv` joins `LocalityInv` and `LedgerInv` with `CoverInv`: every pending line
of the page is in `Left`, what the queue, the plan, the open descents and the
item under way still have to decide.  It rests on `PlanInv`, held while a plan
is under way, so that the plan of a page or of a descent owns its whole scope.

* **`PagesAreDecided`**: nothing behind the current page is undecided.
* **`DecisionsAreDerived`**: the document-wide passes start only after the last
  page (`PassesAreLast`) and leave no line undecided, so the refusal of
  `derive_decision_set` is never met: the model has it as a branch of
  `DeriveDecisions` that no run takes.
* **`BudgetIsKept`**: a planned chunk costs at most `per_chunk_budget` calls,
  descent and retries included.  During an attempt `calls` is what left the
  purse plus the attempts before this one.  An absorbed error leaves its
  attempts uncharged, which is harmless only because it ends the work item;
  `BudgetInv` says so.
* **`ItemsDecideTheirOwn`**: a work item writes only the units of its targets.
  Joins claimed at the answer stay inside those units while the item lasts.
* **`ConfirmedKeepSource`**: a line the router confirmed is outside every unit
  and stays there, because a split gives nobody a role; so no join, unit revert
  or respelling reaches it (`SkippedInv`).
* **`RunTypes`**: the type invariant.
* **`NobodyDecidedUnasked`** (hypothesis `LinksNear`): a join decides two
  lines, and the head may be mere context of the chunk that owns the tail.
  `AskedInv` says why it was asked all the same: it travels with the tail in
  every chunk that can still be cut (`PlansSendPartners`), or it belongs to the
  chunk being descended, which was asked before the descent.
* **`RunSeversOnRecord`** (hypotheses `OneLinePerId`, `Symmetric`):
  `OnlyRecordedSplits` carried through the steps of a run.
* **`CorrectionsStand`** (hypotheses `LinksNear`, `Symmetric`): a decided
  correction is never written over.  A join writes its head from the answer,
  whatever the head says, so the property holds only if no head is corrected
  before its join is walked.  `StandsInv` says how the engine brings that
  about: plans go down the page (`PlansGoDown`) and stay in that order through
  routing, escalation and descent (`WorkInOrder`); an escalated tail takes its
  head along (`HeadsEscalate`); lines waiting for an answer have heads at their
  source text (`HeadsAtSource`); a join over a page break belongs to the chunk of
  the head, which is why it is walked in the page's own turn (`JoinsAtSource`).
  `StandsInv` was model-checked on chains, page breaks, routing and escalation
  before it was proved.
* **`PairsStayTogether`**, **`UnitsFallWhole`**, **`MarksAreKept`** (hypotheses
  `InPairs`, `Symmetric`, `LinksNear`, `OneLinePerId`): no pair ships half
  corrected, a chunk that gives up takes whole units with it, and a line that
  opens a word keeps its mark.  `PairsInv` carries them through descents,
  absorbed errors, joins over a page break and the final passes: what a work
  item knows of its partners is what the links say (`PartnersKnown`), a join
  that was accepted settles both lines at once (`JoinsSettle`), and the two lines
  of a decided pair agree (`PairsTogether`).  A LINE split that separates a
  pair takes it out of these properties, on record (`SeveringInv`).
* **`RoutingKeepsUnits`** (hypotheses `LinksNear`, `Symmetric`, `SlotsRead`,
  `LinksClose`, `UnitsNear`, `OneLinePerId`): chains of any length included, the
  lines of a unit on the page are in one work item.  `RouteInv` carries
  `PlansKeepUnits` through the router: an escalated line takes both its
  neighbours along (`HeadsEscalate`, `TailsEscalate`), so cutting a chunk into
  escalated and other lines cuts no unit.

### Hypotheses on the links

| Hypothesis | Says | Where it comes from | Without it |
|---|---|---|---|
| `SeamSafe` | no page below another opens in the middle of a word | a property of the document | `linking_midword_seam`: a link read from one end only |
| `Symmetric` | links agree from both ends | `LinksAgree`, on a `SeamSafe` document | the links of `linking_midword_seam` are outside the theorems: a severing there may clear one slot and leave the other |
| `OneLinePerId` | a bare `line_id` names one line | one file, or files that number lines apart | the LINE planner severs another page's link (`core/planner.py:467`) |
| `SlotsRead`, `LinksClose` | a slot no role reads is empty; no line inside a link continues a word | `LinksHaveShape`, for everything the linker leaves | a stale slot would join lines into a unit that no pass keeps together |
| `UnitsNear` | the lines of a unit on one page lie within `ExtensionSlack` | a property of the document: a chain over fewer than ten lines | the planner shares a chain between two windows (`core/planner.py:169`) |
| `InPairs` | no line both ends a word and opens the next | a property of the document | `run_chain_half_falls`, `run_dangling_chain` |
| `Legible` | a text is one line, and both lines of a pair have text | ALTO texts are one line (`formats/alto`); the linker reads the roles off texts that end in a mark, and skips blank lines | the PAGE observation of section 3: an unchanged answer is refused |
| `LinksNear` | links go down; on a page, at most `ExtensionSlack` lines | the direction is `LinksGoDown`; the distance is a property of the document: a word over fewer than ten blank lines (`ExtensionSlack` is 10 in the code) | the head falls out of its tail's window, and a join decides a line nobody was asked about |

`LinksNear` is not a formality: with `ExtensionSlack = 0` and
`WindowOverlap = 0` in `MCPageDriver_contract.cfg`, TLC finds
`CorrectedWasAsked` violated.  The passing runs of the planner and of the run
start from links and ids that satisfy the hypotheses their properties are
proved from (`InPairs` in `run_pairs` only), `linking` from roles that satisfy
`SeamSafe`, and `proposal` from documents that are `Legible`.

### The aligner (`AlignmentProofs`)

`AlignInv` says what the inputs are (`Inputs`), that every row filled so far is
the row of the recurrence (`Filling`, and `AtHand` once the table is complete),
and what has been read back: the pairs read cover the tokens after the current
cell, in order, once each, and every cell visited is in the corridor
(`ReadSoFar`); equal sequences are read along the diagonal (`OnDiagonal`).  It
carries `ReadingStaysInCorridor`, `TokensReadOnce` and `EchoIsTrusted`: an echo
is read along the diagonal, so it is not refused, yields no edit, and raises no
move flag, each token matched with itself (`EchoMovesNothing`).

A row is a recursive function over the columns; that it exists, and satisfies its
equation, is proved once, from the least column at which no prefix of it
exists.  `ReadingIsCheapest` is the optimality of the whole search, in two
parts.  For every band, no walk of deletions, insertions and pairs that stays on
the cells of the corridor reaches the last cell for less (`CheapestInCorridor`:
each step pays at least the difference of the two cells, `WalkPays`).  When the
corridor covers the table, a cell costs no more than any monotone matching of
what comes before it (`TableIsCheapest`, by the least cell that is a
counterexample).  In both, the pairs read back cost what the last cell says
(`ReadingCost`).  Ties are covered: whichever minimal move is taken, the cost is
the same.

`MovesAreNoticed` has the hypothesis that only a token itself is nearly
identical to it.  Without it two different tokens above the threshold could
change places and be taken for corrections of each other, which is what the
code does.

### Proposals (`ProposalProofs`)

`AnswerInv` follows a script from the answer to the replay.  Its heart is
`KeptWhole`: of a line the engine captures either everything it was given, none
of it refused, or nothing.  Then applying what was kept to the source makes the
delivered text (`KeptTellsTheText`), which is why replaying it agrees.
`ReplayAgrees` and `LookalikesAreLeft` hold for every document, number of
operations, verdict and consumer, with no hypothesis.  `UnchangedIsAccepted`
(hypothesis `Legible`): giving lines back as they were is never refused.

`SpansLandExactly` is about what the spans of a script do to a line: one after
the other, from the right, on text that moves.  Ranked by place and number, they
are in order (`InOrder`); those that neither reach into the last one accepted
nor start where it does lie apart, from left to right (`AcceptedIs`); and
splicing one in to the left of the others adds its piece and moves none of
theirs (`PiecesSpliced`): up to its end the text is still the source, past it
both have the same rest.  So the loop computes `Pieces`, which reads the line
position by position and knows of no order (`AppliedIs`).  Only that texts are
finite sequences is assumed (`ProposalAssumption`).

### Files (`OutputProofs`)

`OutputInv` joins four parts: types; `DeliveryInv` (what the rewriter has passed
is on exactly one side); `WritingInv` (a call under way had the right to write,
and its report does not exist before everything it claims is on disk);
`ProvenanceInv` (the digests stamped, checked and attested name the bytes
parsed, for each source outside `moved`).  It carries `OnlyFaithful`,
`ReportAccounts` and `DeliversWhatWasParsed`, for any number of sources, runs,
calls, cuts and replacements.

### Only model-checked

* `Terminates` and `PlanEnds`: liveness under fairness is out of the prover's
  reach.
* `ReadsAsDecided`, `ChildrenTile`, `IdentityFollowsWords`, `LossesExact`,
  `SettlesAtOnce`: the children of a line and its text are built by selections,
  folds and counts that take an operator as a parameter, where no installed
  prover can instantiate an induction.  `SettlesAtOnce` could be reached by
  restating those selections by ranks, as `Editing` does for its spans; that
  restatement has not been made.
* Runs of `PageDriver` start from links given as a constant.  That the links
  `Pairing` leaves satisfy what the theorems ask of that constant is proved
  module by module; that the two state machines compose is not stated as a
  theorem.

## 5. Not modelled, and the plan

Left out for good: XML trees beyond a text line (blocks, margins, reading
order, the provenance stamp), encodings, wording of messages, events, backoff
durations, token usage, the similarity measures, counters and confidences that
are sums over the decisions.  Roles as parsed from markup are inputs of
`Pairing`; the scorer's and the guards' numbers are nondeterministic.  PAGE is
not modelled: its rewriter shares the aligner and the contract of the ALTO one,
but not its line markup.  The producers are external.

`Proposal` and `PageDriver` are not composed into one state machine: an answer
of `Proposal` is what `Answered` and `Retry` stand for in `PageDriver`, and the
product of texts and plans is out of a model checker's reach.

Next, in order:

1. `formats/page/rewriter.py` at line level, sharing `Alignment`.
2. The composition of `Pairing` and `PageDriver` as one state machine, so that
   the hypotheses `LinksAgree` and `LinksHaveShape` discharge need not be named.
