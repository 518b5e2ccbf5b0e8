----------------------------- MODULE PageDriver -----------------------------
(***************************************************************************)
(* One correction run, from the parsed document to the decision set        *)
(* (core/driver.py, attempt.py, retry.py, outcome.py, reconcile.py,        *)
(* acceptance.py, routing.py, finalize.py, decisions.py and the page loop  *)
(* of pipeline.py).                                                        *)
(*                                                                         *)
(* The run is one task: pages in order, a page's chunks in order, a        *)
(* chunk's attempts in order.  What is not determined is the producer      *)
(* (answers, malformed output, transport failures, errors, at every call), *)
(* the text guards, the host's cancellation probe and the QE scorer.  One  *)
(* action is one producer call, one join, one line's acceptance, one       *)
(* document-wide pass; planning is Planner's steps.                        *)
(*                                                                         *)
(* The recursive descent of _run_chunk is flattened: `subs` is what is     *)
(* left of every open sub-plan, innermost first, which is the order the    *)
(* recursion visits them in.                                               *)
(***************************************************************************)
EXTENDS Planner, Ledger

CONSTANTS
    NumPages,        \* pages of the document
    FileOf,          \* source file of each page
    Marked,          \* lines whose source text ends in a break mark
    MaxAttempts,     \* RetryPolicy.max_attempts
    PerChunkBudget,  \* RetryPolicy.per_chunk_budget
    Routing,         \* a QE scorer is set and the policy has a bound
    CanEscalate,     \* an escalation producer is set
    LossMode         \* LossPolicy: "report", "strict" or "realign"

ASSUME DriverAssumption ==
    /\ NumPages \in Nat
    /\ \A l \in Lines : PageOf[l] =< NumPages
    /\ DOMAIN FileOf = 1..NumPages
    /\ Marked \subseteq Lines
    /\ MaxAttempts \in Nat \ {0} /\ PerChunkBudget \in Nat \ {0}
    /\ Routing \in BOOLEAN /\ CanEscalate \in BOOLEAN
    /\ LossMode \in {"report", "strict", "realign"}

VARIABLES
    pc,              \* where the run is
    page,            \* the page being processed, or the next one
    partners,        \* cross_page_partners of the page
    queue,           \* work items of the page not started yet
    escalate,        \* lines of the page routed to the escalation producer
    top,             \* the work item being processed
    cur,             \* the chunk being attempted: top or one of its descent
    subs,            \* chunks of the descent not started yet
    attempt,         \* number of the attempt under way
    coldLatch,       \* hyphen_violation: pins the later attempts to 0.0
    failure,         \* family of the last failed attempt
    budget,          \* ChunkBudget.remaining of the work item
    calls,           \* producer calls made for the work item
    joins,           \* joins this chunk owns and has not walked yet
    todo,            \* target lines acceptance has not visited yet
    asked,           \* lines whose trace holds a model_input_text
    skipped,         \* lines the router confirmed clean
    fallbackChunks,  \* ctx.fallback_chunks
    sidecar          \* lines whose correction the loss gate set aside

pageVars == <<page, partners, queue, escalate>>
chunkVars == <<top, cur, subs, attempt, coldLatch, failure, budget, calls>>
decideVars == <<joins, todo>>
runVars == <<asked, skipped, fallbackChunks, sidecar>>
driverVars == <<pc, pageVars, chunkVars, decideVars, runVars>>
vars == <<planVars, ledger, driverVars>>

NoChunk == WholeChunk("PAGE", {})
PageLines(p) == {l \in Lines : PageOf[l] = p}
Opens(l) == links.role[l] \in {"PART1", "BOTH"}

-----------------------------------------------------------------------------
(* What a page can see. *)

(* The lines of other pages this page's slots point at. *)
CrossPagePartners(p) ==
    {m \in Lines \ PageLines(p) :
        \E l \in PageLines(p) : m \in {links.pair[l], links.forward[l]}}

Pool == PageLines(page) \cup partners

(* _lookup_ref for a slot of a line of the page. *)
Visible(ref) == ref \in Pool

(* Texts an answer may hold for a line. *)
Proposals(l) == IF l \in Marked THEN Texts ELSE {Source, "fix"}

(* A proposal for l that still ends in a break mark. *)
KeepsMark(l, t) == IF t = Source THEN l \in Marked ELSE t # "drop"

-----------------------------------------------------------------------------
(* Falling back. *)

(* Faulty: the chunk's own targets only. *)
ChunkFallback_TargetsOnly(c) == fall_back([m \in c.targets |-> "exhausted"])

(* _apply_chunk_fallback: the targets, then the rest of their units in the *)
(* pool.  _extend_to_units skips a member by BARE id.                      *)
ChunkFallback(c) ==
    LET pulled == {m \in units_containing(links, c.targets, Pool) :
                      \A t \in c.targets : IdOf[m] # IdOf[t]}
    IN fall_back([m \in c.targets \cup pulled |->
                     IF m \in c.targets THEN "exhausted" ELSE "unit"])

(* Faulty: the error is counted, its lines are left alone. *)
AbsorbError_CountOnly == UNCHANGED ledger /\ fallbackChunks' = fallbackChunks + 1

(* _absorb_chunk_error: what the work item left PENDING, whole units. *)
AbsorbError ==
    LET undecided == {l \in top.targets : status[l] = "pending"}
    IN IF undecided = {} THEN UNCHANGED <<ledger, fallbackChunks>>
       ELSE /\ fall_back([m \in units_containing(links, undecided, Pool) |-> "absorbed"])
            /\ fallbackChunks' = fallbackChunks + 1

(* Faulty: the flagged lines alone. *)
UnitReverts_FlaggedOnly(flagged, why, whyUnit) == fall_back([m \in flagged |-> why])

(* _apply_unit_reverts: flagged lines and their units, document-wide. *)
UnitReverts(flagged, why, whyUnit) ==
    fall_back([m \in units_containing(links, flagged, Lines) |->
                  IF m \in flagged THEN why ELSE whyUnit])

-----------------------------------------------------------------------------
(* Pages and routing. *)

(* Cancellation is polled before a page, a chunk and a sub-chunk. *)
Abort ==
    /\ \/ pc = "page" /\ page =< NumPages
       \/ pc = "chunk" /\ queue # <<>>
       \/ pc = "sub" /\ subs # <<>>
    /\ pc' = "failed"
    /\ UNCHANGED <<planVars, ledger, pageVars, chunkVars, decideVars, runVars>>

StartPage ==
    /\ pc = "page" /\ page =< NumPages
    /\ partners' = CrossPagePartners(page)
    /\ BeginPlan(PageLines(page), "page")
    /\ pc' = "plan"
    /\ UNCHANGED <<ledger, page, queue, escalate, chunkVars, decideVars, runVars>>

PlanStep ==
    /\ pc \in {"plan", "replan"} /\ planning # "idle"
    /\ PlanNext
    /\ UNCHANGED <<ledger, driverVars>>

(* Routing off: every chunk is a work item. *)
KeepPlan ==
    /\ pc = "plan" /\ planning = "idle" /\ ~Routing
    /\ queue' = chunks /\ pc' = "chunk"
    /\ UNCHANGED <<planVars, ledger, page, partners, escalate, chunkVars, decideVars, runVars>>

(* Faulty: a flagged member of a unit escalates alone. *)
Escalated_Alone(lone, seeds) == lone \cup seeds

(* Lines outside a unit escalate alone, a member takes its unit along. *)
Escalated(lone, seeds) == lone \cup units_containing(links, seeds, PageLines(page))

(* Faulty: a member of a hyphen unit may be skipped too. *)
Skippable_Any(P) == P

(* Only a line outside every hyphen unit is ever confirmed clean. *)
Skippable(P) == {l \in P : links.role[l] = "NONE"}

(* Routing on: the scorer puts any line outside a hyphen unit in a tier; a *)
(* unit is never skipped, and escalates whole when the page holds it all.  *)
RoutePlan ==
    /\ pc = "plan" /\ planning = "idle" /\ Routing
    /\ LET P == PageLines(page)
           loose == {l \in P : links.role[l] = "NONE"}
           whole == {l \in P \ loose : UnitComplete(links, l, P)}
       IN \E skip \in SUBSET Skippable(P) :
          \E lone \in SUBSET (loose \ skip), seeds \in SUBSET whole :
             /\ escalate' = Escalated(lone, seeds)
             /\ CanEscalate \/ escalate' = {}
             /\ accept([l \in skip |-> Source])
             /\ skipped' = skipped \cup skip
    /\ pc' = "route"
    /\ UNCHANGED <<planVars, page, partners, queue, chunkVars, decideVars,
                   asked, fallbackChunks, sidecar>>

(* A chunk owning T, if it owns anything. *)
Owning(c, T) == IF T = {} THEN <<>> ELSE <<[c EXCEPT !.targets = T]>>

(* One iteration of _work_items: skipped targets leave their chunk,        *)
(* escalated ones move to a sibling chunk with the same lines, a chunk     *)
(* left with no target is dropped.                                         *)
RouteChunk ==
    /\ pc = "route" /\ chunks # <<>>
    /\ LET c == Head(chunks)
           owned == c.targets \ skipped
       IN queue' = queue \o Owning(c, owned \ escalate) \o Owning(c, owned \cap escalate)
    /\ chunks' = Tail(chunks)
    /\ UNCHANGED <<links, splits, planning, scope, at, windows, ledger, pc, page, partners,
                   escalate, chunkVars, decideVars, runVars>>

EndRouting ==
    /\ pc = "route" /\ chunks = <<>>
    /\ pc' = "chunk"
    /\ UNCHANGED <<planVars, ledger, pageVars, chunkVars, decideVars, runVars>>

EndPage ==
    /\ pc = "chunk" /\ queue = <<>>
    /\ page' = page + 1 /\ pc' = "page" /\ escalate' = {}
    /\ UNCHANGED <<planVars, ledger, partners, queue, chunkVars, decideVars, runVars>>

-----------------------------------------------------------------------------
(* One work item: attempts, retries, descent. *)

(* A work item starts with a fresh budget; one without lines returns. *)
StartChunk ==
    /\ pc = "chunk" /\ queue # <<>>
    /\ queue' = Tail(queue)
    /\ top' = Head(queue) /\ cur' = Head(queue)
    /\ subs' = <<>> /\ attempt' = 1 /\ coldLatch' = FALSE /\ failure' = "none"
    /\ budget' = PerChunkBudget /\ calls' = 0
    /\ pc' = IF Head(queue).lines = {} THEN "sub" ELSE "attempt"
    /\ UNCHANGED <<planVars, ledger, page, partners, escalate, decideVars, runVars>>

(* Faulty: the policy's cap, whatever is left. *)
AttemptsAllowed_Uncapped == MaxAttempts

(* ChunkBudget.attempts_allowed. *)
AttemptsAllowed == Min({MaxAttempts, Max({budget, 0})})

(* One producer call: counted, and recorded as asked of every line sent. *)
ProducerCall ==
    /\ pc = "attempt"
    /\ calls' = calls + 1
    /\ asked' = asked \cup cur.lines

(* Faulty: a missing partner is not noticed; the tail owns every join. *)
ClaimedJoins_Unresolved(targets) ==
    {<<l, forward_partner_ref(links, l)>> : l \in {t \in targets : Opens(t)}}
ClaimedJoins_ByTail(targets) ==
    {<<l, forward_partner_ref(links, l)>> :
        l \in {t \in targets : forward_partner_ref(links, t) \in Pool}}

(* The joins a chunk owns (_claim_joins): by the tail on a page, by the    *)
(* head across a page boundary.                                            *)
ClaimedJoins(targets) ==
    {<<l, forward_partner_ref(links, l)>> :
        l \in {t \in targets : forward_partner_ref(links, t) \in PageLines(page)}}
    \cup
    {<<backward_partner_ref(links, h), h>> :
        h \in {t \in targets : backward_partner_ref(links, t) \in partners}}

(* The answer validated: the attempts are charged, the chunk is decided. *)
Answered ==
    /\ ProducerCall
    /\ budget' = budget - attempt
    /\ joins' = ClaimedJoins(cur.targets) /\ todo' = cur.targets
    /\ pc' = "reconcile"
    /\ UNCHANGED <<planVars, ledger, pageVars, top, cur, subs, attempt,
                   coldLatch, failure, skipped, fallbackChunks, sidecar>>

(* The recoverable failures of an attempt: a transport error, malformed    *)
(* output, or a hyphen violation when a target opens a pair.               *)
Recoverable ==
    {"transient", "output"} \cup
    (IF \E l \in cur.targets : Opens(l) THEN {"hyphen"} ELSE {})

(* Every recoverable failure is retryable; the first hyphen violation      *)
(* latches the temperature pin.                                            *)
Retry ==
    /\ ProducerCall
    /\ attempt < AttemptsAllowed
    /\ failure' \in Recoverable
    /\ attempt' = attempt + 1
    /\ coldLatch' = (coldLatch \/ failure' = "hyphen")
    /\ UNCHANGED <<planVars, ledger, pc, pageVars, top, cur, subs, budget,
                   decideVars, skipped, fallbackChunks, sidecar>>

AttemptsExhausted ==
    /\ ProducerCall
    /\ attempt >= AttemptsAllowed
    /\ failure' \in Recoverable
    /\ budget' = budget - attempt
    /\ pc' = "failure"
    /\ UNCHANGED <<planVars, ledger, pageVars, top, cur, subs, attempt,
                   coldLatch, decideVars, skipped, fallbackChunks, sidecar>>

(* A domain error outside the recoverable families leaves the whole work   *)
(* item, descent included, and is absorbed.                                *)
DomainError ==
    /\ ProducerCall
    /\ AbsorbError
    /\ failure' = "domain"
    /\ subs' = <<>> /\ pc' = "sub"
    /\ UNCHANGED <<planVars, pageVars, top, cur, attempt, coldLatch, budget,
                   decideVars, skipped, sidecar>>

(* A permanent rejection, a cancellation seen by the producer, a bug: the  *)
(* run fails.                                                              *)
FatalError ==
    /\ ProducerCall
    /\ failure' = "fatal" /\ pc' = "failed"
    /\ UNCHANGED <<planVars, ledger, pageVars, top, cur, subs, attempt,
                   coldLatch, budget, decideVars, skipped, fallbackChunks, sidecar>>

CanDescend == downgrade_granularity(cur.gran) # "none" /\ budget > 0

(* Faulty: context lines are planned again as well. *)
Descend_WholeChunk ==
    /\ pc = "failure" /\ CanDescend
    /\ BeginPlan(cur.lines, downgrade_granularity(cur.gran))
    /\ pc' = "replan"
    /\ UNCHANGED <<ledger, pageVars, chunkVars, decideVars, runVars>>

(* Only the targets are planned again, one grain finer. *)
Descend ==
    /\ pc = "failure" /\ CanDescend
    /\ BeginPlan(cur.targets, downgrade_granularity(cur.gran))
    /\ pc' = "replan"
    /\ UNCHANGED <<ledger, pageVars, chunkVars, decideVars, runVars>>

OpenDescent ==
    /\ pc = "replan" /\ planning = "idle"
    /\ subs' = chunks \o subs /\ pc' = "sub"
    /\ UNCHANGED <<planVars, ledger, pageVars, top, cur, attempt, coldLatch,
                   failure, budget, calls, decideVars, runVars>>

GiveUpChunk ==
    /\ pc = "failure" /\ ~CanDescend
    /\ ChunkFallback(cur)
    /\ fallbackChunks' = fallbackChunks + 1
    /\ pc' = "sub"
    /\ UNCHANGED <<planVars, pageVars, chunkVars, decideVars,
                   asked, skipped, sidecar>>

(* A sub-chunk spends from the work item's budget. *)
StartSub ==
    /\ pc = "sub" /\ subs # <<>> /\ budget > 0
    /\ cur' = Head(subs) /\ subs' = Tail(subs)
    /\ attempt' = 1 /\ coldLatch' = FALSE /\ failure' = "none"
    /\ pc' = IF Head(subs).lines = {} THEN "sub" ELSE "attempt"
    /\ UNCHANGED <<planVars, ledger, pageVars, top, budget, calls, decideVars, runVars>>

(* The budget ran out mid-descent: the sub-chunk falls back unattempted. *)
StarveSub ==
    /\ pc = "sub" /\ subs # <<>> /\ budget =< 0
    /\ ChunkFallback(Head(subs))
    /\ subs' = Tail(subs)
    /\ fallbackChunks' = fallbackChunks + 1
    /\ UNCHANGED <<planVars, pc, pageVars, top, cur, attempt, coldLatch,
                   failure, budget, calls, decideVars, asked, skipped, sidecar>>

EndChunk ==
    /\ pc = "sub" /\ subs = <<>>
    /\ pc' = "chunk"
    /\ UNCHANGED <<planVars, ledger, pageVars, chunkVars, decideVars, runVars>>

-----------------------------------------------------------------------------
(* An answered chunk: joins in reading order, then the other targets. *)

(* Faulty: the tail may lose its break mark. *)
PairStands_AnyEnding(t, p1, p2) == TRUE

(* What reconcile_hyphen_pair may make of the two proposals: an unchanged  *)
(* pair stands, a tail that lost its break mark never does, the guards     *)
(* decide the rest.                                                        *)
PairStands(t, p1, p2) == KeepsMark(t, p1) \/ (p1 = Source /\ p2 = Source)
PairFalls(p1, p2) == p1 # Source \/ p2 # Source

(* Faulty: the tail's text is always read from the answer. *)
TailTexts_FromAnswer(t) == IF t \in cur.lines THEN Proposals(t) ELSE {Source}

(* The tail's decision, when it has one, comes before the answer; the      *)
(* head's text is the answer's, or its source when the answer does not     *)
(* speak of it.                                                            *)
TailTexts(t) == IF text[t] # NoText THEN {text[t]}
                ELSE IF t \in cur.lines THEN Proposals(t) ELSE {Source}
HeadTexts(h) == IF h \in cur.lines THEN Proposals(h) ELSE {Source}

(* _reconcile_one_pair on the next join: a member that fell already takes  *)
(* the other with it.                                                      *)
ReconcileJoin ==
    /\ pc = "reconcile"
    /\ \E j \in joins :
       LET t == j[1]
           h == j[2]
           bothFall == fall_back([m \in {t, h} |-> "pair"])
       IN /\ \A k \in joins : t =< k[1]
          /\ joins' = joins \ {j}
          /\ \/ "fallback" \in {status[t], status[h]} /\ bothFall
             \/ /\ "fallback" \notin {status[t], status[h]}
                /\ \E p1 \in TailTexts(t), p2 \in HeadTexts(h) :
                      \/ PairStands(t, p1, p2) /\ accept([m \in {t, h} |-> IF m = t THEN p1 ELSE p2])
                      \/ PairFalls(p1, p2) /\ bothFall
    /\ UNCHANGED <<planVars, pc, pageVars, chunkVars, todo, runVars>>

JoinsDone ==
    /\ pc = "reconcile" /\ joins = {}
    /\ pc' = "accept"
    /\ UNCHANGED <<planVars, ledger, pageVars, chunkVars, decideVars, runVars>>

FallenPartner(l) ==
    \E m \in {links.pair[l], links.forward[l]} : Visible(m) /\ status[m] = "fallback"

(* The verdicts the text guards may give: an identity always passes. *)
check_line(p) == IF p = Source THEN {TRUE} ELSE BOOLEAN

(* _apply_line_acceptance on one target: skip a decided line, then the     *)
(* orphan guard, the fallen-partner guard and check_line.                  *)
DecideTarget(l) ==
    \/ text[l] # NoText /\ UNCHANGED ledger
    \/ /\ text[l] = NoText
       /\ \E p \in Proposals(l) :
             LET orphan == Opens(l) /\ l \in Marked /\ ~KeepsMark(l, p)
             IN \/ orphan /\ fall_back([m \in {l} |-> "orphan"])
                \/ ~orphan /\ FallenPartner(l) /\ fall_back([m \in {l} |-> "partner"])
                \/ /\ ~orphan /\ ~FallenPartner(l)
                   /\ \E accepted \in check_line(p) :
                         \/ accepted /\ accept([m \in {l} |-> p])
                         \/ ~accepted /\ fall_back([m \in {l} |-> "rejected"])

(* Faulty: a decided line is not passed over. *)
AcceptLine_Stuck ==
    /\ pc = "accept"
    /\ \E l \in todo : /\ \A m \in todo : l =< m
                      /\ DecideTarget(l)
                      /\ todo' = IF text[l] = NoText THEN todo \ {l} ELSE todo
    /\ UNCHANGED <<planVars, pc, pageVars, chunkVars, joins, runVars>>

(* The targets, in reading order. *)
AcceptLine ==
    /\ pc = "accept"
    /\ \E l \in todo : /\ \A m \in todo : l =< m
                      /\ DecideTarget(l)
                      /\ todo' = todo \ {l}
    /\ UNCHANGED <<planVars, pc, pageVars, chunkVars, joins, runVars>>

TargetsDone ==
    /\ pc = "accept" /\ todo = {}
    /\ pc' = "sub"
    /\ UNCHANGED <<planVars, ledger, pageVars, chunkVars, decideVars, runVars>>

-----------------------------------------------------------------------------
(* The document-wide passes, in the order _FinalizeOrder demands. *)

EndPages ==
    /\ pc = "page" /\ page > NumPages
    /\ pc' = "adjacency"
    /\ UNCHANGED <<planVars, ledger, pageVars, chunkVars, decideVars, runVars>>

(* Seams inside one file where a correction stands on either side: only    *)
(* those can look duplicated or migrated.                                  *)
Seams == {l \in Lines : /\ l + 1 \in Lines
                        /\ FileOf[PageOf[l]] = FileOf[PageOf[l + 1]]
                        /\ Changed(l) \/ Changed(l + 1)}

AdjacencyPass ==
    /\ pc = "adjacency"
    /\ \E bad \in SUBSET Seams :
          UnitReverts(bad \cup {l + 1 : l \in bad}, "adjacency", "adjacency_unit")
    /\ pc' = "breaks"
    /\ UNCHANGED <<planVars, pageVars, chunkVars, decideVars, runVars>>

(* The source's break mark is forced back onto every changed text. *)
PreserveBreakChars ==
    /\ pc = "breaks"
    /\ renormalise([l \in {m \in Lines : text[m] = "glyph"} |-> Source])
    /\ pc' = "loss"
    /\ UNCHANGED <<planVars, pageVars, chunkVars, decideVars, runVars>>

LossPolicyPass ==
    /\ pc = "loss"
    /\ \E flagged \in SUBSET {l \in Lines : Changed(l)} :
          /\ LossMode = "report" => flagged = {}
          /\ UnitReverts(flagged, "loss", "loss_unit")
          /\ sidecar' = IF LossMode = "realign"
                        THEN {l \in units_containing(links, flagged, Lines) : Changed(l)}
                        ELSE {}
    /\ pc' = "derive"
    /\ UNCHANGED <<planVars, pageVars, chunkVars, decideVars,
                   asked, skipped, fallbackChunks>>

(* derive_decision_set refuses an undecided line. *)
DeriveDecisions ==
    /\ pc = "derive"
    /\ pc' = IF \E l \in Lines : status[l] = "pending" THEN "failed" ELSE "done"
    /\ UNCHANGED <<planVars, ledger, pageVars, chunkVars, decideVars, runVars>>

Terminated == pc \in {"done", "failed"} /\ UNCHANGED vars

-----------------------------------------------------------------------------
Init ==
    /\ links \in LinkChoices /\ splits = {}
    /\ planning = "idle" /\ scope = {} /\ at = 1 /\ windows = <<>> /\ chunks = <<>>
    /\ LedgerInit
    /\ pc = "page" /\ page = 1 /\ partners = {} /\ queue = <<>> /\ escalate = {}
    /\ top = NoChunk /\ cur = NoChunk /\ subs = <<>>
    /\ attempt = 1 /\ coldLatch = FALSE /\ failure = "none"
    /\ budget = PerChunkBudget /\ calls = 0
    /\ joins = {} /\ todo = {}
    /\ asked = {} /\ skipped = {} /\ fallbackChunks = 0 /\ sidecar = {}

RunStep ==
    \/ StartPage \/ PlanStep \/ KeepPlan \/ RoutePlan \/ RouteChunk \/ EndRouting \/ EndPage \/ EndPages
    \/ StartChunk \/ Answered \/ Retry \/ AttemptsExhausted \/ DomainError \/ FatalError
    \/ Descend \/ OpenDescent \/ GiveUpChunk \/ StartSub \/ StarveSub \/ EndChunk
    \/ ReconcileJoin \/ JoinsDone \/ AcceptLine \/ TargetsDone
    \/ AdjacencyPass \/ PreserveBreakChars \/ LossPolicyPass \/ DeriveDecisions

Next == RunStep \/ Abort \/ Terminated
Spec == Init /\ [][Next]_vars /\ WF_vars(RunStep)

-----------------------------------------------------------------------------
Places == {"page", "plan", "route", "chunk", "attempt", "failure", "replan", "sub", "reconcile",
           "accept", "adjacency", "breaks", "loss", "derive", "done", "failed"}
Failures == {"none", "transient", "output", "hyphen", "domain", "fatal"}

DriverTypeOK ==
    /\ pc \in Places
    /\ page \in 1..(NumPages + 1)
    /\ partners \subseteq Lines
    /\ queue \in Seq(Chunk) /\ subs \in Seq(Chunk) /\ top \in Chunk /\ cur \in Chunk
    /\ attempt \in Nat \ {0} /\ coldLatch \in BOOLEAN /\ failure \in Failures
    /\ budget \in Int /\ calls \in Nat
    /\ joins \subseteq Lines \X Lines /\ todo \subseteq Lines /\ escalate \subseteq Lines
    /\ asked \subseteq Lines /\ skipped \subseteq Lines /\ sidecar \subseteq Lines
    /\ fallbackChunks \in Nat

TypeOK == PlanTypeOK /\ LedgerTypeOK /\ DriverTypeOK

(* The decisions of a run are those of DecisionContract: a fallback is     *)
(* never undone, a reason never overwritten, and the decision set seals a  *)
(* complete ledger.                                                        *)
Contract == INSTANCE DecisionContract WITH sealed <- (pc = "done")
KeepsContract == Contract!ContractSpec

(* A producer is called at most per_chunk_budget times for one planned     *)
(* chunk, its retries and its whole descent included (ChunkBudget, "a      *)
(* sub-chunk spends from the SAME purse").                                 *)
BudgetBound == calls =< PerChunkBudget

(* A page that has been left has no undecided line, whatever failed on it, *)
(* so derive_decision_set never refuses a run that got there (outcome.py:  *)
(* "it may never continue with undecided lines").                          *)
DecidedBehind ==
    \A l \in Lines : PageOf[l] < page => status[l] # "pending"

(* Inside one work item, only its targets and the members of their hyphen  *)
(* units are ever decided, descent, fallback and absorbed errors included  *)
(* (outcome.py: "a context line's output is discarded").                   *)
OwnershipRespected ==
    [][\A l \in Lines :
          \/ pc \notin {"attempt", "failure", "sub", "reconcile", "accept"}
          \/ UNCHANGED <<status[l], text[l]>>
          \/ l \in units_containing(links, top.targets, Pool)]_vars

(* A decided correction is kept as it is or taken away: no later chunk,    *)
(* page or join puts another text in its place (reconcile.py: reading the  *)
(* response "would silently substitute raw OCR for the correction it       *)
(* already earned").  Only the break-mark pass respells.                   *)
CorrectionStands ==
    [][\A l \in Lines :
          Changed(l) /\ status'[l] = "corrected" /\ pc # "breaks" => text'[l] = text[l]]_vars

(* A line reported as corrected was sent to a producer, or the router      *)
(* confirmed it: no hyphen join decides a line nobody was asked about      *)
(* (reconcile.py: the tail's pass "wrote that as the head's decision with  *)
(* status = CORRECTED").                                                   *)
CorrectedWasAsked ==
    \A l \in Lines : status[l] = "corrected" => l \in asked \cup skipped

(* No linked pair ships half corrected, half at its source text            *)
(* (hyphenation.py: "No incoherent pair (mixed OCR+corrected) can          *)
(* survive").                                                              *)
NoMixedPair ==
    pc = "done" =>
        \A l, m \in Lines : forward_partner_ref(links, l) = m =>
            /\ status[l] = "fallback" => ~Changed(m)
            /\ status[m] = "fallback" => ~Changed(l)

(* A chunk that gave up takes the whole hyphen units of its targets with   *)
(* it, on other pages too, already decided or not ("a fallback covers the  *)
(* WHOLE unit, across pages").                                             *)
ExhaustedUnitFalls ==
    pc = "done" =>
        \A l \in Lines : reason[l] = "exhausted" =>
            \A m \in Unit(links, l, Lines) : ~Changed(m)

(* A line that opens a hyphenated word never ships without its break mark  *)
(* (acceptance.py: "fall back to OCR to keep the marker").                 *)
MarkKept ==
    pc = "done" => \A l \in Marked : Opens(l) => text[l] # "drop"

(* Routing never sends the two halves of a word to two producer calls:     *)
(* a work item that owns a tail owns its head, when the page holds both    *)
(* (routing.py: "only as a whole unit").                                   *)
UnitsRouteWhole ==
    \A k \in DOMAIN queue : \A l \in queue[k].targets :
        forward_partner_ref(links, l) \in PageLines(page)
            => forward_partner_ref(links, l) \in queue[k].targets

(* Every run ends: attempts, descents and pages are all bounded. *)
Terminates == <>(pc \in {"done", "failed"})

(* A line the router confirmed clean keeps its source text to the end,     *)
(* although it is still sent as context and its neighbours are decided     *)
(* around it (routing.py: "its final text is its OCR text").               *)
SkippedKeepsSource == \A l \in skipped : text[l] = Source
=============================================================================
