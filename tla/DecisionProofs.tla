--------------------------- MODULE DecisionProofs ---------------------------
(* What every run that keeps the decision contract can report, and that    *)
(* the correction run keeps it, for every document, plan, producer and     *)
(* policy.                                                                 *)
EXTENDS PageDriver, DecisionContract, PlannerProofs

-----------------------------------------------------------------------------
(* The contract by itself. *)

(* Under the contract the report agrees with the lines: a reason exactly   *)
(* for the fallen lines, which are at their source text (decide.py).       *)
THEOREM ContractCoherent == ContractSpec => []DecisionsCoherent
<1>1. ContractInit => DecisionsCoherent
  BY DEF ContractInit, LedgerInit, DecisionsCoherent, NoReason, NoText
<1>2. DecisionsCoherent /\ [ContractNext]_contractVars => DecisionsCoherent'
  <2>1. CASE Decide
    <3> SUFFICES ASSUME DecisionsCoherent, Decide, NEW l \in Lines
                 PROVE  /\ reason'[l] # NoReason <=> status'[l] = "fallback"
                        /\ status'[l] = "fallback" => text'[l] = Source
                        /\ status'[l] = "pending" <=> text'[l] = NoText
      BY <2>1 DEF DecisionsCoherent
    <3>1. Moves(l)
      BY DEF Decide
    <3> QED
      BY <3>1 DEF Moves, DecisionsCoherent, Reasons, NoReason, NoText, Texts, Source
  <2>2. CASE Seal
    BY <2>2 DEF Seal, DecisionsCoherent
  <2>3. CASE UNCHANGED contractVars
    BY <2>3 DEF contractVars, DecisionsCoherent
  <2> QED
    BY <2>1, <2>2, <2>3 DEF ContractNext
<1> QED
  BY <1>1, <1>2, PTL DEF ContractSpec

-----------------------------------------------------------------------------
(* Where the work of a page can reach, for every document, plan and        *)
(* policy: a chunk owns lines of its page, links are severed on the page   *)
(* being processed, and a line of a later page that is already decided is  *)
(* a member of a hyphen unit.  The last is why the router, which confirms  *)
(* lines outside every unit, never confirms a line that fell back.         *)

OnPage(p) == {c \in Chunk : c.targets \subseteq PageLines(p)}
InItem == pc \in {"attempt", "failure", "replan", "sub", "reconcile", "accept"}

(* Not routed yet. *)
Ahead(l) == PageOf[l] > page \/ (PageOf[l] = page /\ pc \in {"page", "plan"})

PlanLocal ==
    /\ links \in LinkSpace
    /\ pc \in {"plan", "replan"} => /\ scope \subseteq PageLines(page)
                                    /\ windows \in Seq(SUBSET scope)
    /\ pc \in {"plan", "replan", "route"} => chunks \in Seq(OnPage(page))
    /\ pc = "plan" => planning # "line"

ItemLocal ==
    /\ page \in Nat
    /\ partners \subseteq Lines
    /\ queue \in Seq(OnPage(page))
    /\ pc = "page" => queue = <<>>
    /\ InItem => subs \in Seq(OnPage(page)) /\ cur \in OnPage(page) /\ top \in OnPage(page)
    /\ pc \in {"reconcile", "accept"} =>
          /\ todo \subseteq PageLines(page)
          /\ \A j \in joins : j[1] \in Pool /\ j[2] \in Pool
    /\ pc \in {"adjacency", "breaks", "loss"} => page > NumPages

RolesAhead ==
    /\ \A l \in Lines : Ahead(l) => status[l] = "pending" \/ links.role[l] # "NONE"
    /\ \A l, m \in Lines :
          m \in {links.pair[l], links.forward[l]} /\ Ahead(m) => links.role[m] # "NONE"
    /\ \A m \in partners : PageOf[m] > page => links.role[m] # "NONE"

LocalityInv == PlanLocal /\ ItemLocal /\ RolesAhead

-----------------------------------------------------------------------------
(* The operators. *)

LEMMA WholeChunkType ==
    ASSUME NEW g \in Grains, NEW p, NEW S \in SUBSET PageLines(p)
    PROVE  WholeChunk(g, S) \in OnPage(p)
  BY DEF WholeChunk, OnPage, Chunk, PageLines

LEMMA SmallSeqs ==
    ASSUME NEW S, NEW c \in S, NEW s \in Seq(S)
    PROVE  <<>> \in Seq(S) /\ <<c>> \in Seq(S) /\ Append(s, c) \in Seq(S)
  OBVIOUS

LEMMA UnitsInside ==
    ASSUME NEW seeds, NEW pool
    PROVE  units_containing(links, seeds, pool) \subseteq seeds \cup pool
<1>1. \A s : Unit(links, s, pool) \subseteq pool
  BY ReachableInside DEF Unit
<1> QED
  BY <1>1 DEF units_containing

(* Severing a link touches the roles of its two ends and adds no pointer. *)
LEMMA SplitEffect ==
    ASSUME NEW lk \in LinkSpace, NEW tail \in Lines, NEW head \in Lines
    PROVE  /\ split_forward_link(lk, tail, head) \in LinkSpace
           /\ \A m \in Lines \ {tail, head} :
                 split_forward_link(lk, tail, head).role[m] = lk.role[m]
           /\ \A l \in Lines :
                 /\ split_forward_link(lk, tail, head).pair[l] \in {lk.pair[l], lk.forward[l], NoLine}
                 /\ split_forward_link(lk, tail, head).forward[l] \in {lk.forward[l], NoLine}
  BY DEF LinkSpace, split_forward_link, Roles

LEMMA WindowTargetsLocal ==
    ASSUME NEW lk, NEW p, NEW S \in SUBSET PageLines(p), NEW ws \in Seq(SUBSET S)
    PROVE  AssignWindowTargets(lk, S, ws) \in Seq(OnPage(p))
<1> DEFINE owner == [l \in S |-> TargetWindow(lk, S, ws, l)]
           c(k) == [gran |-> "WINDOW", lines |-> ws[k], targets |-> {l \in ws[k] : owner[l] = k}]
<1>1. AssignWindowTargets(lk, S, ws) = [k \in 1..Len(ws) |-> c(k)]
  BY DEF AssignWindowTargets
<1>2. ASSUME NEW k \in 1..Len(ws)
      PROVE  c(k) \in OnPage(p)
  <2>1. ws[k] \subseteq S
    OBVIOUS
  <2> HIDE DEF owner
  <2> QED
    BY <2>1 DEF OnPage, Chunk, Grains, PageLines
<1> HIDE DEF c
<1> QED
  BY <1>1, <1>2

-----------------------------------------------------------------------------
LEMMA LocalityInit == Init => LocalityInv
<1> SUFFICES ASSUME Init
             PROVE  LocalityInv
  OBVIOUS
<1>1. PlanLocal
  BY LinkChoicesAssumption DEF Init, PlanLocal
<1>2. ItemLocal
  BY DEF Init, ItemLocal, InItem
<1>3. RolesAhead
  BY LinkChoicesAssumption DEF Init, RolesAhead, LedgerInit, WellLinked
<1> QED
  BY <1>1, <1>2, <1>3 DEF LocalityInv

(* The planner's steps stay inside the scope. *)
LEMMA PlanStepLocal ==
    ASSUME PlanLocal, PlanStep
    PROVE  /\ PlanLocal'
           /\ \A m \in Lines : links'.role[m] # links.role[m] =>
                 pc = "replan" /\ PageOf[m] = page
           /\ \A l \in Lines : {links'.pair[l], links'.forward[l]}
                                   \subseteq {links.pair[l], links.forward[l], NoLine}
<1> DEFINE Kept == UNCHANGED links
<1>1. pc \in {"plan", "replan"} /\ UNCHANGED <<pc, page>>
  BY DEF PlanStep, driverVars, pageVars
<1>2. scope \subseteq PageLines(page) /\ scope \subseteq Lines
  BY <1>1 DEF PlanLocal, PageLines
<1>3. CASE TryPage
  <2>1. chunks' \in Seq(OnPage(page))
    <3>1. WholeChunk("PAGE", scope) \in OnPage(page)
      BY <1>2, WholeChunkType DEF Grains
    <3> DEFINE c == WholeChunk("PAGE", scope)
               S == OnPage(page)
    <3>2. chunks' \in {<<>>, <<c>>}
      BY <1>3 DEF TryPage
    <3>3. c \in S
      BY <3>1
    <3> HIDE DEF c, S
    <3>4. <<>> \in Seq(S) /\ <<c>> \in Seq(S)
      BY <3>3
    <3> QED
      BY <3>2, <3>4 DEF S
  <2> QED
    BY <1>1, <1>2, <1>3, <2>1 DEF TryPage, PlanLocal, PageLines, OnPage
<1>4. CASE TryBlock
  <2>1. \A l : WholeChunk("BLOCK", BlockGroup(links, l, scope)) \in OnPage(page)
    <3>1. \A l : BlockGroup(links, l, scope) \subseteq PageLines(page)
      BY <1>2, ReachableInside DEF BlockGroup
    <3> QED
      BY <3>1, WholeChunkType DEF Grains
  <2>2. chunks \in Seq(OnPage(page))
    BY <1>1 DEF PlanLocal
  <2>3. \/ chunks' = chunks
        \/ chunks' = <<>>
        \/ \E l : chunks' = Append(chunks, WholeChunk("BLOCK", BlockGroup(links, l, scope)))
    BY <1>4 DEF TryBlock
  <2>4. chunks' \in Seq(OnPage(page))
    <3> DEFINE S == OnPage(page)
    <3>1. \A l : WholeChunk("BLOCK", BlockGroup(links, l, scope)) \in S
      BY <2>1
    <3> HIDE DEF S
    <3>2. <<>> \in Seq(S)
      OBVIOUS
    <3> QED
      BY <2>2, <2>3, <3>1, <3>2, SmallSeqs DEF S
  <2>5. /\ UNCHANGED <<links, scope, windows>>
        /\ pc = "plan" => planning' # "line"
    BY <1>4 DEF TryBlock
  <2> QED
    BY <1>1, <1>2, <2>4, <2>5 DEF PlanLocal, PageLines, OnPage
<1>5. CASE TryWindow
  BY <1>1, <1>2, <1>5 DEF TryWindow, PlanLocal, Slice, PageLines, OnPage
<1>6. CASE CloseWindows
  BY <1>1, <1>2, <1>6, WindowTargetsLocal DEF CloseWindows, PlanLocal, PageLines, OnPage
<1>7. CASE CloseLines
  BY <1>1, <1>2, <1>7 DEF CloseLines, PlanLocal, PageLines, OnPage
<1>8. CASE PlanLine
  <2>1. pc = "replan"
    BY <1>1, <1>8 DEF PlanLine, PlanLocal
  <2>2. PICK end, body : /\ body \subseteq scope
                         /\ chunks' = Append(chunks, WholeChunk("LINE", body))
                         /\ UNCHANGED <<planning, scope, windows>>
    BY <1>8 DEF PlanLine, Slice
  <2>3. \/ UNCHANGED links
        \/ \E tail, head \in scope : links' = split_forward_link(links, tail, head)
    BY <1>8 DEF PlanLine, ForwardById
  <2>4. chunks' \in Seq(OnPage(page))
    BY <1>1, <1>2, <2>2, WholeChunkType DEF PlanLocal, Grains
  <2>5. CASE UNCHANGED links
    BY <1>1, <1>2, <2>1, <2>2, <2>4, <2>5 DEF PlanLocal, PageLines, OnPage
  <2>6. ASSUME NEW tail \in scope, NEW head \in scope,
               links' = split_forward_link(links, tail, head)
        PROVE  /\ links' \in LinkSpace
               /\ \A m \in Lines : links'.role[m] # links.role[m] => PageOf[m] = page
               /\ \A l \in Lines : {links'.pair[l], links'.forward[l]}
                                       \subseteq {links.pair[l], links.forward[l], NoLine}
    <3>1. tail \in Lines /\ head \in Lines /\ links \in LinkSpace
      BY <1>2 DEF PlanLocal
    <3> DEFINE cut == split_forward_link(links, tail, head)
    <3>5. /\ cut \in LinkSpace
          /\ \A m \in Lines \ {tail, head} : cut.role[m] = links.role[m]
          /\ \A l \in Lines : /\ cut.pair[l] \in {links.pair[l], links.forward[l], NoLine}
                               /\ cut.forward[l] \in {links.forward[l], NoLine}
      BY <3>1, SplitEffect
    <3> HIDE DEF cut
    <3>6. links' = cut
      BY <2>6 DEF cut
    <3>2. /\ links' \in LinkSpace
          /\ \A m \in Lines \ {tail, head} : links'.role[m] = links.role[m]
          /\ \A l \in Lines : {links'.pair[l], links'.forward[l]}
                                  \subseteq {links.pair[l], links.forward[l], NoLine}
      BY <3>5, <3>6
    <3>3. PageOf[tail] = page /\ PageOf[head] = page
      BY <1>2 DEF PageLines
    <3>4. ASSUME NEW m \in Lines, links'.role[m] # links.role[m]
          PROVE  PageOf[m] = page
      <4>1. m \in {tail, head}
        BY <3>2, <3>4
      <4> QED
        BY <3>3, <4>1
    <3> QED
      BY <3>2, <3>4
  <2> QED
    BY <1>1, <1>2, <2>1, <2>2, <2>3, <2>4, <2>5, <2>6 DEF PlanLocal, PageLines, OnPage
<1> QED
  BY <1>3, <1>4, <1>5, <1>6, <1>7, <1>8 DEF PlanStep, PlanNext

-----------------------------------------------------------------------------
(* A step that decides nothing and leaves the links alone. *)
LEMMA RolesStill ==
    ASSUME RolesAhead, UNCHANGED <<links, partners, status>>,
           partners \subseteq Lines, page \in Nat, page' \in {page, page + 1},
           \A l \in Lines : Ahead(l)' => Ahead(l)
    PROVE  RolesAhead'
<1> USE LayoutAssumption
<1>1. \A m \in partners : PageOf[m] > page' => PageOf[m] > page
  OBVIOUS
<1>2. \A l \in Lines : Ahead(l)' => status'[l] = "pending" \/ links'.role[l] # "NONE"
  BY DEF RolesAhead
<1>3. \A l, m \in Lines :
         m \in {links'.pair[l], links'.forward[l]} /\ Ahead(m)' => links'.role[m] # "NONE"
  BY DEF RolesAhead
<1>4. \A m \in partners' : PageOf[m] > page' => links'.role[m] # "NONE"
  BY <1>1 DEF RolesAhead
<1> QED
  BY <1>2, <1>3, <1>4 DEF RolesAhead

(* A step of a work item that decides lines it can see. *)
LEMMA RolesItem ==
    ASSUME RolesAhead, UNCHANGED <<links, partners, page>>,
           pc \notin {"page", "plan"}, pc' \notin {"page", "plan"},
           \A l \in Lines : status'[l] = status[l] \/ l \in Pool
    PROVE  RolesAhead'
<1>1. ASSUME NEW l \in Lines, PageOf[l] > page
      PROVE  status'[l] = "pending" \/ links.role[l] # "NONE"
  <2>1. l \in Pool => l \in partners
    BY <1>1, LayoutAssumption DEF Pool, PageLines
  <2> QED
    BY <1>1, <2>1 DEF RolesAhead, Ahead
<1> QED
  BY <1>1 DEF RolesAhead, Ahead

(* Only the lines a fallback is given change their status. *)
LEMMA FallBackScope ==
    ASSUME NEW why, fall_back(why)
    PROVE  \A l \in Lines : status'[l] = status[l] \/ l \in DOMAIN why
  BY DEF fall_back

LEMMA AcceptScope ==
    ASSUME NEW final, accept(final)
    PROVE  \A l \in Lines : status'[l] = status[l] \/ l \in DOMAIN final
  BY DEF accept

LEMMA ChunkFallbackScope ==
    ASSUME NEW c \in OnPage(page), ChunkFallback(c)
    PROVE  \A l \in Lines : status'[l] = status[l] \/ l \in Pool
<1> DEFINE pulled == {m \in units_containing(links, c.targets, Pool) :
                         \A t \in c.targets : IdOf[m] # IdOf[t]}
           why == [m \in c.targets \cup pulled |->
                      IF m \in c.targets THEN "exhausted" ELSE "unit"]
<1>1. fall_back(why)
  BY DEF ChunkFallback
<1>2. DOMAIN why \subseteq Pool
  BY UnitsInside DEF OnPage, Pool
<1> HIDE DEF why
<1> QED
  BY <1>1, <1>2, FallBackScope

LEMMA AbsorbErrorScope ==
    ASSUME top \in OnPage(page), AbsorbError
    PROVE  \A l \in Lines : status'[l] = status[l] \/ l \in Pool
<1> DEFINE undecided == {l \in top.targets : status[l] = "pending"}
           why == [m \in units_containing(links, undecided, Pool) |-> "absorbed"]
<1>1. UNCHANGED ledger \/ fall_back(why)
  BY DEF AbsorbError
<1>2. DOMAIN why \subseteq Pool
  BY UnitsInside DEF OnPage, Pool
<1> HIDE DEF why
<1> QED
  BY <1>1, <1>2, FallBackScope DEF ledger

LEMMA ReconcileJoinScope ==
    ASSUME ItemLocal, ReconcileJoin
    PROVE  \A l \in Lines : status'[l] = status[l] \/ l \in Pool
<1>1. PICK j \in joins :
          \/ fall_back([m \in {j[1], j[2]} |-> "pair"])
          \/ \E p1 \in TailTexts(j[1]), p2 \in HeadTexts(j[2]) :
                accept([m \in {j[1], j[2]} |-> IF m = j[1] THEN p1 ELSE p2])
  BY DEF ReconcileJoin
<1>2. {j[1], j[2]} \subseteq Pool
  BY DEF ItemLocal, ReconcileJoin
<1>3. CASE fall_back([m \in {j[1], j[2]} |-> "pair"])
  BY <1>2, <1>3, FallBackScope
<1>4. ASSUME NEW p1, NEW p2, accept([m \in {j[1], j[2]} |-> IF m = j[1] THEN p1 ELSE p2])
      PROVE  \A l \in Lines : status'[l] = status[l] \/ l \in Pool
  BY <1>2, <1>4, AcceptScope
<1> QED
  BY <1>1, <1>3, <1>4

LEMMA AcceptLineScope ==
    ASSUME ItemLocal, AcceptLine
    PROVE  \A l \in Lines : status'[l] = status[l] \/ l \in Pool
<1>1. PICK l \in todo : DecideTarget(l)
  BY DEF AcceptLine
<1>2. l \in Pool
  BY DEF ItemLocal, AcceptLine, Pool
<1>3. \/ UNCHANGED ledger
      \/ \E r : fall_back([m \in {l} |-> r])
      \/ \E p : accept([m \in {l} |-> p])
  BY <1>1 DEF DecideTarget
<1>4. ASSUME NEW r, fall_back([m \in {l} |-> r])
      PROVE  \A k \in Lines : status'[k] = status[k] \/ k \in Pool
  BY <1>2, <1>4, FallBackScope
<1>5. ASSUME NEW p, accept([m \in {l} |-> p])
      PROVE  \A k \in Lines : status'[k] = status[k] \/ k \in Pool
  BY <1>2, <1>5, AcceptScope
<1> QED
  BY <1>3, <1>4, <1>5 DEF ledger

(* The joins a chunk claims have both ends in the pool. *)
LEMMA ClaimedJoinsVisible ==
    ASSUME NEW c \in OnPage(page)
    PROVE  \A j \in ClaimedJoins(c.targets) : j[1] \in Pool /\ j[2] \in Pool
  BY DEF ClaimedJoins, OnPage, Pool

-----------------------------------------------------------------------------
(* The planner's variables, outside planning. *)
LEMMA PlanLocalNext == LocalityInv /\ [Next]_vars => PlanLocal'
<1> SUFFICES ASSUME LocalityInv, [Next]_vars
             PROVE  PlanLocal'
  OBVIOUS
<1> USE DEF LocalityInv
<1>1. CASE PlanStep
  BY <1>1, PlanStepLocal
<1>2. CASE StartPage
  <2>1. <<>> \in Seq(SUBSET PageLines(page)) /\ <<>> \in Seq(OnPage(page))
    OBVIOUS
  <2> QED
    BY <1>2, <2>1 DEF StartPage, BeginPlan, PlanLocal, PageLines, OnPage
<1>3. CASE Descend
  <2>1. cur.targets \subseteq PageLines(page)
    BY <1>3 DEF Descend, ItemLocal, InItem, OnPage
  <2>2. <<>> \in Seq(SUBSET cur.targets) /\ <<>> \in Seq(OnPage(page))
    OBVIOUS
  <2> QED
    BY <1>3, <2>1, <2>2 DEF Descend, BeginPlan, PlanLocal, PageLines, OnPage, pageVars, chunkVars
<1>4. CASE RouteChunk
  <2>1. chunks \in Seq(OnPage(page)) /\ chunks # <<>> /\ chunks' = Tail(chunks)
    BY <1>4 DEF RouteChunk, PlanLocal
  <2>2. chunks' \in Seq(OnPage(page))
    BY <2>1
  <2> QED
    BY <1>4, <2>2 DEF RouteChunk, PlanLocal, PageLines, OnPage
<1>5. CASE RoutePlan
  BY <1>5 DEF RoutePlan, PlanLocal, planVars, PageLines, OnPage
<1>6. CASE Terminated \/ UNCHANGED vars
  BY <1>6 DEF Terminated, vars, planVars, driverVars, pageVars, PlanLocal, PageLines, OnPage
<1>7. CASE /\ UNCHANGED links
           /\ pc' \notin {"plan", "replan", "route"}
  BY <1>7 DEF PlanLocal
<1>8. CASE \/ KeepPlan \/ EndRouting \/ EndPage \/ EndPages \/ StartChunk
          \/ Answered \/ Retry \/ AttemptsExhausted \/ DomainError \/ FatalError
          \/ OpenDescent \/ GiveUpChunk \/ StartSub \/ StarveSub \/ EndChunk
          \/ ReconcileJoin \/ JoinsDone \/ AcceptLine \/ TargetsDone
          \/ AdjacencyPass \/ PreserveBreakChars \/ LossPolicyPass \/ DeriveDecisions \/ Abort
  BY <1>7, <1>8
  DEF KeepPlan, EndRouting, EndPage, EndPages, StartChunk, Answered, Retry, AttemptsExhausted,
      DomainError, FatalError, OpenDescent, GiveUpChunk, StartSub, StarveSub, EndChunk,
      ReconcileJoin, JoinsDone, AcceptLine, TargetsDone, AdjacencyPass, PreserveBreakChars,
      LossPolicyPass, DeriveDecisions, Abort, planVars, ProducerCall
<1> QED
  BY <1>1, <1>2, <1>3, <1>4, <1>5, <1>6, <1>8 DEF Next, RunStep

(* The work items, and what is left of the current one. *)
LEMMA ItemLocalNext == LocalityInv /\ [Next]_vars => ItemLocal'
<1> SUFFICES ASSUME LocalityInv, [Next]_vars
             PROVE  ItemLocal'
  OBVIOUS
<1> USE DEF LocalityInv
<1> DEFINE S == OnPage(page)
<1>1. page' = page => OnPage(page') = S
  OBVIOUS
<1>2. CASE StartPage
  <2>1. CrossPagePartners(page) \subseteq Lines
    BY DEF CrossPagePartners
  <2> QED
    BY <1>2, <2>1 DEF StartPage, ItemLocal, InItem, OnPage, PageLines, chunkVars
<1>3. CASE KeepPlan
  BY <1>3 DEF KeepPlan, PlanLocal, ItemLocal, InItem, OnPage, PageLines
<1>4. CASE RouteChunk
  <2>1. chunks \in Seq(S) /\ chunks # <<>>
    BY <1>4 DEF RouteChunk, PlanLocal
  <2>2. Head(chunks) \in S
    BY <2>1
  <2>3. ASSUME NEW T \in SUBSET Head(chunks).targets
        PROVE  Owning(Head(chunks), T) \in Seq(S)
    <3> DEFINE c == [Head(chunks) EXCEPT !.targets = T]
    <3>1. c \in S
      BY <2>2 DEF OnPage, Chunk
    <3> HIDE DEF c, S
    <3>2. <<>> \in Seq(S) /\ <<c>> \in Seq(S)
      BY <3>1
    <3>3. Owning(Head(chunks), T) \in {<<>>, <<c>>}
      BY DEF Owning, c
    <3> QED
      BY <3>2, <3>3
  <2>4. queue \in Seq(S)
    BY DEF ItemLocal
  <2>5. PICK q1 \in Seq(S), q2 \in Seq(S) : queue' = queue \o q1 \o q2
    BY <1>4, <2>3 DEF RouteChunk
  <2>6. queue' \in Seq(S)
    <3> HIDE DEF S
    <3> QED
      BY <2>4, <2>5
  <2> QED
    BY <1>1, <1>4, <2>6 DEF RouteChunk, ItemLocal, InItem
<1>5. CASE StartChunk
  <2>1. queue \in Seq(S) /\ queue # <<>>
    BY <1>5 DEF StartChunk, ItemLocal
  <2>2. Head(queue) \in S /\ Tail(queue) \in Seq(S) /\ <<>> \in Seq(S)
    <3> HIDE DEF S
    <3> QED
      BY <2>1
  <2> QED
    BY <1>1, <1>5, <2>2 DEF StartChunk, ItemLocal, InItem
<1>6. CASE Answered
  <2>1. cur \in OnPage(page)
    BY <1>6 DEF Answered, ProducerCall, ItemLocal, InItem
  <2>2. \A j \in joins' : j[1] \in Pool /\ j[2] \in Pool
    BY <1>6, <2>1, ClaimedJoinsVisible DEF Answered
  <2>3. todo' \subseteq PageLines(page)
    BY <1>6, <2>1 DEF Answered, OnPage
  <2> QED
    BY <1>1, <1>6, <2>1, <2>2, <2>3
    DEF Answered, ProducerCall, ItemLocal, InItem, pageVars, Pool, PageLines
<1>7. CASE Retry \/ AttemptsExhausted \/ FatalError
  BY <1>1, <1>7
  DEF Retry, AttemptsExhausted, FatalError, ProducerCall, ItemLocal, InItem, pageVars
<1>8. CASE DomainError
  <2>1. <<>> \in Seq(S)
    OBVIOUS
  <2> QED
    BY <1>1, <1>8, <2>1 DEF DomainError, ProducerCall, ItemLocal, InItem, pageVars
<1>9. CASE OpenDescent
  <2>1. chunks \in Seq(S) /\ subs \in Seq(S)
    BY <1>9 DEF OpenDescent, PlanLocal, ItemLocal, InItem
  <2>2. chunks \o subs \in Seq(S)
    <3> HIDE DEF S
    <3> QED
      BY <2>1
  <2> QED
    BY <1>1, <1>9, <2>2 DEF OpenDescent, ItemLocal, InItem, pageVars
<1>10. CASE StartSub \/ StarveSub
  <2>1. subs \in Seq(S) /\ subs # <<>>
    BY <1>10 DEF StartSub, StarveSub, ItemLocal, InItem
  <2>2. Head(subs) \in S /\ Tail(subs) \in Seq(S)
    <3> HIDE DEF S
    <3> QED
      BY <2>1
  <2> QED
    BY <1>1, <1>10, <2>2 DEF StartSub, StarveSub, ItemLocal, InItem, pageVars
<1>11. CASE Descend \/ GiveUpChunk \/ EndChunk
  BY <1>1, <1>11 DEF Descend, GiveUpChunk, EndChunk, ItemLocal, InItem, pageVars, chunkVars
<1>12. CASE ReconcileJoin \/ JoinsDone \/ AcceptLine \/ TargetsDone
  BY <1>1, <1>12
  DEF ReconcileJoin, JoinsDone, AcceptLine, TargetsDone, ItemLocal, InItem, pageVars, chunkVars,
      decideVars, Pool, PageLines
<1>13. CASE EndPage
  <2>1. <<>> \in Seq(OnPage(page + 1))
    OBVIOUS
  <2> QED
    BY <1>13, <2>1 DEF EndPage, ItemLocal, InItem
<1>14. CASE RoutePlan \/ EndRouting \/ EndPages \/ Abort
  BY <1>1, <1>14, DriverAssumption DEF RoutePlan, EndRouting, EndPages, Abort, ItemLocal, InItem, pageVars
<1>15. CASE AdjacencyPass \/ PreserveBreakChars \/ LossPolicyPass \/ DeriveDecisions
  BY <1>1, <1>15
  DEF AdjacencyPass, PreserveBreakChars, LossPolicyPass, DeriveDecisions, ItemLocal, InItem, pageVars
<1>16. CASE PlanStep \/ Terminated \/ UNCHANGED vars
  BY <1>1, <1>16
  DEF PlanStep, Terminated, vars, driverVars, pageVars, chunkVars, decideVars, ItemLocal, InItem,
      Pool, PageLines
<1> QED
  BY <1>2, <1>3, <1>4, <1>5, <1>6, <1>7, <1>8, <1>9, <1>10, <1>11, <1>12, <1>13, <1>14, <1>15,
     <1>16 DEF Next, RunStep

(* The roles and decisions of the lines not routed yet. *)
LEMMA RolesAheadNext == LocalityInv /\ [Next]_vars => RolesAhead'
<1> SUFFICES ASSUME LocalityInv, [Next]_vars
             PROVE  RolesAhead'
  OBVIOUS
<1> USE DEF LocalityInv
<1>1. page \in Nat /\ partners \subseteq Lines
  BY DEF ItemLocal
<1>2. CASE PlanStep
  <2>1. UNCHANGED <<pc, page, partners, status>>
    BY <1>2 DEF PlanStep, driverVars, pageVars, ledger
  <2>2. \A m \in Lines : links'.role[m] # links.role[m] => pc = "replan" /\ PageOf[m] = page
    BY <1>2, PlanStepLocal
  <2>3. \A l \in Lines : {links'.pair[l], links'.forward[l]}
                             \subseteq {links.pair[l], links.forward[l], NoLine}
    BY <1>2, PlanStepLocal
  <2>4. \A m \in Lines : Ahead(m) \/ PageOf[m] > page => links'.role[m] = links.role[m]
    BY <1>1, <2>2, LayoutAssumption DEF Ahead
  <2>5. \A m \in Lines : Ahead(m)' <=> Ahead(m)
    BY <2>1 DEF Ahead
  <2>6. \A l \in Lines : Ahead(l)' => status'[l] = "pending" \/ links'.role[l] # "NONE"
    BY <2>1, <2>4, <2>5 DEF RolesAhead
  <2>7. ASSUME NEW l \in Lines, NEW m \in Lines,
               m \in {links'.pair[l], links'.forward[l]}, Ahead(m)'
        PROVE  links'.role[m] # "NONE"
    <3>1. m \in {links.pair[l], links.forward[l]}
      BY <2>3, <2>7 DEF NoLine, Lines
    <3> QED
      BY <2>4, <2>5, <2>7, <3>1 DEF RolesAhead
  <2>8. \A m \in partners' : PageOf[m] > page' => links'.role[m] # "NONE"
    BY <1>1, <2>1, <2>4 DEF RolesAhead
  <2> QED
    BY <2>6, <2>7, <2>8 DEF RolesAhead
<1>3. CASE StartPage
  <2>1. /\ UNCHANGED <<links, page, status>> /\ pc = "page" /\ pc' = "plan"
        /\ partners' = CrossPagePartners(page)
    BY <1>3 DEF StartPage, BeginPlan, ledger
  <2>2. \A l \in Lines : Ahead(l)' <=> Ahead(l)
    BY <2>1 DEF Ahead
  <2>3. ASSUME NEW m \in partners', PageOf[m] > page
        PROVE  links.role[m] # "NONE"
    <3>1. m \in Lines /\ \E l \in Lines : m \in {links.pair[l], links.forward[l]}
      BY <2>1 DEF CrossPagePartners, PageLines
    <3> QED
      BY <2>3, <3>1 DEF RolesAhead, Ahead
  <2> QED
    BY <2>1, <2>2, <2>3 DEF RolesAhead
<1>4. CASE RoutePlan
  <2>1. PICK skip \in SUBSET PageLines(page) : accept([l \in skip |-> Source])
    BY <1>4 DEF RoutePlan, Skippable
  <2>2. UNCHANGED <<links, page, partners>> /\ pc' = "route" /\ pc = "plan"
    BY <1>4 DEF RoutePlan, planVars
  <2>3. \A l \in Lines : status'[l] = status[l] \/ l \in skip
    BY <2>1, AcceptScope
  <2>4. \A l \in Lines : Ahead(l)' => Ahead(l) /\ l \notin skip
    BY <1>1, <2>1, <2>2, LayoutAssumption DEF Ahead, PageLines
  <2> QED
    BY <2>2, <2>3, <2>4 DEF RolesAhead
<1>5. CASE DomainError
  <2>1. top \in OnPage(page) /\ AbsorbError /\ pc = "attempt" /\ pc' = "sub"
    BY <1>5 DEF DomainError, ProducerCall, ItemLocal, InItem
  <2> QED
    BY <1>5, <2>1, AbsorbErrorScope, RolesItem DEF DomainError, planVars, pageVars
<1>6. CASE GiveUpChunk
  <2>1. cur \in OnPage(page) /\ ChunkFallback(cur) /\ pc = "failure" /\ pc' = "sub"
    BY <1>6 DEF GiveUpChunk, ItemLocal, InItem
  <2> QED
    BY <1>6, <2>1, ChunkFallbackScope, RolesItem DEF GiveUpChunk, planVars, pageVars
<1>7. CASE StarveSub
  <2>1. Head(subs) \in OnPage(page) /\ ChunkFallback(Head(subs)) /\ pc = "sub" /\ pc' = "sub"
    BY <1>7 DEF StarveSub, ItemLocal, InItem
  <2> QED
    BY <1>7, <2>1, ChunkFallbackScope, RolesItem DEF StarveSub, planVars, pageVars
<1>8. CASE ReconcileJoin
  BY <1>8, ReconcileJoinScope, RolesItem DEF ReconcileJoin, planVars, pageVars
<1>9. CASE AcceptLine
  BY <1>9, AcceptLineScope, RolesItem DEF AcceptLine, planVars, pageVars
<1>10. CASE AdjacencyPass \/ PreserveBreakChars \/ LossPolicyPass
  <2>1. /\ UNCHANGED <<links, page, partners>> /\ page > NumPages
        /\ pc' \notin {"page", "plan"}
    BY <1>10 DEF AdjacencyPass, PreserveBreakChars, LossPolicyPass, ItemLocal, planVars, pageVars
  <2>2. \A l \in Lines : ~(PageOf[l] > page)
    BY <1>1, <2>1, LayoutAssumption, DriverAssumption
  <2> QED
    BY <1>1, <2>1, <2>2 DEF RolesAhead, Ahead
<1>11. CASE EndPage
  <2>1. \A l \in Lines : Ahead(l)' => Ahead(l)
    BY <1>1, <1>11, LayoutAssumption DEF EndPage, Ahead
  <2> QED
    BY <1>1, <1>11, <2>1, RolesStill DEF EndPage, planVars, ledger
<1>12. CASE \/ KeepPlan \/ RouteChunk \/ EndRouting \/ EndPages \/ StartChunk \/ Answered \/ Retry
           \/ AttemptsExhausted \/ FatalError \/ Descend \/ OpenDescent \/ StartSub \/ EndChunk
           \/ JoinsDone \/ TargetsDone \/ DeriveDecisions \/ Abort \/ Terminated \/ UNCHANGED vars
  <2>1. /\ UNCHANGED <<links, page, partners, status>>
        /\ pc' \in {"page", "plan"} => pc' = pc
    BY <1>12
    DEF KeepPlan, RouteChunk, EndRouting, EndPages, StartChunk, Answered, Retry, AttemptsExhausted,
        FatalError, Descend, OpenDescent, StartSub, EndChunk, JoinsDone, TargetsDone,
        DeriveDecisions, Abort, Terminated, ProducerCall, BeginPlan, planVars, ledger, pageVars,
        driverVars, vars
  <2>2. \A l \in Lines : Ahead(l)' => Ahead(l)
    BY <2>1 DEF Ahead
  <2> QED
    BY <1>1, <2>1, <2>2, RolesStill
<1> QED
  BY <1>2, <1>3, <1>4, <1>5, <1>6, <1>7, <1>8, <1>9, <1>10, <1>11, <1>12 DEF Next, RunStep

LEMMA LocalityNext == LocalityInv /\ [Next]_vars => LocalityInv'
  BY PlanLocalNext, ItemLocalNext, RolesAheadNext DEF LocalityInv

(* Work stays on its page: what a work item owns, what a plan covers and   *)
(* what a split severs are lines of the page being processed, and only     *)
(* members of hyphen units are decided ahead of it (driver.py, outcome.py). *)
THEOREM WorkStaysOnPage == Spec => []LocalityInv
  BY LocalityInit, LocalityNext, PTL DEF Spec

-----------------------------------------------------------------------------
(* The contract. *)

(* What the ledger holds between two steps.  The coherence of a line's     *)
(* three fields is what makes a second fall_back a no-op and tells         *)
(* acceptance, by the text alone, that a line is still undecided.          *)
LedgerInv == LedgerTypeOK /\ DecisionsCoherent

(* A step the contract allows. *)
LedgerStep ==
    /\ LedgerTypeOK'
    /\ \A l \in Lines : Contract!Moves(l)

LEMMA MovesKeepCoherence == LedgerInv /\ LedgerStep => LedgerInv'
<1> SUFFICES ASSUME LedgerInv, LedgerStep, NEW l \in Lines
             PROVE  /\ reason'[l] # NoReason <=> status'[l] = "fallback"
                    /\ status'[l] = "fallback" => text'[l] = Source
                    /\ status'[l] = "pending" <=> text'[l] = NoText
  BY DEF LedgerInv, LedgerStep, DecisionsCoherent
<1>1. Contract!Moves(l)
  BY DEF LedgerStep
<1> QED
  BY <1>1 DEF Contract!Moves, Contract!Reasons, Contract!Texts, Contract!Source,
              LedgerInv, DecisionsCoherent, NoReason, NoText, Source

(* fall_back, on whatever lines: a fallen line is left as it is. *)
LEMMA FallBackMoves ==
    ASSUME LedgerInv, NEW why, fall_back(why),
           \A l \in Lines : l \in DOMAIN why => why[l] \in Reasons
    PROVE  LedgerStep
<1>1. LedgerTypeOK'
  BY DEF LedgerInv, LedgerTypeOK, fall_back, Statuses, Texts
<1>2. ASSUME NEW l \in Lines
      PROVE  Contract!Moves(l)
  BY DEF LedgerInv, LedgerTypeOK, DecisionsCoherent, fall_back, Contract!Moves,
         Contract!Source, Contract!Reasons, Reasons, Source, NoReason, Statuses
<1> QED
  BY <1>1, <1>2 DEF LedgerStep

(* accept, on lines that did not fall back. *)
LEMMA AcceptMoves ==
    ASSUME LedgerInv, NEW final, accept(final),
           \A l \in Lines : l \in DOMAIN final => final[l] \in Texts /\ status[l] # "fallback"
    PROVE  LedgerStep
<1>1. LedgerTypeOK'
  BY DEF LedgerInv, LedgerTypeOK, accept, Statuses
<1>2. ASSUME NEW l \in Lines
      PROVE  Contract!Moves(l)
  BY DEF LedgerInv, LedgerTypeOK, accept, Contract!Moves, Contract!Texts, Texts,
         Contract!Source, Source
<1> QED
  BY <1>1, <1>2 DEF LedgerStep

(* renormalise, on lines whose correction stands. *)
LEMMA RespellMoves ==
    ASSUME LedgerInv, NEW respell, renormalise(respell),
           \A l \in Lines : l \in DOMAIN respell => respell[l] \in Texts /\ Changed(l)
    PROVE  LedgerStep
<1>1. LedgerTypeOK'
  BY DEF LedgerInv, LedgerTypeOK, renormalise
<1>2. ASSUME NEW l \in Lines
      PROVE  Contract!Moves(l)
  BY DEF LedgerInv, LedgerTypeOK, DecisionsCoherent, renormalise, Changed, Contract!Moves,
         Contract!Texts, Texts, Contract!Source, Source, Statuses
<1> QED
  BY <1>1, <1>2 DEF LedgerStep

LEMMA IdleMoves ==
    ASSUME LedgerInv, UNCHANGED ledger
    PROVE  LedgerStep
  BY DEF LedgerInv, LedgerTypeOK, LedgerStep, ledger, Contract!Moves

(* A chunk that gives up, or an absorbed error. *)
LEMMA ChunkFallbackMoves ==
    ASSUME LedgerInv, NEW c, ChunkFallback(c)
    PROVE  LedgerStep
<1> DEFINE pulled == {m \in units_containing(links, c.targets, Pool) :
                         \A t \in c.targets : IdOf[m] # IdOf[t]}
           why == [m \in c.targets \cup pulled |->
                      IF m \in c.targets THEN "exhausted" ELSE "unit"]
<1>1. fall_back(why)
  BY DEF ChunkFallback
<1>2. \A l \in Lines : l \in DOMAIN why => why[l] \in Reasons
  BY DEF Reasons
<1> HIDE DEF why
<1> QED
  BY <1>1, <1>2, FallBackMoves

LEMMA AbsorbErrorMoves ==
    ASSUME LedgerInv, AbsorbError
    PROVE  LedgerStep
<1> DEFINE undecided == {l \in top.targets : status[l] = "pending"}
           why == [m \in units_containing(links, undecided, Pool) |-> "absorbed"]
<1>1. UNCHANGED ledger \/ fall_back(why)
  BY DEF AbsorbError
<1>2. \A l \in Lines : l \in DOMAIN why => why[l] \in Reasons
  BY DEF Reasons
<1> HIDE DEF why
<1> QED
  BY <1>1, <1>2, FallBackMoves, IdleMoves

(* A document-wide revert. *)
LEMMA UnitRevertsMoves ==
    ASSUME LedgerInv, NEW flagged, NEW why \in Reasons, NEW whyUnit \in Reasons,
           UnitReverts(flagged, why, whyUnit)
    PROVE  LedgerStep
<1> DEFINE reasons == [m \in units_containing(links, flagged, Lines) |->
                          IF m \in flagged THEN why ELSE whyUnit]
<1>1. fall_back(reasons)
  BY DEF UnitReverts
<1>2. \A l \in Lines : l \in DOMAIN reasons => reasons[l] \in Reasons
  OBVIOUS
<1> HIDE DEF reasons
<1> QED
  BY <1>1, <1>2, FallBackMoves

(* The texts a decision can hold are texts of a line. *)
LEMMA ProposalsAreTexts ==
    ASSUME LedgerInv, NEW l
    PROVE  /\ Proposals(l) \subseteq Texts
           /\ HeadTexts(l) \subseteq Texts
           /\ l \in Lines => TailTexts(l) \subseteq Texts
  BY DEF Proposals, HeadTexts, TailTexts, Texts, Source, LedgerInv, LedgerTypeOK

LEMMA ReconcileJoinMoves ==
    ASSUME LedgerInv, ReconcileJoin
    PROVE  LedgerStep
<1>1. PICK j \in joins :
          \/ fall_back([m \in {j[1], j[2]} |-> "pair"])
          \/ /\ "fallback" \notin {status[j[1]], status[j[2]]}
             /\ \E p1 \in TailTexts(j[1]), p2 \in HeadTexts(j[2]) :
                   accept([m \in {j[1], j[2]} |-> IF m = j[1] THEN p1 ELSE p2])
  BY DEF ReconcileJoin
<1> DEFINE why == [m \in {j[1], j[2]} |-> "pair"]
<1>2. CASE fall_back(why)
  <2>1. \A l \in Lines : l \in DOMAIN why => why[l] \in Reasons
    BY DEF Reasons
  <2> HIDE DEF why
  <2> QED
    BY <1>2, <2>1, FallBackMoves
<1>3. ASSUME "fallback" \notin {status[j[1]], status[j[2]]},
             NEW p1 \in TailTexts(j[1]), NEW p2 \in HeadTexts(j[2]),
             accept([m \in {j[1], j[2]} |-> IF m = j[1] THEN p1 ELSE p2])
      PROVE  LedgerStep
  <2> DEFINE final == [m \in {j[1], j[2]} |-> IF m = j[1] THEN p1 ELSE p2]
  <2>1. \A l \in Lines : l \in DOMAIN final => final[l] \in Texts /\ status[l] # "fallback"
    BY <1>3, ProposalsAreTexts
  <2>2. accept(final)
    BY <1>3
  <2> HIDE DEF final
  <2> QED
    BY <2>1, <2>2, AcceptMoves
<1> QED
  BY <1>1, <1>2, <1>3

(* Acceptance skips by the text: coherence says such a line is undecided.  *)
LEMMA AcceptLineMoves ==
    ASSUME LedgerInv, AcceptLine
    PROVE  LedgerStep
<1>1. PICK l \in todo : DecideTarget(l)
  BY DEF AcceptLine
<1>2. \/ UNCHANGED ledger
      \/ \E r \in {"orphan", "partner", "rejected"} : fall_back([m \in {l} |-> r])
      \/ text[l] = NoText /\ \E p \in Proposals(l) : accept([m \in {l} |-> p])
  BY <1>1 DEF DecideTarget
<1>3. ASSUME NEW r \in {"orphan", "partner", "rejected"}, fall_back([m \in {l} |-> r])
      PROVE  LedgerStep
  <2> DEFINE why == [m \in {l} |-> r]
  <2>1. \A k \in Lines : k \in DOMAIN why => why[k] \in Reasons
    BY DEF Reasons
  <2>2. fall_back(why)
    BY <1>3
  <2> HIDE DEF why
  <2> QED
    BY <2>1, <2>2, FallBackMoves
<1>4. ASSUME text[l] = NoText, NEW p \in Proposals(l), accept([m \in {l} |-> p])
      PROVE  LedgerStep
  <2> DEFINE final == [m \in {l} |-> p]
  <2>1. l \in Lines => status[l] # "fallback"
    BY <1>4 DEF LedgerInv, DecisionsCoherent, NoText, Source
  <2>2. \A k \in Lines : k \in DOMAIN final => final[k] \in Texts /\ status[k] # "fallback"
    BY <2>1, ProposalsAreTexts
  <2>3. accept(final)
    BY <1>4
  <2> HIDE DEF final
  <2> QED
    BY <2>2, <2>3, AcceptMoves
<1> QED
  BY <1>2, <1>3, <1>4, IdleMoves

LEMMA PreserveBreakCharsMoves ==
    ASSUME LedgerInv, PreserveBreakChars
    PROVE  LedgerStep
<1> DEFINE respell == [l \in {m \in Lines : text[m] = "glyph"} |-> Source]
<1>1. renormalise(respell)
  BY DEF PreserveBreakChars
<1>2. \A l \in Lines : l \in DOMAIN respell => respell[l] \in Texts /\ Changed(l)
  BY DEF Texts, Changed, Source, NoText
<1> HIDE DEF respell
<1> QED
  BY <1>1, <1>2, RespellMoves

(* The router confirms lines outside every unit; none of those has fallen. *)
LEMMA RoutePlanMoves ==
    ASSUME LedgerInv, LocalityInv, RoutePlan
    PROVE  LedgerStep
<1>1. PICK skip \in SUBSET Skippable(PageLines(page)) : accept([l \in skip |-> Source])
  BY DEF RoutePlan
<1> DEFINE final == [l \in skip |-> Source]
<1>2. ASSUME NEW l \in skip
      PROVE  l \in Lines /\ status[l] = "pending"
  <2>1. l \in Lines /\ PageOf[l] = page /\ links.role[l] = "NONE" /\ pc = "plan"
    BY DEF Skippable, PageLines, RoutePlan
  <2> QED
    BY <2>1 DEF LocalityInv, RolesAhead, Ahead
<1>3. \A l \in Lines : l \in DOMAIN final => final[l] \in Texts /\ status[l] # "fallback"
  BY <1>2 DEF Texts
<1>4. accept(final)
  BY <1>1
<1> HIDE DEF final
<1> QED
  BY <1>3, <1>4, AcceptMoves

(* Every step of a run is a step of the contract. *)
LEMMA StepsMove ==
    ASSUME LocalityInv, LedgerInv, [Next]_vars
    PROVE  LedgerStep
<1>1. CASE ReconcileJoin \/ AcceptLine \/ PreserveBreakChars
  BY <1>1, ReconcileJoinMoves, AcceptLineMoves, PreserveBreakCharsMoves
<1>2. CASE GiveUpChunk \/ StarveSub
  BY <1>2, ChunkFallbackMoves DEF GiveUpChunk, StarveSub
<1>3. CASE DomainError
  BY <1>3, AbsorbErrorMoves DEF DomainError
<1>4. CASE AdjacencyPass
  BY <1>4, UnitRevertsMoves DEF AdjacencyPass, Reasons
<1>5. CASE LossPolicyPass
  BY <1>5, UnitRevertsMoves DEF LossPolicyPass, Reasons
<1>6. CASE RoutePlan
  BY <1>6, RoutePlanMoves
<1>7. CASE \/ StartPage \/ PlanStep \/ KeepPlan \/ RouteChunk \/ EndRouting \/ EndPage
          \/ EndPages \/ StartChunk \/ Answered \/ Retry \/ AttemptsExhausted \/ FatalError \/ Descend \/ OpenDescent
          \/ StartSub \/ EndChunk \/ JoinsDone \/ TargetsDone \/ DeriveDecisions
          \/ Abort \/ Terminated \/ UNCHANGED vars
  <2>1. UNCHANGED ledger
    BY <1>7 DEF StartPage, PlanStep, KeepPlan, RouteChunk, EndRouting, EndPage, EndPages, StartChunk, Answered, Retry,
                AttemptsExhausted, FatalError, Descend, OpenDescent, StartSub, EndChunk,
                JoinsDone, TargetsDone, DeriveDecisions, Abort, Terminated, vars
  <2> QED
    BY <2>1, IdleMoves
<1> QED
  BY <1>1, <1>2, <1>3, <1>4, <1>5, <1>6, <1>7 DEF Next, RunStep

(* Nothing is written once the decision set exists, and it exists only for *)
(* a ledger without an undecided line.                                     *)
LEMMA SealingSteps ==
    ASSUME [Next]_vars
    PROVE  \/ (pc = "done") = (pc' = "done") /\ (pc = "done" => UNCHANGED ledger)
           \/ /\ pc # "done" /\ pc' = "done"
              /\ UNCHANGED ledger /\ \A l \in Lines : status[l] # "pending"
<1>1. CASE DeriveDecisions
  BY <1>1 DEF DeriveDecisions
<1>2. CASE Terminated \/ UNCHANGED vars
  BY <1>2 DEF Terminated, vars, driverVars
<1>3. CASE PlanStep
  BY <1>3 DEF PlanStep, driverVars
<1>4. CASE ProducerCall /\ pc' # "done"
  BY <1>4 DEF ProducerCall
<1>5. CASE \/ StartPage \/ KeepPlan \/ RoutePlan \/ RouteChunk \/ EndRouting \/ EndPage
          \/ EndPages \/ StartChunk
          \/ Descend \/ OpenDescent \/ GiveUpChunk \/ StartSub \/ StarveSub \/ EndChunk
          \/ ReconcileJoin \/ JoinsDone \/ AcceptLine \/ TargetsDone
          \/ AdjacencyPass \/ PreserveBreakChars \/ LossPolicyPass \/ Abort
  <2>1. pc # "done" /\ pc' # "done"
    BY <1>5 DEF StartPage, KeepPlan, RoutePlan, RouteChunk, EndRouting, EndPage, EndPages, StartChunk, Descend,
                OpenDescent, GiveUpChunk, StartSub, StarveSub, EndChunk, ReconcileJoin,
                JoinsDone, AcceptLine, TargetsDone, AdjacencyPass, PreserveBreakChars,
                LossPolicyPass, Abort
  <2> QED
    BY <2>1
<1> QED
  BY <1>1, <1>2, <1>3, <1>4, <1>5
  DEF Next, RunStep, Answered, Retry, AttemptsExhausted, DomainError, FatalError, ProducerCall

(* The report agrees with the lines throughout a run: a reason exactly for *)
(* the lines that fell back, each at its source text (decide.py).          *)
THEOREM RunCoherent ==
    Spec => []DecisionsCoherent
<1>1. Init => LedgerInv
  BY DEF Init, LedgerInit, LedgerInv, LedgerTypeOK, DecisionsCoherent, Statuses,
         NoText, NoReason
<1>2. LocalityInv /\ LedgerInv /\ [Next]_vars => LedgerInv'
  BY StepsMove, MovesKeepCoherence
<1>3. LedgerInv => DecisionsCoherent
  BY DEF LedgerInv
<1> QED
  BY <1>1, <1>2, <1>3, WorkStaysOnPage, PTL DEF Spec

(* The run implements the decision contract: a fallback is never undone, a *)
(* reason never overwritten, and the decision set seals a complete ledger  *)
(* that no later step touches (decide.py, decisions.py).                   *)
THEOREM RunKeepsContract ==
    Spec => KeepsContract
<1>1. Init => LedgerInv /\ Contract!ContractInit
  <2>1. Init => LedgerInit /\ pc = "page"
    BY DEF Init
  <2>2. LedgerInit => LedgerInv
    BY DEF LedgerInit, LedgerInv, LedgerTypeOK, DecisionsCoherent, Statuses, NoText, NoReason
  <2>3. LedgerInit /\ pc = "page" => Contract!ContractInit
    BY DEF LedgerInit, Contract!ContractInit, Contract!LedgerInit, NoText, NoReason,
           Contract!NoText, Contract!NoReason, Lines, Contract!Lines
  <2> QED
    BY <2>1, <2>2, <2>3
<1>2. LocalityInv /\ LedgerInv /\ [Next]_vars => LedgerInv'
  BY StepsMove, MovesKeepCoherence
<1>3. LocalityInv /\ LedgerInv /\ [Next]_vars => [Contract!ContractNext]_(Contract!contractVars)
  <2> SUFFICES ASSUME LocalityInv, LedgerInv, [Next]_vars
               PROVE  [Contract!ContractNext]_(Contract!contractVars)
    OBVIOUS
  <2>1. LedgerStep
    BY StepsMove
  <2>2. CASE (pc = "done") = (pc' = "done") /\ pc # "done"
    BY <2>1, <2>2
    DEF LedgerStep, LedgerTypeOK, Contract!ContractNext, Contract!Decide, Contract!Lines, Lines,
        Statuses, Contract!Statuses, Texts, Contract!Texts, NoText, Contract!NoText, Source,
        Contract!Source, Reasons, Contract!Reasons, NoReason, Contract!NoReason
  <2>3. CASE (pc = "done") = (pc' = "done") /\ UNCHANGED ledger
    BY <2>3 DEF Contract!contractVars, ledger
  <2>4. CASE /\ pc # "done" /\ pc' = "done"
             /\ UNCHANGED ledger /\ \A l \in Lines : status[l] # "pending"
    BY <2>4 DEF Contract!ContractNext, Contract!Seal, ledger, Lines, Contract!Lines
  <2> QED
    BY <2>2, <2>3, <2>4, SealingSteps
<1> QED
  BY <1>1, <1>2, <1>3, WorkStaysOnPage, PTL DEF Spec, KeepsContract, Contract!ContractSpec
=============================================================================
