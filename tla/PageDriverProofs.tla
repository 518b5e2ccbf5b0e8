-------------------------- MODULE PageDriverProofs --------------------------
(* Proofs about the correction run, for every document, plan and policy. *)
EXTENDS DecisionProofs

-----------------------------------------------------------------------------
(* The purse of a work item (retry.py, driver.py). *)

(* The smaller of the cap and what is left, and never negative. *)
LEMMA AttemptsAllowedBounds ==
    ASSUME budget \in Int
    PROVE  /\ AttemptsAllowed \in Int
           /\ AttemptsAllowed =< MaxAttempts
           /\ budget > 0 => 1 =< AttemptsAllowed /\ AttemptsAllowed =< budget
<1>1. Max({budget, 0}) = IF budget >= 0 THEN budget ELSE 0
  BY DEF Max
<1>2. ASSUME NEW a \in Int, NEW b \in Int
      PROVE  Min({a, b}) = IF a =< b THEN a ELSE b
  BY DEF Min
<1>3. MaxAttempts \in Nat \ {0}
  BY DriverAssumption
<1> DEFINE left == IF budget >= 0 THEN budget ELSE 0
<1>4. AttemptsAllowed = Min({MaxAttempts, left})
  BY <1>1 DEF AttemptsAllowed
<1>5. left \in Int
  OBVIOUS
<1>6. AttemptsAllowed = IF MaxAttempts =< left THEN MaxAttempts ELSE left
  BY <1>2, <1>3, <1>4, <1>5
<1> QED
  BY <1>3, <1>6

(* While an attempt is under way, the calls made and the attempt about to  *)
(* be charged account for what left the purse; elsewhere what was spent is *)
(* charged, except after an absorbed error, which ends the work item.      *)
BudgetInv ==
    /\ budget \in Int /\ calls \in Nat /\ attempt \in Nat \ {0}
    /\ budget =< PerChunkBudget
    /\ calls =< PerChunkBudget
    /\ pc = "attempt" => /\ attempt =< AttemptsAllowed /\ budget > 0
                         /\ calls = (PerChunkBudget - budget) + (attempt - 1)
    /\ pc \in {"reconcile", "accept", "failure", "replan"} => calls = PerChunkBudget - budget
    /\ pc = "sub" /\ subs # <<>> => calls = PerChunkBudget - budget

(* The purse is filled when a work item starts, and not between. *)
LEMMA BudgetInit == Init => BudgetInv
  BY DriverAssumption DEF Init, BudgetInv

(* The actions that leave the purse and the place in the attempt loop alone. *)
LEMMA BudgetIdle ==
    ASSUME BudgetInv, UNCHANGED <<budget, calls, attempt, subs>>,
           pc' \notin {"attempt", "reconcile", "accept", "failure", "replan", "sub"}
    PROVE  BudgetInv'
  BY DEF BudgetInv

(* The actions that move between places where all that was spent is charged. *)
LEMMA BudgetCharged ==
    ASSUME BudgetInv, UNCHANGED <<budget, calls, attempt>>,
           pc \in {"reconcile", "accept", "failure", "replan"} \/ (pc = "sub" /\ subs # <<>>),
           pc' # "attempt"
    PROVE  BudgetInv'
  BY DEF BudgetInv

(* One producer call is paid for before it is made. *)
LEMMA BudgetCall ==
    ASSUME BudgetInv, ProducerCall
    PROVE  /\ attempt \in Nat \ {0} /\ budget \in Int
           /\ attempt =< AttemptsAllowed /\ attempt =< budget
           /\ calls' \in Nat
           /\ calls' = (PerChunkBudget - budget) + attempt
           /\ calls' =< PerChunkBudget
<1>1. AttemptsAllowed \in Int /\ AttemptsAllowed =< budget
  BY AttemptsAllowedBounds DEF BudgetInv, ProducerCall
<1> QED
  BY <1>1, DriverAssumption DEF BudgetInv, ProducerCall

LEMMA BudgetNext == BudgetInv /\ [Next]_vars => BudgetInv'
<1> SUFFICES ASSUME BudgetInv, [Next]_vars
             PROVE  BudgetInv'
  OBVIOUS
<1> USE DriverAssumption
<1>1. CASE StartChunk
  <2>1. budget' = PerChunkBudget /\ calls' = 0 /\ attempt' = 1 /\ pc' \in {"sub", "attempt"}
    BY <1>1 DEF StartChunk
  <2>2. 1 =< AttemptsAllowed'
    BY <2>1, AttemptsAllowedBounds, PerChunkBudget \in Nat \ {0}, MaxAttempts \in Nat \ {0}, SMTT(30)
    DEF AttemptsAllowed, Min, Max
  <2> QED
    BY <2>1, <2>2 DEF BudgetInv
<1>2. CASE Answered
  <2>1. budget' = budget - attempt /\ attempt' = attempt /\ pc' = "reconcile" /\ ProducerCall
    BY <1>2 DEF Answered
  <2> QED
    BY <2>1, BudgetCall DEF BudgetInv
<1>3. CASE Retry
  <2>1. /\ budget' = budget /\ attempt' = attempt + 1 /\ attempt < AttemptsAllowed
        /\ pc' = "attempt" /\ ProducerCall
    BY <1>3 DEF Retry, ProducerCall
  <2>2. AttemptsAllowed' = AttemptsAllowed /\ AttemptsAllowed \in Int
    BY <2>1, AttemptsAllowedBounds DEF AttemptsAllowed, BudgetInv
  <2> QED
    BY <2>1, <2>2, BudgetCall, SMTT(30) DEF BudgetInv, ProducerCall
<1>4. CASE AttemptsExhausted
  <2>1. budget' = budget - attempt /\ attempt' = attempt /\ pc' = "failure" /\ ProducerCall
    BY <1>4 DEF AttemptsExhausted
  <2> QED
    BY <2>1, BudgetCall DEF BudgetInv
<1>5. CASE DomainError
  <2>1. budget' = budget /\ attempt' = attempt /\ pc' = "sub" /\ subs' = <<>> /\ ProducerCall
    BY <1>5 DEF DomainError
  <2> QED
    BY <2>1, BudgetCall DEF BudgetInv
<1>6. CASE FatalError
  <2>1. budget' = budget /\ attempt' = attempt /\ pc' = "failed" /\ ProducerCall
    BY <1>6 DEF FatalError
  <2> QED
    BY <2>1, BudgetCall DEF BudgetInv
<1>7. CASE StartSub
  <2>1. /\ pc = "sub" /\ subs # <<>> /\ budget > 0 /\ budget' = budget /\ calls' = calls
        /\ attempt' = 1 /\ pc' \in {"sub", "attempt"}
    BY <1>7 DEF StartSub
  <2>2. AttemptsAllowed' = AttemptsAllowed /\ 1 =< AttemptsAllowed
    BY <2>1, AttemptsAllowedBounds DEF AttemptsAllowed, BudgetInv
  <2> QED
    BY <2>1, <2>2 DEF BudgetInv
<1>8. CASE Descend
  BY <1>8, BudgetCharged DEF Descend, chunkVars
<1>9. CASE OpenDescent
  BY <1>9, BudgetCharged DEF OpenDescent
<1>10. CASE GiveUpChunk
  BY <1>10, BudgetCharged DEF GiveUpChunk, chunkVars
<1>11. CASE StarveSub
  BY <1>11, BudgetCharged DEF StarveSub
<1>12. CASE ReconcileJoin \/ JoinsDone \/ AcceptLine \/ TargetsDone
  BY <1>12, BudgetCharged DEF ReconcileJoin, JoinsDone, AcceptLine, TargetsDone, chunkVars
<1>13. CASE PlanStep
  BY <1>13 DEF PlanStep, driverVars, chunkVars, BudgetInv, AttemptsAllowed
<1>14. CASE StartPage \/ KeepPlan \/ RoutePlan \/ RouteChunk \/ EndRouting \/ EndPage \/ EndPages \/ EndChunk \/ Abort
  BY <1>14, BudgetIdle
  DEF StartPage, KeepPlan, RoutePlan, RouteChunk, EndRouting, EndPage, EndPages, EndChunk, Abort, chunkVars
<1>15. CASE AdjacencyPass \/ PreserveBreakChars \/ LossPolicyPass \/ DeriveDecisions
  BY <1>15, BudgetIdle
  DEF AdjacencyPass, PreserveBreakChars, LossPolicyPass, DeriveDecisions, chunkVars
<1>16. CASE Terminated \/ UNCHANGED vars
  BY <1>16 DEF Terminated, vars, driverVars, chunkVars, BudgetInv, AttemptsAllowed
<1> QED
  BY <1>1, <1>2, <1>3, <1>4, <1>5, <1>6, <1>7, <1>8, <1>9, <1>10, <1>11, <1>12, <1>13,
     <1>14, <1>15, <1>16 DEF Next, RunStep

(* A planned chunk costs at most per_chunk_budget producer calls, whatever *)
(* the granularities, the retry cap and the failures (retry.py, ChunkBudget). *)
THEOREM BudgetIsKept == Spec => []BudgetBound
<1>1. BudgetInv => BudgetBound
  BY DEF BudgetInv, BudgetBound
<1> QED
  BY <1>1, BudgetInit, BudgetNext, PTL DEF Spec

-----------------------------------------------------------------------------
(* What is still owed on the page being processed (driver.py, outcome.py). *)

Sent == {c \in Chunk : c.targets \subseteq c.lines}

(* The lines somebody still has to decide before the page can be left.     *)
Left ==
    Owned(queue) \cup
    (CASE pc = "route" -> Owned(chunks)
       [] pc \in {"attempt", "failure", "replan"} -> cur.targets \cup Owned(subs)
       [] pc = "sub" -> Owned(subs)
       [] pc \in {"reconcile", "accept"} -> todo \cup Owned(subs)
       [] OTHER -> {})

(* A plan is of the page, or of the targets of the chunk that failed. *)
PlanUnderWay ==
    /\ PlanTypeOK
    /\ pc \in {"plan", "replan"} => PlanInv
    /\ pc = "plan" => scope = PageLines(page)
    /\ pc = "replan" => scope = cur.targets

(* Everything the work item does is done for its targets. *)
WorkSent ==
    /\ queue \in Seq(Sent)
    /\ pc = "route" => chunks \in Seq(Sent)
    /\ InItem => /\ subs \in Seq(Sent) /\ cur \in Sent /\ top \in Sent
                 /\ cur.targets \subseteq top.targets /\ Owned(subs) \subseteq top.targets
    /\ pc \in {"reconcile", "accept"} => todo \subseteq top.targets

NothingLost ==
    pc \in {"route", "chunk"} \/ InItem =>
        \A l \in PageLines(page) : status[l] = "pending" => l \in Left

CoverInv ==
    /\ DecidedBehind
    /\ skipped \subseteq Lines /\ \A l \in skipped : status[l] # "pending"
    /\ PlanUnderWay /\ WorkSent /\ NothingLost

RunInv == LocalityInv /\ LedgerInv /\ CoverInv

-----------------------------------------------------------------------------
(* The lines owned by what is left of a sequence of chunks. *)

LEMMA OwnedHead ==
    ASSUME NEW S \in SUBSET Chunk, NEW s \in Seq(S), s # <<>>
    PROVE  /\ Head(s) \in S /\ Tail(s) \in Seq(S)
           /\ Owned(s) = Head(s).targets \cup Owned(Tail(s))
<1>1. Head(s) \in S /\ Tail(s) \in Seq(S)
  OBVIOUS
<1>2. /\ DOMAIN s = 1 .. Len(s) /\ Len(s) \in Nat \ {0} /\ s[1] = Head(s)
      /\ DOMAIN Tail(s) = 1 .. (Len(s) - 1)
      /\ \A k \in 1 .. (Len(s) - 1) : Tail(s)[k] = s[k + 1]
  OBVIOUS
<1>3. Head(s).targets \subseteq Lines
  BY <1>1 DEF Chunk
<1>4. ASSUME NEW l \in Lines
      PROVE  (\E k \in DOMAIN s : l \in s[k].targets) <=>
                 l \in Head(s).targets \/ \E k \in DOMAIN Tail(s) : l \in Tail(s)[k].targets
  <2>1. ASSUME NEW k \in DOMAIN s, l \in s[k].targets
        PROVE  l \in Head(s).targets \/ \E j \in DOMAIN Tail(s) : l \in Tail(s)[j].targets
    <3>1. CASE k = 1
      BY <1>2, <2>1, <3>1
    <3>2. CASE k # 1
      <4>1. k - 1 \in DOMAIN Tail(s) /\ Tail(s)[k - 1] = s[k]
        BY <1>2, <3>2
      <4> QED
        BY <2>1, <4>1
    <3> QED
      BY <3>1, <3>2
  <2>2. ASSUME NEW k \in DOMAIN Tail(s)
        PROVE  k + 1 \in DOMAIN s /\ Tail(s)[k] = s[k + 1]
    BY <1>2
  <2>3. 1 \in DOMAIN s
    BY <1>2
  <2> QED
    BY <1>2, <2>1, <2>2, <2>3
<1> QED
  BY <1>1, <1>3, <1>4 DEF Owned

LEMMA OwnedConcat ==
    ASSUME NEW S \in SUBSET Chunk, NEW s \in Seq(S), NEW t \in Seq(S)
    PROVE  s \o t \in Seq(S) /\ Owned(s \o t) = Owned(s) \cup Owned(t)
<1> DEFINE st == s \o t
           n == Len(s)
<1>1. /\ st \in Seq(S) /\ n \in Nat /\ Len(t) \in Nat
      /\ DOMAIN st = 1 .. (n + Len(t)) /\ DOMAIN s = 1 .. n /\ DOMAIN t = 1 .. Len(t)
      /\ \A k \in 1 .. n : st[k] = s[k]
      /\ \A k \in 1 .. Len(t) : st[n + k] = t[k]
  OBVIOUS
<1> HIDE DEF st, n
<1>2. ASSUME NEW k \in DOMAIN st
      PROVE  \/ k \in DOMAIN s /\ st[k] = s[k]
             \/ k - n \in DOMAIN t /\ st[k] = t[k - n]
  <2>1. k =< n => k \in DOMAIN s /\ st[k] = s[k]
    BY <1>1
  <2>2. ~(k =< n) => k - n \in 1 .. Len(t) /\ n + (k - n) = k
    BY <1>1
  <2> QED
    BY <1>1, <2>1, <2>2
<1>3. \A k \in DOMAIN s : k \in DOMAIN st /\ st[k] = s[k]
  BY <1>1
<1>4. \A k \in DOMAIN t : n + k \in DOMAIN st /\ st[n + k] = t[k]
  BY <1>1
<1>5. Owned(st) = Owned(s) \cup Owned(t)
  BY <1>2, <1>3, <1>4 DEF Owned
<1> QED
  BY <1>1, <1>5 DEF st

LEMMA OwnedNone == Owned(<<>>) = {}
  BY DEF Owned

(* A chunk cut down to some of its targets. *)
LEMMA OwningOwns ==
    ASSUME NEW c \in Sent, NEW T \in SUBSET c.targets
    PROVE  Owning(c, T) \in Seq(Sent) /\ Owned(Owning(c, T)) = T
<1>1. CASE T = {}
  BY <1>1, OwnedNone DEF Owning
<1>2. CASE T # {}
  <2> DEFINE d == [c EXCEPT !.targets = T]
  <2>1. d \in Sent /\ d.targets = T /\ T \subseteq Lines
    BY DEF Sent, Chunk
  <2>2. Owning(c, T) = <<d>>
    BY <1>2 DEF Owning
  <2> HIDE DEF d
  <2>3. <<d>> \in Seq(Sent) /\ DOMAIN <<d>> = {1} /\ <<d>>[1] = d
    BY <2>1
  <2> QED
    BY <2>1, <2>2, <2>3 DEF Owned
<1> QED
  BY <1>1, <1>2

(* The chunks of a finished plan are sent what they own. *)
LEMMA PlanIsSent ==
    ASSUME PlanInv, planning = "idle"
    PROVE  chunks \in Seq(Sent) /\ Owned(chunks) = scope
<1>1. chunks \in Seq(Chunk) /\ Division(chunks, scope)
  BY DEF PlanInv, PlanTypeOK
<1>2. \A k \in 1 .. Len(chunks) : chunks[k] \in Sent
  BY <1>1 DEF Division, Sent
<1> QED
  BY <1>1, <1>2 DEF PlanInv

-----------------------------------------------------------------------------
(* A decision is never taken back to pending. *)
LEMMA StaysDecided ==
    ASSUME LedgerStep
    PROVE  \A l \in Lines : status'[l] = "pending" => status[l] = "pending"
  BY DEF LedgerStep, Contract!Moves

LEMMA FallBackDecides ==
    ASSUME NEW why, fall_back(why)
    PROVE  \A l \in Lines : l \in DOMAIN why => status'[l] = "fallback" /\ text'[l] = Source
  BY DEF fall_back

(* A chunk that gives up decides its targets. *)
LEMMA GivesUpAll ==
    ASSUME NEW c, c.targets \subseteq Lines, ChunkFallback(c)
    PROVE  \A l \in c.targets : status'[l] # "pending"
<1> DEFINE pulled == {m \in units_containing(links, c.targets, Pool) :
                         \A t \in c.targets : IdOf[m] # IdOf[t]}
           why == [m \in c.targets \cup pulled |->
                      IF m \in c.targets THEN "exhausted" ELSE "unit"]
<1>1. fall_back(why) /\ c.targets \subseteq DOMAIN why
  BY DEF ChunkFallback
<1> HIDE DEF why
<1> QED
  BY <1>1, FallBackDecides

(* An absorbed error leaves nothing of the work item undecided. *)
LEMMA AbsorbsAll ==
    ASSUME top.targets \subseteq Lines, LedgerStep, AbsorbError
    PROVE  \A l \in top.targets : status'[l] # "pending"
<1> DEFINE undecided == {l \in top.targets : status[l] = "pending"}
           why == [m \in units_containing(links, undecided, Pool) |-> "absorbed"]
<1>1. CASE undecided = {}
  BY <1>1, StaysDecided
<1>2. CASE undecided # {}
  <2>1. fall_back(why) /\ undecided \subseteq DOMAIN why
    BY <1>2 DEF AbsorbError, units_containing
  <2> HIDE DEF why
  <2> QED
    BY <2>1, FallBackDecides, StaysDecided
<1> QED
  BY <1>1, <1>2

(* Acceptance decides the line it visits: only a decided line has a text.  *)
LEMMA VisitDecides ==
    ASSUME LedgerInv, NEW l \in Lines, DecideTarget(l)
    PROVE  status'[l] # "pending"
<1>1. CASE text[l] # NoText /\ UNCHANGED ledger
  BY <1>1 DEF LedgerInv, DecisionsCoherent, ledger
<1>2. CASE \E r : fall_back([m \in {l} |-> r])
  BY <1>2 DEF fall_back
<1>3. CASE \E p : accept([m \in {l} |-> p])
  BY <1>3 DEF accept
<1> QED
  BY <1>1, <1>2, <1>3 DEF DecideTarget

-----------------------------------------------------------------------------
LEMMA CoverInit == Init => CoverInv
<1> SUFFICES ASSUME Init
             PROVE  CoverInv
  OBVIOUS
<1>1. \A l \in Lines : ~(PageOf[l] < page)
  BY LayoutAssumption DEF Init
<1>2. pc = "page" /\ queue = <<>> /\ skipped = {}
  BY DEF Init
<1>3. PlanTypeOK
  BY LinkChoicesAssumption DEF Init, PlanTypeOK
<1> QED
  BY <1>1, <1>2, <1>3
  DEF CoverInv, DecidedBehind, PlanUnderWay, WorkSent, NothingLost, InItem

(* The page is left with nothing of it undecided. *)
LEMMA BehindNext == RunInv /\ [Next]_vars => DecidedBehind'
<1> SUFFICES ASSUME RunInv, [Next]_vars
             PROVE  DecidedBehind'
  OBVIOUS
<1>1. LedgerStep
  BY StepsMove DEF RunInv
<1>2. \A l \in Lines : PageOf[l] < page => status'[l] # "pending"
  BY <1>1, StaysDecided DEF RunInv, CoverInv, DecidedBehind
<1>3. CASE EndPage
  <2>1. /\ pc = "chunk" /\ queue = <<>> /\ page' = page + 1 /\ UNCHANGED ledger
        /\ page \in Nat
    BY <1>3 DEF EndPage, RunInv, LocalityInv, ItemLocal
  <2>2. Left = {}
    BY <2>1, OwnedNone DEF Left
  <2>3. \A l \in PageLines(page) : status[l] # "pending"
    BY <2>1, <2>2 DEF RunInv, CoverInv, NothingLost
  <2>4. ASSUME NEW l \in Lines, PageOf[l] < page + 1
        PROVE  PageOf[l] < page \/ l \in PageLines(page)
    <3>1. PageOf[l] \in Nat
      BY LayoutAssumption
    <3> QED
      BY <2>1, <2>4, <3>1 DEF PageLines
  <2> QED
    BY <1>2, <2>1, <2>3, <2>4 DEF DecidedBehind, ledger
<1>4. CASE page' = page
  BY <1>2, <1>4 DEF DecidedBehind
<1>5. EndPage \/ page' = page
  BY DEF Next, RunStep, Abort, Terminated, StartPage, PlanStep, KeepPlan, RoutePlan, RouteChunk,
         EndRouting, EndPages, StartChunk, Answered, Retry, AttemptsExhausted, DomainError,
         FatalError, Descend, OpenDescent, GiveUpChunk, StartSub, StarveSub, EndChunk,
         ReconcileJoin, JoinsDone, AcceptLine, TargetsDone, AdjacencyPass, PreserveBreakChars,
         LossPolicyPass, DeriveDecisions, vars, driverVars, pageVars
<1> QED
  BY <1>3, <1>4, <1>5

LEMMA SkippedNext ==
    RunInv /\ [Next]_vars => skipped' \subseteq Lines /\ \A l \in skipped' : status'[l] # "pending"
<1> SUFFICES ASSUME RunInv, [Next]_vars
             PROVE  skipped' \subseteq Lines /\ \A l \in skipped' : status'[l] # "pending"
  OBVIOUS
<1>1. LedgerStep
  BY StepsMove DEF RunInv
<1>2. skipped \subseteq Lines /\ \A l \in skipped : status'[l] # "pending"
  BY <1>1, StaysDecided DEF RunInv, CoverInv
<1>3. CASE RoutePlan
  <2>1. PICK skip \in SUBSET Skippable(PageLines(page)) :
            accept([l \in skip |-> Source]) /\ skipped' = skipped \cup skip
    BY <1>3 DEF RoutePlan
  <2>2. skip \subseteq Lines
    BY DEF Skippable, PageLines
  <2>3. \A l \in skip : status'[l] # "pending"
    BY <2>1, <2>2 DEF accept
  <2> QED
    BY <1>2, <2>1, <2>2, <2>3
<1>4. RoutePlan \/ skipped' = skipped
  BY DEF Next, RunStep, Abort, Terminated, StartPage, PlanStep, KeepPlan, RouteChunk,
         EndRouting, EndPage, EndPages, StartChunk, Answered, Retry, AttemptsExhausted, DomainError,
         FatalError, Descend, OpenDescent, GiveUpChunk, StartSub, StarveSub, EndChunk,
         ReconcileJoin, JoinsDone, AcceptLine, TargetsDone, AdjacencyPass, PreserveBreakChars,
         LossPolicyPass, DeriveDecisions, vars, driverVars, runVars
<1> QED
  BY <1>2, <1>3, <1>4

LEMMA PlanUnderWayNext == RunInv /\ [Next]_vars => PlanUnderWay'
<1> SUFFICES ASSUME RunInv, [Next]_vars
             PROVE  PlanUnderWay'
  OBVIOUS
<1>1. /\ PlanTypeOK /\ links \in LinkSpace /\ splits \subseteq Lines \X Lines
      /\ PlanUnderWay
  BY DEF RunInv, CoverInv, PlanUnderWay, PlanTypeOK
<1>2. CASE StartPage
  <2>1. /\ BeginPlan(PageLines(page), "page") /\ pc' = "plan" /\ page' = page
        /\ PageLines(page) \in SUBSET Lines /\ scope' = PageLines(page)
    BY <1>2 DEF StartPage, BeginPlan, PageLines
  <2>2. PlanInv'
    BY <1>1, <2>1, PlanBegins
  <2> QED
    BY <2>1, <2>2 DEF PlanUnderWay, PlanInv, PageLines
<1>3. CASE Descend
  <2>1. /\ BeginPlan(cur.targets, downgrade_granularity(cur.gran)) /\ pc' = "replan"
        /\ cur' = cur /\ scope' = cur.targets /\ InItem
        /\ downgrade_granularity(cur.gran) # "none"
    BY <1>3 DEF Descend, BeginPlan, chunkVars, CanDescend, InItem
  <2>2. cur.targets \in SUBSET Lines
    BY <2>1 DEF RunInv, CoverInv, WorkSent, Sent, Chunk
  <2>3. downgrade_granularity(cur.gran) \in {"page", "block", "window", "line"}
    BY <2>1 DEF downgrade_granularity
  <2>4. PlanInv'
    BY <1>1, <2>1, <2>2, <2>3, PlanBegins
  <2> QED
    BY <2>1, <2>4 DEF PlanUnderWay, PlanInv
<1>4. CASE PlanStep
  <2>1. PlanInv /\ PlanNext /\ UNCHANGED <<pc, page, cur>> /\ pc \in {"plan", "replan"}
    BY <1>1, <1>4 DEF PlanStep, PlanUnderWay, driverVars, pageVars, chunkVars
  <2>2. PlanInv' /\ scope' = scope
    BY <2>1, PlanGoesOn
    DEF PlanNext, TryPage, TryBlock, TryWindow, CloseWindows, PlanLine, CloseLines
  <2> QED
    BY <1>1, <2>1, <2>2 DEF PlanUnderWay, PlanInv, PageLines
<1>5. CASE RouteChunk
  <2>1. /\ pc' = "route" /\ chunks # <<>> /\ chunks' = Tail(chunks)
        /\ UNCHANGED <<links, splits, planning, scope, at, windows>>
    BY <1>5 DEF RouteChunk
  <2>2. chunks' \in Seq(Chunk)
    BY <1>1, <2>1 DEF PlanTypeOK
  <2> QED
    BY <1>1, <2>1, <2>2 DEF PlanUnderWay, PlanTypeOK
<1>6. CASE UNCHANGED planVars /\ (pc' \notin {"plan", "replan"} \/ UNCHANGED <<pc, page, cur>>)
  <2>1. PlanTypeOK'
    BY <1>1, <1>6 DEF planVars, PlanTypeOK
  <2>2. PlanInv => PlanInv'
    BY <1>6, PlanStays
  <2>3. scope' = scope
    BY <1>6 DEF planVars
  <2> QED
    BY <1>1, <1>6, <2>1, <2>2, <2>3 DEF PlanUnderWay, PageLines
<1>7. \/ StartPage \/ Descend \/ PlanStep \/ RouteChunk
      \/ UNCHANGED planVars /\ (pc' \notin {"plan", "replan"} \/ UNCHANGED <<pc, page, cur>>)
  BY DEF Next, RunStep, Abort, Terminated, KeepPlan, RoutePlan, ProducerCall,
         EndRouting, EndPage, EndPages, StartChunk, Answered, Retry, AttemptsExhausted, DomainError,
         FatalError, OpenDescent, GiveUpChunk, StartSub, StarveSub, EndChunk,
         ReconcileJoin, JoinsDone, AcceptLine, TargetsDone, AdjacencyPass, PreserveBreakChars,
         LossPolicyPass, DeriveDecisions, vars, driverVars, pageVars, chunkVars
<1> QED
  BY <1>2, <1>3, <1>4, <1>5, <1>6, <1>7

(* The actions that leave the work items alone. *)
LEMMA WorkStays ==
    ASSUME WorkSent, UNCHANGED <<queue, subs, cur, top>>, UNCHANGED todo,
           pc' # "route", pc' \in {"reconcile", "accept"} => pc \in {"reconcile", "accept"},
           InItem' => InItem
    PROVE  WorkSent'
<1>1. UNCHANGED Owned(subs)
  OBVIOUS
<1> QED
  BY <1>1 DEF WorkSent

LEMMA WorkSentNext == RunInv /\ [Next]_vars => WorkSent'
<1> SUFFICES ASSUME RunInv, [Next]_vars
             PROVE  WorkSent'
  OBVIOUS
<1>1. WorkSent /\ PlanUnderWay /\ LocalityInv
  BY DEF RunInv, CoverInv
<1>2. CASE KeepPlan
  <2>1. chunks \in Seq(Sent)
    BY <1>1, <1>2, PlanIsSent DEF KeepPlan, PlanUnderWay
  <2>2. queue' = chunks /\ pc' = "chunk"
    BY <1>2 DEF KeepPlan
  <2> QED
    BY <2>1, <2>2 DEF WorkSent, InItem
<1>3. CASE RoutePlan
  <2>1. chunks \in Seq(Sent)
    BY <1>1, <1>3, PlanIsSent DEF RoutePlan, PlanUnderWay
  <2>2. queue' = queue /\ chunks' = chunks /\ pc' = "route"
    BY <1>3 DEF RoutePlan, planVars
  <2> QED
    BY <1>1, <2>1, <2>2 DEF WorkSent, InItem
<1>4. CASE RouteChunk
  <2> DEFINE c == Head(chunks)
             owned == c.targets \ skipped
             one == Owning(c, owned \ escalate)
             two == Owning(c, owned \cap escalate)
  <2>1. /\ pc = "route" /\ pc' = "route" /\ chunks # <<>> /\ chunks' = Tail(chunks)
        /\ queue' = queue \o one \o two
    BY <1>4 DEF RouteChunk
  <2>2. chunks \in Seq(Sent) /\ queue \in Seq(Sent)
    BY <1>1, <2>1 DEF WorkSent
  <2>3. c \in Sent /\ Tail(chunks) \in Seq(Sent)
    BY <2>1, <2>2
  <2> HIDE DEF c
  <2>4. one \in Seq(Sent) /\ two \in Seq(Sent)
    BY <2>3, OwningOwns
  <2> HIDE DEF one, two
  <2>5. queue' \in Seq(Sent)
    BY <2>1, <2>2, <2>4
  <2> QED
    BY <2>1, <2>3, <2>5 DEF WorkSent, InItem
<1>5. CASE StartChunk
  <2>1. /\ queue # <<>> /\ queue' = Tail(queue) /\ top' = Head(queue) /\ cur' = Head(queue)
        /\ subs' = <<>> /\ pc' \in {"sub", "attempt"}
    BY <1>5 DEF StartChunk
  <2>2. Head(queue) \in Sent /\ Tail(queue) \in Seq(Sent)
    BY <1>1, <2>1 DEF WorkSent
  <2>3. Owned(subs') = {}
    BY <2>1, OwnedNone
  <2> QED
    BY <2>1, <2>2, <2>3 DEF WorkSent
<1>6. CASE Answered
  <2>1. /\ UNCHANGED <<queue, subs, cur, top>> /\ todo' = cur.targets /\ pc' = "reconcile" /\ InItem
    BY <1>6 DEF Answered, ProducerCall, pageVars, InItem
  <2>2. UNCHANGED Owned(subs)
    BY <2>1
  <2> QED
    BY <1>1, <2>1, <2>2 DEF WorkSent, InItem
<1>7. CASE DomainError
  <2>1. /\ UNCHANGED <<queue, cur, top>> /\ subs' = <<>> /\ pc' = "sub" /\ InItem
    BY <1>7 DEF DomainError, ProducerCall, pageVars, InItem
  <2>2. Owned(subs') = {}
    BY <2>1, OwnedNone
  <2> QED
    BY <1>1, <2>1, <2>2 DEF WorkSent
<1>8. CASE OpenDescent
  <2>1. /\ UNCHANGED <<queue, cur, top>> /\ subs' = chunks \o subs /\ pc' = "sub" /\ InItem
        /\ pc = "replan" /\ planning = "idle"
    BY <1>8 DEF OpenDescent, pageVars, InItem
  <2>2. chunks \in Seq(Sent) /\ Owned(chunks) = cur.targets
    BY <1>1, <2>1, PlanIsSent DEF PlanUnderWay
  <2>3. subs \in Seq(Sent) /\ cur.targets \subseteq top.targets /\ Owned(subs) \subseteq top.targets
    BY <1>1, <2>1 DEF WorkSent
  <2>4. chunks \o subs \in Seq(Sent) /\ Owned(chunks \o subs) = cur.targets \cup Owned(subs)
    BY <2>2, <2>3, OwnedConcat, Sent \in SUBSET Chunk DEF Sent
  <2> QED
    BY <1>1, <2>1, <2>3, <2>4 DEF WorkSent
<1>9. CASE StartSub \/ StarveSub
  <2>1. /\ UNCHANGED <<queue, top>> /\ subs # <<>> /\ subs' = Tail(subs) /\ InItem
        /\ cur' \in {cur, Head(subs)} /\ pc' \in {"sub", "attempt"}
    BY <1>9 DEF StartSub, StarveSub, pageVars, InItem
  <2>2. subs \in Seq(Sent) /\ Owned(subs) \subseteq top.targets
    BY <1>1, <2>1 DEF WorkSent
  <2>3. /\ Head(subs) \in Sent /\ Tail(subs) \in Seq(Sent)
        /\ Head(subs).targets \subseteq top.targets /\ Owned(Tail(subs)) \subseteq top.targets
    BY <2>1, <2>2, OwnedHead, Sent \in SUBSET Chunk DEF Sent
  <2> QED
    BY <1>1, <2>1, <2>3 DEF WorkSent
<1>10. CASE AcceptLine
  <2>1. /\ UNCHANGED <<queue, subs, cur, top>> /\ todo' \subseteq todo /\ pc' = pc /\ pc = "accept"
    BY <1>10 DEF AcceptLine, pageVars, chunkVars
  <2>2. UNCHANGED Owned(subs)
    BY <2>1
  <2> QED
    BY <1>1, <2>1, <2>2 DEF WorkSent, InItem
<1>11. CASE UNCHANGED vars
  <2>1. UNCHANGED <<pc, queue, subs, cur, top, todo, chunks>>
    BY <1>11 DEF vars, driverVars, pageVars, chunkVars, decideVars, planVars
  <2>2. UNCHANGED Owned(subs)
    BY <2>1
  <2> QED
    BY <1>1, <2>1, <2>2 DEF WorkSent, InItem
<1>12. CASE PlanStep
  <2>1. UNCHANGED <<pc, queue, subs, cur, top, todo>> /\ pc \in {"plan", "replan"}
    BY <1>12 DEF PlanStep, driverVars, pageVars, chunkVars, decideVars
  <2> QED
    BY <1>1, <2>1, WorkStays DEF InItem
<1>13. CASE \/ StartPage \/ EndRouting \/ EndPage \/ EndPages \/ Retry \/ AttemptsExhausted
            \/ FatalError \/ Descend \/ GiveUpChunk \/ EndChunk \/ ReconcileJoin \/ JoinsDone
            \/ TargetsDone \/ AdjacencyPass \/ PreserveBreakChars \/ LossPolicyPass
            \/ DeriveDecisions \/ Abort
  <2>1. /\ UNCHANGED <<queue, subs, cur, top>> /\ UNCHANGED todo /\ pc' # "route"
        /\ pc' \in {"reconcile", "accept"} => pc \in {"reconcile", "accept"}
        /\ InItem' => InItem
    BY <1>13 DEF StartPage, EndRouting, EndPage, EndPages, Retry, AttemptsExhausted, FatalError,
                 Descend, GiveUpChunk, EndChunk, ReconcileJoin, JoinsDone, TargetsDone,
                 AdjacencyPass, PreserveBreakChars, LossPolicyPass, DeriveDecisions, Abort,
                 ProducerCall, pageVars, chunkVars, decideVars, InItem
  <2> QED
    BY <1>1, <2>1, WorkStays
<1> QED
  BY <1>2, <1>3, <1>4, <1>5, <1>6, <1>7, <1>8, <1>9, <1>10, <1>11, <1>12, <1>13
  DEF Next, RunStep, Terminated

(* A step that neither drops work nor takes a decision back loses nothing. *)
LEMMA LeavesWork ==
    ASSUME RunInv, LedgerStep, page' = page, pc \in {"route", "chunk"} \/ InItem,
           \A l \in PageLines(page) : l \in Left => l \in Left' \/ status'[l] # "pending"
    PROVE  NothingLost'
<1>1. \A l \in PageLines(page) : status'[l] = "pending" => status[l] = "pending"
  BY StaysDecided DEF PageLines
<1>2. \A l \in PageLines(page) : status[l] = "pending" => l \in Left
  BY DEF RunInv, CoverInv, NothingLost
<1>3. PageLines(page)' = PageLines(page)
  BY DEF PageLines
<1> QED
  BY <1>1, <1>2, <1>3 DEF NothingLost

LEMMA NothingLostNext == RunInv /\ [Next]_vars => NothingLost'
<1> SUFFICES ASSUME RunInv, [Next]_vars
             PROVE  NothingLost'
  OBVIOUS
<1>1. LedgerStep /\ WorkSent /\ PlanUnderWay
  BY StepsMove DEF RunInv, CoverInv
<1>2. Sent \in SUBSET Chunk
  BY DEF Sent
<1>3. CASE KeepPlan
  <2>1. pc' = "chunk" /\ queue' = chunks /\ page' = page /\ Owned(chunks) = PageLines(page)
    BY <1>1, <1>3, PlanIsSent DEF KeepPlan, PlanUnderWay
  <2>2. Left' = PageLines(page)
    BY <2>1 DEF Left
  <2> QED
    BY <2>1, <2>2 DEF NothingLost, PageLines
<1>4. CASE RoutePlan
  <2>1. /\ pc' = "route" /\ UNCHANGED <<queue, chunks, page>> /\ Owned(chunks) = PageLines(page)
    BY <1>1, <1>4, PlanIsSent DEF RoutePlan, PlanUnderWay, planVars
  <2>2. PageLines(page) \subseteq Left'
    BY <2>1 DEF Left
  <2> QED
    BY <2>1, <2>2 DEF NothingLost, PageLines
<1>5. CASE RouteChunk
  <2> DEFINE c == Head(chunks)
             owned == c.targets \ skipped
             one == Owning(c, owned \ escalate)
             two == Owning(c, owned \cap escalate)
  <2>1. /\ pc = "route" /\ pc' = "route" /\ chunks # <<>> /\ chunks' = Tail(chunks)
        /\ queue' = queue \o one \o two /\ page' = page /\ UNCHANGED ledger
    BY <1>5 DEF RouteChunk
  <2>2. chunks \in Seq(Sent) /\ queue \in Seq(Sent)
    BY <1>1, <2>1 DEF WorkSent
  <2>3. /\ c \in Sent /\ Owned(chunks) = c.targets \cup Owned(Tail(chunks))
    BY <1>2, <2>1, <2>2, OwnedHead
  <2> HIDE DEF c
  <2>4. /\ one \in Seq(Sent) /\ two \in Seq(Sent)
        /\ Owned(one) = owned \ escalate /\ Owned(two) = owned \cap escalate
    BY <2>3, OwningOwns
  <2> HIDE DEF one, two
  <2>5. /\ queue \o one \in Seq(Sent) /\ Owned(queue \o one) = Owned(queue) \cup Owned(one)
    BY <1>2, <2>2, <2>4, OwnedConcat, SMTT(30)
  <2>6. Owned(queue') = Owned(queue \o one) \cup Owned(two)
    <3>1. Sent \in SUBSET Chunk
      BY <1>2
    <3>2. Owned((queue \o one) \o two) = Owned(queue \o one) \cup Owned(two)
      BY ONLY <2>4, <2>5, <3>1, OwnedConcat
    <3> QED
      BY ONLY <2>1, <3>2
  <2>7. \A l \in skipped : status'[l] # "pending"
    BY <2>1 DEF RunInv, CoverInv, ledger
  <2>8. \A l \in Left : l \in Left' \/ l \in skipped
    BY <2>1, <2>3, <2>4, <2>5, <2>6 DEF Left
  <2> QED
    BY <1>1, <2>1, <2>7, <2>8, LeavesWork
<1>6. CASE EndRouting
  <2>1. pc = "route" /\ pc' = "chunk" /\ chunks = <<>> /\ UNCHANGED <<queue, page>>
    BY <1>6 DEF EndRouting, pageVars
  <2>2. \A l \in Left : l \in Left'
    BY <2>1, OwnedNone DEF Left
  <2> QED
    BY <1>1, <2>1, <2>2, LeavesWork
<1>7. CASE StartChunk
  <2>1. /\ pc = "chunk" /\ queue # <<>> /\ queue' = Tail(queue) /\ cur' = Head(queue) /\ page' = page
        /\ subs' = <<>> /\ pc' = IF Head(queue).lines = {} THEN "sub" ELSE "attempt"
    BY <1>7 DEF StartChunk
  <2>2. /\ Head(queue) \in Sent /\ Owned(queue) = Head(queue).targets \cup Owned(queue')
    BY <1>1, <1>2, <2>1, OwnedHead DEF WorkSent
  <2>3. pc' = "sub" => Head(queue).targets = {}
    BY <2>1, <2>2 DEF Sent
  <2>4. \A l \in Left : l \in Left'
    BY <2>1, <2>2, <2>3 DEF Left
  <2> QED
    BY <1>1, <2>1, <2>4, LeavesWork
<1>8. CASE Answered
  <2>1. /\ pc = "attempt" /\ UNCHANGED <<queue, subs, page>> /\ todo' = cur.targets /\ pc' = "reconcile"
    BY <1>8 DEF Answered, ProducerCall, pageVars
  <2>2. Owned(queue)' = Owned(queue) /\ Owned(subs)' = Owned(subs)
    BY <2>1
  <2>3. \A l \in Left : l \in Left'
    BY <2>1, <2>2 DEF Left
  <2> QED
    BY <1>1, <2>1, <2>3, LeavesWork DEF InItem
<1>9. CASE DomainError
  <2>1. /\ pc = "attempt" /\ UNCHANGED <<queue, page>> /\ subs' = <<>> /\ pc' = "sub" /\ AbsorbError
    BY <1>9 DEF DomainError, ProducerCall, pageVars
  <2>2. /\ cur.targets \subseteq top.targets /\ Owned(subs) \subseteq top.targets
        /\ top.targets \subseteq Lines
    BY <1>1, <2>1 DEF WorkSent, InItem, Sent, Chunk
  <2>3. \A l \in top.targets : status'[l] # "pending"
    BY <1>1, <2>1, <2>2, AbsorbsAll
  <2>4. Owned(queue)' = Owned(queue)
    BY <2>1
  <2>5. \A l \in Left : l \in Left' \/ status'[l] # "pending"
    BY <2>1, <2>2, <2>3, <2>4 DEF Left
  <2> QED
    BY <1>1, <2>1, <2>5, LeavesWork DEF InItem
<1>10. CASE OpenDescent
  <2>1. /\ UNCHANGED <<queue, page>> /\ subs' = chunks \o subs /\ pc' = "sub" /\ InItem
        /\ pc = "replan" /\ planning = "idle"
    BY <1>10 DEF OpenDescent, pageVars, InItem
  <2>2. chunks \in Seq(Sent) /\ Owned(chunks) = cur.targets /\ subs \in Seq(Sent)
    BY <1>1, <2>1, PlanIsSent DEF PlanUnderWay, WorkSent
  <2>3. Owned(subs') = cur.targets \cup Owned(subs)
    BY <1>2, <2>1, <2>2, OwnedConcat
  <2>4. Owned(queue)' = Owned(queue)
    BY <2>1
  <2>5. \A l \in Left : l \in Left'
    BY <2>1, <2>3, <2>4 DEF Left
  <2> QED
    BY <1>1, <2>1, <2>5, LeavesWork
<1>11. CASE StartSub
  <2>1. /\ UNCHANGED <<queue, page>> /\ subs # <<>> /\ subs' = Tail(subs) /\ pc = "sub"
        /\ cur' = Head(subs) /\ pc' = IF Head(subs).lines = {} THEN "sub" ELSE "attempt"
    BY <1>11 DEF StartSub, pageVars
  <2>2. Head(subs) \in Sent /\ Owned(subs) = Head(subs).targets \cup Owned(subs')
    BY <1>1, <1>2, <2>1, OwnedHead DEF WorkSent, InItem
  <2>3. pc' = "sub" => Head(subs).targets = {}
    BY <2>1, <2>2 DEF Sent
  <2>4. Owned(queue)' = Owned(queue)
    BY <2>1
  <2>5. \A l \in Left : l \in Left'
    BY <2>1, <2>2, <2>3, <2>4 DEF Left
  <2> QED
    BY <1>1, <2>1, <2>5, LeavesWork DEF InItem
<1>12. CASE StarveSub
  <2>1. /\ UNCHANGED <<queue, page, pc>> /\ subs # <<>> /\ subs' = Tail(subs) /\ pc = "sub"
        /\ ChunkFallback(Head(subs))
    BY <1>12 DEF StarveSub, pageVars
  <2>2. Head(subs) \in Sent /\ Owned(subs) = Head(subs).targets \cup Owned(subs')
    BY <1>1, <1>2, <2>1, OwnedHead DEF WorkSent, InItem
  <2>3. \A l \in Head(subs).targets : status'[l] # "pending"
    BY <2>1, <2>2, GivesUpAll DEF Sent, Chunk
  <2>4. Owned(queue)' = Owned(queue)
    BY <2>1
  <2>5. \A l \in Left : l \in Left' \/ status'[l] # "pending"
    BY <2>1, <2>2, <2>3, <2>4 DEF Left
  <2> QED
    BY <1>1, <2>1, <2>5, LeavesWork DEF InItem
<1>13. CASE GiveUpChunk
  <2>1. /\ UNCHANGED <<queue, page, subs>> /\ pc = "failure" /\ pc' = "sub" /\ ChunkFallback(cur)
    BY <1>13 DEF GiveUpChunk, pageVars, chunkVars
  <2>2. \A l \in cur.targets : status'[l] # "pending"
    BY <1>1, <2>1, GivesUpAll DEF WorkSent, InItem, Sent, Chunk
  <2>3. Owned(queue)' = Owned(queue) /\ Owned(subs)' = Owned(subs)
    BY <2>1
  <2>4. \A l \in Left : l \in Left' \/ status'[l] # "pending"
    BY <2>1, <2>2, <2>3 DEF Left
  <2> QED
    BY <1>1, <2>1, <2>4, LeavesWork DEF InItem
<1>14. CASE AcceptLine
  <2>1. PICK l \in todo : DecideTarget(l) /\ todo' = todo \ {l}
    BY <1>14 DEF AcceptLine
  <2>2. /\ UNCHANGED <<pc, queue, page, subs>> /\ pc = "accept"
    BY <1>14 DEF AcceptLine, pageVars, chunkVars
  <2>3. l \in Lines
    BY <1>1, <2>1, <2>2 DEF WorkSent, InItem, Sent, Chunk
  <2>4. status'[l] # "pending"
    BY <2>1, <2>3, VisitDecides DEF RunInv
  <2>5. Owned(queue)' = Owned(queue) /\ Owned(subs)' = Owned(subs)
    BY <2>2
  <2>6. \A m \in Left : m \in Left' \/ status'[m] # "pending"
    BY <2>1, <2>2, <2>4, <2>5 DEF Left
  <2> QED
    BY <1>1, <2>2, <2>6, LeavesWork DEF InItem
<1>15. CASE Retry \/ AttemptsExhausted \/ Descend \/ ReconcileJoin \/ JoinsDone \/ PlanStep
  <2>1. /\ UNCHANGED <<queue, page, subs, cur, todo>>
        /\ \/ pc \in {"attempt", "failure"} /\ pc' \in {"attempt", "failure", "replan"}
           \/ pc = "reconcile" /\ pc' \in {"reconcile", "accept"}
           \/ pc \in {"plan", "replan"} /\ pc' = pc
    BY <1>15 DEF Retry, AttemptsExhausted, Descend, ReconcileJoin, JoinsDone, PlanStep, ProducerCall,
                 pageVars, chunkVars, decideVars, driverVars
  <2>2. Owned(queue)' = Owned(queue) /\ Owned(subs)' = Owned(subs)
    BY <2>1
  <2>3. CASE pc = "plan"
    BY <2>1, <2>3 DEF NothingLost, InItem
  <2>4. CASE pc # "plan"
    <3>1. \A l \in Left : l \in Left'
      BY <2>1, <2>2, <2>4 DEF Left
    <3> QED
      BY <1>1, <2>1, <2>4, <3>1, LeavesWork DEF InItem
  <2> QED
    BY <2>3, <2>4
<1>16. CASE TargetsDone \/ EndChunk
  <2>1. /\ UNCHANGED <<queue, page, subs>>
        /\ \/ pc = "accept" /\ todo = {} /\ pc' = "sub"
           \/ pc = "sub" /\ subs = <<>> /\ pc' = "chunk"
    BY <1>16 DEF TargetsDone, EndChunk, pageVars, chunkVars
  <2>2. Owned(queue)' = Owned(queue) /\ Owned(subs)' = Owned(subs)
    BY <2>1
  <2>3. \A l \in Left : l \in Left'
    BY <2>1, <2>2, OwnedNone DEF Left
  <2> QED
    BY <1>1, <2>1, <2>3, LeavesWork DEF InItem
<1>17. CASE UNCHANGED vars
  <2>1. /\ UNCHANGED <<pc, page, queue, subs, cur, todo, chunks, status>>
    BY <1>17 DEF vars, driverVars, pageVars, chunkVars, decideVars, planVars, ledger
  <2>2. /\ Owned(queue)' = Owned(queue) /\ Owned(subs)' = Owned(subs)
        /\ Owned(chunks)' = Owned(chunks) /\ PageLines(page)' = PageLines(page)
    BY <2>1
  <2>3. Left' = Left
    BY <2>1, <2>2 DEF Left
  <2> QED
    BY <2>1, <2>2, <2>3 DEF RunInv, CoverInv, NothingLost, InItem
<1>18. CASE \/ StartPage \/ EndPage \/ EndPages \/ FatalError \/ AdjacencyPass \/ PreserveBreakChars
            \/ LossPolicyPass \/ DeriveDecisions \/ Abort
  BY <1>18 DEF StartPage, EndPage, EndPages, FatalError, AdjacencyPass, PreserveBreakChars,
               LossPolicyPass, DeriveDecisions, Abort, NothingLost, InItem
<1> QED
  BY <1>3, <1>4, <1>5, <1>6, <1>7, <1>8, <1>9, <1>10, <1>11, <1>12, <1>13, <1>14, <1>15, <1>16,
     <1>17, <1>18 DEF Next, RunStep, Terminated

LEMMA RunNext == RunInv /\ [Next]_vars => RunInv'
<1> SUFFICES ASSUME RunInv, [Next]_vars
             PROVE  RunInv'
  OBVIOUS
<1>1. LocalityInv' /\ LedgerInv'
  BY LocalityNext, StepsMove, MovesKeepCoherence DEF RunInv
<1>2. CoverInv'
  BY BehindNext, SkippedNext, PlanUnderWayNext, WorkSentNext, NothingLostNext DEF CoverInv
<1> QED
  BY <1>1, <1>2 DEF RunInv

LEMMA RunInit == Init => RunInv
<1>1. Init => LedgerInv
  BY DEF Init, LedgerInit, LedgerInv, LedgerTypeOK, DecisionsCoherent, Statuses,
         NoText, NoReason
<1> QED
  BY <1>1, LocalityInit, CoverInit DEF RunInv

(* A page is never left with a line nobody decided, however its chunks     *)
(* failed, starved, were descended, skipped, escalated or absorbed, so the *)
(* decision set can always be derived (outcome.py, decisions.py).          *)
THEOREM PagesAreDecided == Spec => []DecidedBehind
<1>1. RunInv => DecidedBehind
  BY DEF RunInv, CoverInv
<1> QED
  BY <1>1, RunInit, RunNext, PTL DEF Spec

-----------------------------------------------------------------------------
(* Types.                                                                  *)

AtPage == pc \in {"plan", "route", "chunk"} \/ InItem

PlaceType == pc \in Places /\ page \in 1 .. (NumPages + 1) /\ (AtPage => page =< NumPages)

ItemType ==
    /\ queue \in Seq(Chunk) /\ subs \in Seq(Chunk) /\ top \in Chunk /\ cur \in Chunk

AttemptType ==
    /\ attempt \in Nat \ {0} /\ coldLatch \in BOOLEAN /\ failure \in Failures
    /\ budget \in Int /\ calls \in Nat /\ fallbackChunks \in Nat

LineSetsType ==
    /\ partners \subseteq Lines /\ escalate \subseteq Lines
    /\ joins \subseteq Lines \X Lines /\ todo \subseteq Lines
    /\ asked \subseteq Lines /\ skipped \subseteq Lines /\ sidecar \subseteq Lines

TypeInv == PlaceType /\ ItemType /\ AttemptType /\ LineSetsType

LEMMA PlaceTypeNext == PlaceType /\ [Next]_vars => PlaceType'
<1> SUFFICES ASSUME PlaceType, [Next]_vars
             PROVE  PlaceType'
  OBVIOUS
<1>1. NumPages \in Nat
  BY DriverAssumption
<1>2. CASE StartPage
  BY <1>1, <1>2 DEF StartPage, PlaceType, AtPage, InItem, Places
<1>3. CASE EndPage
  BY <1>1, <1>3 DEF EndPage, PlaceType, AtPage, InItem, Places
<1>4. CASE EndPages
  BY <1>1, <1>4 DEF EndPages, pageVars, PlaceType, AtPage, InItem, Places
<1>5. CASE KeepPlan \/ RoutePlan \/ RouteChunk \/ EndRouting \/ StartChunk \/ EndChunk
  BY <1>5 DEF KeepPlan, RoutePlan, RouteChunk, EndRouting, StartChunk, EndChunk, pageVars,
              PlaceType, AtPage, InItem, Places
<1>6. CASE Answered \/ Retry \/ AttemptsExhausted \/ DomainError \/ FatalError
  BY <1>6 DEF Answered, Retry, AttemptsExhausted, DomainError, FatalError, ProducerCall, pageVars,
              PlaceType, AtPage, InItem, Places
<1>7. CASE Descend \/ OpenDescent \/ GiveUpChunk \/ StartSub \/ StarveSub
  BY <1>7 DEF Descend, OpenDescent, GiveUpChunk, StartSub, StarveSub, pageVars,
              PlaceType, AtPage, InItem, Places
<1>8. CASE ReconcileJoin \/ JoinsDone \/ AcceptLine \/ TargetsDone
  BY <1>8 DEF ReconcileJoin, JoinsDone, AcceptLine, TargetsDone, pageVars,
              PlaceType, AtPage, InItem, Places
<1>9. CASE AdjacencyPass \/ PreserveBreakChars \/ LossPolicyPass \/ DeriveDecisions \/ Abort
  BY <1>9 DEF AdjacencyPass, PreserveBreakChars, LossPolicyPass, DeriveDecisions, Abort, pageVars,
              PlaceType, AtPage, InItem, Places
<1>10. CASE UNCHANGED <<pc, page>>
  BY <1>10 DEF PlaceType, AtPage, InItem, Places
<1>11. PlanStep \/ Terminated \/ UNCHANGED vars => UNCHANGED <<pc, page>>
  BY DEF PlanStep, Terminated, vars, driverVars, pageVars
<1> QED
  BY <1>2, <1>3, <1>4, <1>5, <1>6, <1>7, <1>8, <1>9, <1>10, <1>11 DEF Next, RunStep

(* After the last page, and only then, the document's passes run. *)
AfterPages == pc \in {"adjacency", "breaks", "loss", "derive", "done"}
PassesAreLast == AfterPages => page > NumPages

LEMMA PassesAreLastNext == PassesAreLast /\ [Next]_vars => PassesAreLast'
<1> SUFFICES ASSUME PassesAreLast, [Next]_vars
             PROVE  PassesAreLast'
  OBVIOUS
<1>1. CASE EndPages
  BY <1>1 DEF EndPages, pageVars, PassesAreLast
<1>2. CASE AdjacencyPass \/ PreserveBreakChars \/ LossPolicyPass \/ DeriveDecisions
  BY <1>2 DEF AdjacencyPass, PreserveBreakChars, LossPolicyPass, DeriveDecisions, pageVars,
              PassesAreLast, AfterPages
<1>3. CASE StartPage \/ EndPage \/ KeepPlan \/ RoutePlan \/ RouteChunk \/ EndRouting
           \/ StartChunk \/ EndChunk \/ Abort
  BY <1>3 DEF StartPage, EndPage, KeepPlan, RoutePlan, RouteChunk, EndRouting, StartChunk,
              EndChunk, Abort, PassesAreLast, AfterPages
<1>4. CASE Answered \/ Retry \/ AttemptsExhausted \/ DomainError \/ FatalError
  BY <1>4 DEF Answered, Retry, AttemptsExhausted, DomainError, FatalError, ProducerCall,
              PassesAreLast, AfterPages
<1>5. CASE Descend \/ OpenDescent \/ GiveUpChunk \/ StartSub \/ StarveSub
           \/ ReconcileJoin \/ JoinsDone \/ AcceptLine \/ TargetsDone
  BY <1>5 DEF Descend, OpenDescent, GiveUpChunk, StartSub, StarveSub, ReconcileJoin, JoinsDone,
              AcceptLine, TargetsDone, PassesAreLast, AfterPages
<1>6. CASE UNCHANGED <<pc, page>>
  BY <1>6 DEF PassesAreLast, AfterPages
<1>7. PlanStep \/ Terminated \/ UNCHANGED vars => UNCHANGED <<pc, page>>
  BY DEF PlanStep, Terminated, vars, driverVars, pageVars
<1> QED
  BY <1>1, <1>2, <1>3, <1>4, <1>5, <1>6, <1>7 DEF Next, RunStep

(* From the moment the pages are behind, no line is undecided, whatever    *)
(* the adjacency pass, the restored marks and the loss policy withdraw;    *)
(* so the decision set is always derived (decisions.py:90-107 refuses a    *)
(* PENDING line, and the refusal is never met; outcome.py:13: whatever a   *)
(* chunk left undecided goes to its source text).                          *)
AllDecidedAfterPages == AfterPages => \A l \in Lines : status[l] # "pending"
RefusalNeverMet == DeriveDecisions => pc' = "done"

THEOREM DecisionsAreDerived ==
    Spec => []AllDecidedAfterPages /\ [][RefusalNeverMet]_vars
<1>1. Init => PassesAreLast /\ PlaceType
  BY DriverAssumption DEF Init, PassesAreLast, AfterPages, PlaceType, AtPage, InItem, Places
<1>2. RunInv /\ PlaceType /\ PassesAreLast => AllDecidedAfterPages
  <2>1. SUFFICES ASSUME RunInv, PlaceType, PassesAreLast, AfterPages, NEW l \in Lines
                 PROVE  status[l] # "pending"
    BY DEF AllDecidedAfterPages
  <2>2. page \in Nat /\ NumPages \in Nat
    BY <2>1, DriverAssumption DEF PlaceType
  <2>3. page > NumPages /\ PageOf[l] =< NumPages /\ PageOf[l] \in Nat
    BY <2>1, DriverAssumption, LayoutAssumption DEF PassesAreLast
  <2> QED
    BY <2>1, <2>2, <2>3 DEF RunInv, CoverInv, DecidedBehind
<1>3. AllDecidedAfterPages => RefusalNeverMet
  BY DEF AllDecidedAfterPages, AfterPages, RefusalNeverMet, DeriveDecisions
<1> QED
  BY <1>1, <1>2, <1>3, RunInit, RunNext, PlaceTypeNext, PassesAreLastNext, PTL DEF Spec

LEMMA ItemTypeNext == RunInv /\ ItemType /\ [Next]_vars => ItemType'
<1> SUFFICES ASSUME RunInv, ItemType, [Next]_vars
             PROVE  ItemType'
  OBVIOUS
<1>1. WorkSent /\ PlanUnderWay /\ PlanTypeOK /\ WorkSent' /\ Sent \subseteq Chunk
  BY RunNext DEF RunInv, CoverInv, PlanUnderWay, Sent
<1>2. queue' \in Seq(Chunk)
  <2>1. queue' \in Seq(Sent)
    BY <1>1 DEF WorkSent
  <2> QED
    BY <1>1, <2>1
<1>3. CASE StartChunk
  <2>1. queue # <<>> /\ top' = Head(queue) /\ cur' = Head(queue) /\ subs' = <<>>
    BY <1>3 DEF StartChunk
  <2> QED
    BY <1>2, <2>1 DEF ItemType
<1>4. CASE DomainError
  BY <1>2, <1>4 DEF DomainError, ItemType
<1>5. CASE OpenDescent
  BY <1>1, <1>2, <1>5 DEF OpenDescent, ItemType, PlanTypeOK
<1>6. CASE StartSub \/ StarveSub
  <2>1. subs # <<>> /\ subs' = Tail(subs) /\ cur' \in {cur, Head(subs)} /\ top' = top
    BY <1>6 DEF StartSub, StarveSub
  <2> QED
    BY <1>2, <2>1 DEF ItemType
<1>7. CASE UNCHANGED <<top, cur, subs>>
  BY <1>2, <1>7 DEF ItemType
<1>8. StartChunk \/ DomainError \/ OpenDescent \/ StartSub \/ StarveSub \/ UNCHANGED <<top, cur, subs>>
  BY DEF Next, RunStep, StartPage, PlanStep, KeepPlan, RoutePlan, RouteChunk, EndRouting, EndPage,
         EndPages, Answered, Retry, AttemptsExhausted, FatalError, Descend, GiveUpChunk, EndChunk,
         ReconcileJoin, JoinsDone, AcceptLine, TargetsDone, AdjacencyPass, PreserveBreakChars,
         LossPolicyPass, DeriveDecisions, Abort, Terminated, vars, driverVars, chunkVars
<1> QED
  BY <1>3, <1>4, <1>5, <1>6, <1>7, <1>8

LEMMA AttemptTypeNext == AttemptType /\ [Next]_vars => AttemptType'
<1> SUFFICES ASSUME AttemptType, [Next]_vars
             PROVE  AttemptType'
  OBVIOUS
<1>1. PerChunkBudget \in Nat
  BY DriverAssumption
<1>2. Recoverable \subseteq Failures
  BY DEF Recoverable, Failures
<1>3. CASE StartChunk \/ StartSub
  <2>1. /\ attempt' = 1 /\ failure' = "none"
        /\ budget' \in {budget, PerChunkBudget} /\ calls' \in {calls, 0}
        /\ fallbackChunks' = fallbackChunks
    BY <1>3 DEF StartChunk, StartSub, runVars
  <2>2. coldLatch' \in BOOLEAN
    BY <1>3 DEF StartChunk, StartSub
  <2> QED
    BY <1>1, <2>1, <2>2 DEF AttemptType, Failures
<1>4. CASE Answered
  BY <1>4 DEF Answered, ProducerCall, AttemptType
<1>5. CASE Retry \/ AttemptsExhausted
  <2>1. /\ attempt' \in {attempt, attempt + 1} /\ failure' \in Recoverable
        /\ budget' \in {budget, budget - attempt} /\ calls' = calls + 1
        /\ fallbackChunks' = fallbackChunks
    BY <1>5 DEF Retry, AttemptsExhausted, ProducerCall
  <2>2. coldLatch' \in BOOLEAN
    BY <1>5 DEF Retry, AttemptsExhausted, AttemptType
  <2>3. failure' \in Failures
    BY <1>2, <2>1
  <2> QED
    BY <2>1, <2>2, <2>3 DEF AttemptType
<1>6. CASE DomainError
  <2>1. fallbackChunks' \in {fallbackChunks, fallbackChunks + 1}
    BY <1>6 DEF DomainError, AbsorbError
  <2> QED
    BY <1>6, <2>1 DEF DomainError, ProducerCall, AttemptType, Failures
<1>7. CASE FatalError
  BY <1>7 DEF FatalError, ProducerCall, AttemptType, Failures
<1>8. CASE GiveUpChunk \/ StarveSub
  BY <1>8 DEF GiveUpChunk, StarveSub, chunkVars, AttemptType
<1>9. CASE UNCHANGED <<attempt, coldLatch, failure, budget, calls, fallbackChunks>>
  BY <1>9 DEF AttemptType
<1>10. \/ StartChunk \/ StartSub \/ Answered \/ Retry \/ AttemptsExhausted \/ DomainError
       \/ FatalError \/ GiveUpChunk \/ StarveSub
       \/ UNCHANGED <<attempt, coldLatch, failure, budget, calls, fallbackChunks>>
  BY DEF Next, RunStep, StartPage, PlanStep, KeepPlan, RoutePlan, RouteChunk, EndRouting, EndPage,
         EndPages, Descend, OpenDescent, EndChunk, ReconcileJoin, JoinsDone, AcceptLine,
         TargetsDone, AdjacencyPass, PreserveBreakChars, LossPolicyPass, DeriveDecisions, Abort,
         Terminated, vars, driverVars, chunkVars, runVars
<1> QED
  BY <1>3, <1>4, <1>5, <1>6, <1>7, <1>8, <1>9, <1>10

LEMMA LineSetsTypeNext == RunInv /\ ItemType /\ LineSetsType /\ [Next]_vars => LineSetsType'
<1> SUFFICES ASSUME RunInv, ItemType, LineSetsType, [Next]_vars
             PROVE  LineSetsType'
  OBVIOUS
<1>1. cur.targets \subseteq Lines /\ cur.lines \subseteq Lines
  BY DEF ItemType, Chunk
<1>2. skipped' \subseteq Lines
  BY SkippedNext
<1>3. partners' \subseteq Lines
  BY DEF LineSetsType, Next, RunStep, StartPage, PlanStep, KeepPlan, RoutePlan, RouteChunk,
         EndRouting, EndPage, EndPages, StartChunk, Answered, Retry, AttemptsExhausted, DomainError,
         FatalError, Descend, OpenDescent, GiveUpChunk, StartSub, StarveSub, EndChunk,
         ReconcileJoin, JoinsDone, AcceptLine, TargetsDone, AdjacencyPass, PreserveBreakChars,
         LossPolicyPass, DeriveDecisions, Abort, Terminated, vars, driverVars, pageVars,
         CrossPagePartners
<1>4. escalate' \subseteq Lines
  <2>1. CASE RoutePlan
    <3>1. PICK skip, lone, seeds : /\ lone \subseteq PageLines(page) /\ seeds \subseteq PageLines(page)
                                   /\ escalate' = Escalated(lone, seeds)
      BY <2>1 DEF RoutePlan
    <3> QED
      BY <3>1, UnitsInside DEF Escalated, PageLines
  <2>2. CASE EndPage
    BY <2>2 DEF EndPage
  <2>3. RoutePlan \/ EndPage \/ escalate' = escalate
    BY DEF Next, RunStep, StartPage, PlanStep, KeepPlan, RouteChunk,
           EndRouting, EndPages, StartChunk, Answered, Retry, AttemptsExhausted, DomainError,
           FatalError, Descend, OpenDescent, GiveUpChunk, StartSub, StarveSub, EndChunk,
           ReconcileJoin, JoinsDone, AcceptLine, TargetsDone, AdjacencyPass, PreserveBreakChars,
           LossPolicyPass, DeriveDecisions, Abort, Terminated, vars, driverVars, pageVars
  <2> QED
    BY <2>1, <2>2, <2>3 DEF LineSetsType
<1>5. joins' \subseteq Lines \X Lines /\ todo' \subseteq Lines
  <2>1. CASE Answered
    <3>1. joins' = ClaimedJoins(cur.targets) /\ todo' = cur.targets
      BY <2>1 DEF Answered
    <3>2. ClaimedJoins(cur.targets) \subseteq Lines \X Lines
      BY <1>1 DEF ClaimedJoins, PageLines, LineSetsType
    <3> QED
      BY <1>1, <3>1, <3>2
  <2>2. CASE ReconcileJoin \/ AcceptLine
    BY <2>2 DEF ReconcileJoin, AcceptLine, LineSetsType
  <2>3. Answered \/ ReconcileJoin \/ AcceptLine \/ UNCHANGED <<joins, todo>>
    BY DEF Next, RunStep, StartPage, PlanStep, KeepPlan, RoutePlan, RouteChunk,
           EndRouting, EndPage, EndPages, StartChunk, Retry, AttemptsExhausted, DomainError,
           FatalError, Descend, OpenDescent, GiveUpChunk, StartSub, StarveSub, EndChunk,
           JoinsDone, TargetsDone, AdjacencyPass, PreserveBreakChars,
           LossPolicyPass, DeriveDecisions, Abort, Terminated, vars, driverVars, decideVars
  <2> QED
    BY <2>1, <2>2, <2>3 DEF LineSetsType
<1>6. asked' \subseteq Lines
  BY <1>1 DEF LineSetsType, Next, RunStep, StartPage, PlanStep, KeepPlan, RoutePlan, RouteChunk,
         EndRouting, EndPage, EndPages, StartChunk, Answered, Retry, AttemptsExhausted, DomainError,
         FatalError, Descend, OpenDescent, GiveUpChunk, StartSub, StarveSub, EndChunk,
         ReconcileJoin, JoinsDone, AcceptLine, TargetsDone, AdjacencyPass, PreserveBreakChars,
         LossPolicyPass, DeriveDecisions, Abort, Terminated, vars, driverVars, runVars, ProducerCall
<1>7. sidecar' \subseteq Lines
  <2>1. CASE LossPolicyPass
    <3>1. PICK flagged \in SUBSET {l \in Lines : Changed(l)} :
              sidecar' \subseteq units_containing(links, flagged, Lines)
      BY <2>1 DEF LossPolicyPass
    <3> QED
      BY <3>1, UnitsInside
  <2>2. LossPolicyPass \/ sidecar' = sidecar
    BY DEF Next, RunStep, StartPage, PlanStep, KeepPlan, RoutePlan, RouteChunk,
           EndRouting, EndPage, EndPages, StartChunk, Answered, Retry, AttemptsExhausted, DomainError,
           FatalError, Descend, OpenDescent, GiveUpChunk, StartSub, StarveSub, EndChunk,
           ReconcileJoin, JoinsDone, AcceptLine, TargetsDone, AdjacencyPass, PreserveBreakChars,
           DeriveDecisions, Abort, Terminated, vars, driverVars, runVars
  <2> QED
    BY <2>1, <2>2 DEF LineSetsType
<1> QED
  BY <1>2, <1>3, <1>4, <1>5, <1>6, <1>7 DEF LineSetsType

(* Every variable of a run keeps its type. *)
THEOREM RunTypes == Spec => []TypeOK
<1>1. Init => TypeInv
  <2> SUFFICES ASSUME Init
               PROVE  TypeInv
    OBVIOUS
  <2>1. PlaceType
    BY DriverAssumption DEF Init, PlaceType, Places, AtPage, InItem
  <2>2. NoChunk \in Chunk
    BY DEF NoChunk, WholeChunk, Chunk, Grains
  <2>3. ItemType
    BY <2>2 DEF Init, ItemType
  <2>4. AttemptType
    <3>1. PerChunkBudget \in Nat
      BY DriverAssumption
    <3>2. /\ attempt = 1 /\ failure = "none"
          /\ budget = PerChunkBudget /\ calls = 0 /\ fallbackChunks = 0
      BY DEF Init
    <3>3. coldLatch \in BOOLEAN
      BY DEF Init
    <3> QED
      BY <3>1, <3>2, <3>3 DEF AttemptType, Failures
  <2>5. LineSetsType
    BY DEF Init, LineSetsType
  <2> QED
    BY <2>1, <2>3, <2>4, <2>5 DEF TypeInv
<1>2. RunInv /\ TypeInv /\ [Next]_vars => TypeInv'
  BY PlaceTypeNext, ItemTypeNext, AttemptTypeNext, LineSetsTypeNext DEF TypeInv
<1>3. RunInv /\ TypeInv => TypeOK
  BY DEF RunInv, LedgerInv, CoverInv, PlanUnderWay, TypeInv, PlaceType, ItemType, AttemptType,
         LineSetsType, TypeOK, DriverTypeOK
<1> QED
  BY <1>1, <1>2, <1>3, RunInit, RunNext, PTL DEF Spec

-----------------------------------------------------------------------------
(* Who a work item decides for (outcome.py, reconcile.py).                 *)

LEMMA PartnersPointed ==
    ASSUME NEW lk, NEW l
    PROVE  /\ forward_partner_ref(lk, l) \in Lines =>
                 /\ forward_partner_ref(lk, l) \in {lk.pair[l], lk.forward[l]}
                 /\ lk.role[l] # "NONE"
           /\ backward_partner_ref(lk, l) \in Lines =>
                 /\ backward_partner_ref(lk, l) \in {lk.pair[l], lk.forward[l]}
                 /\ lk.role[l] # "NONE"
  BY DEF forward_partner_ref, backward_partner_ref, Lines, NoLine

LEMMA UnitHoldsNeighbour ==
    ASSUME NEW lk, NEW pool, NEW s \in pool, NEW m \in Linked(lk, s, pool)
    PROVE  m \in Unit(lk, s, pool)
<1> DEFINE next == [k \in pool |-> Linked(lk, k, pool)]
<1>1. \A y \in pool : next[y] \subseteq pool
  BY DEF Linked
<1>2. Unit(lk, s, pool) = Reachable(s, pool, next) /\ m \in next[s]
  BY DEF Unit
<1> HIDE DEF next
<1> QED
  BY <1>1, <1>2, ReachableClosed

(* The lines a work item may decide. *)
OfItem == units_containing(links, top.targets, Pool)

LEMMA ItemHoldsUnits ==
    ASSUME NEW seeds \in SUBSET top.targets
    PROVE  units_containing(links, seeds, Pool) \subseteq OfItem /\ seeds \subseteq OfItem
  BY DEF OfItem, units_containing

LEMMA JoinsOfItem ==
    ASSUME RunInv, NEW c, c.targets \subseteq top.targets, c.targets \subseteq PageLines(page)
    PROVE  \A j \in ClaimedJoins(c.targets) : j[1] \in OfItem /\ j[2] \in OfItem
<1>1. partners \subseteq Lines /\ c.targets \subseteq Pool /\ Pool \subseteq Lines
  BY DEF RunInv, LocalityInv, ItemLocal, Pool, PageLines
<1>2. ASSUME NEW s \in c.targets, NEW m \in Pool, m \in {links.pair[s], links.forward[s]}
      PROVE  s \in OfItem /\ m \in OfItem
  <2>1. m \in Linked(links, s, Pool)
    BY <1>2 DEF Linked
  <2>2. m \in Unit(links, s, Pool)
    BY <1>1, <2>1, UnitHoldsNeighbour
  <2> QED
    BY <1>1, <2>2 DEF OfItem, units_containing
<1>3. ASSUME NEW j \in ClaimedJoins(c.targets)
      PROVE  j[1] \in OfItem /\ j[2] \in OfItem
  <2>1. CASE \E t \in c.targets : /\ forward_partner_ref(links, t) \in PageLines(page)
                                  /\ j = <<t, forward_partner_ref(links, t)>>
    <3>1. PICK t \in c.targets : /\ forward_partner_ref(links, t) \in PageLines(page)
                                 /\ j = <<t, forward_partner_ref(links, t)>>
      BY <2>1
    <3>2. forward_partner_ref(links, t) \in Pool
      BY <3>1 DEF Pool
    <3> QED
      BY <1>1, <1>2, <3>1, <3>2, PartnersPointed
  <2>2. CASE \E h \in c.targets : /\ backward_partner_ref(links, h) \in partners
                                  /\ j = <<backward_partner_ref(links, h), h>>
    <3>1. PICK h \in c.targets : /\ backward_partner_ref(links, h) \in partners
                                 /\ j = <<backward_partner_ref(links, h), h>>
      BY <2>2
    <3>2. backward_partner_ref(links, h) \in Pool
      BY <3>1 DEF Pool
    <3> QED
      BY <1>1, <1>2, <3>1, <3>2, PartnersPointed
  <2> QED
    BY <2>1, <2>2 DEF ClaimedJoins
<1> QED
  BY <1>3

JoinsInv == pc = "reconcile" => \A j \in joins : j[1] \in OfItem /\ j[2] \in OfItem

LEMMA JoinsNext == RunInv /\ JoinsInv /\ [Next]_vars => JoinsInv'
<1> SUFFICES ASSUME RunInv, JoinsInv, [Next]_vars
             PROVE  JoinsInv'
  OBVIOUS
<1>1. CASE Answered
  <2>1. /\ pc = "attempt" /\ joins' = ClaimedJoins(cur.targets)
        /\ UNCHANGED <<links, top, page, partners>>
    BY <1>1 DEF Answered, ProducerCall, planVars, pageVars
  <2>2. cur.targets \subseteq top.targets /\ cur.targets \subseteq PageLines(page)
    BY <2>1 DEF RunInv, CoverInv, WorkSent, LocalityInv, ItemLocal, InItem, OnPage
  <2>3. OfItem' = OfItem
    BY <2>1 DEF OfItem, Pool, PageLines, units_containing, Unit, Linked
  <2> QED
    BY <2>1, <2>2, <2>3, JoinsOfItem DEF JoinsInv
<1>2. CASE pc = "reconcile" /\ joins' \subseteq joins /\ UNCHANGED <<links, top, page, partners>>
  <2>1. OfItem' = OfItem
    BY <1>2 DEF OfItem, Pool, PageLines, units_containing, Unit, Linked
  <2> QED
    BY <1>2, <2>1 DEF JoinsInv
<1>3. \/ Answered \/ pc' # "reconcile"
      \/ pc = "reconcile" /\ joins' \subseteq joins /\ UNCHANGED <<links, top, page, partners>>
  BY DEF Next, RunStep, StartPage, PlanStep, KeepPlan, RoutePlan, RouteChunk, ProducerCall,
         EndRouting, EndPage, EndPages, StartChunk, Retry, AttemptsExhausted, DomainError,
         FatalError, Descend, OpenDescent, GiveUpChunk, StartSub, StarveSub, EndChunk,
         ReconcileJoin, JoinsDone, AcceptLine, TargetsDone, AdjacencyPass, PreserveBreakChars,
         LossPolicyPass, DeriveDecisions, Abort, Terminated, vars, driverVars, planVars,
         pageVars, chunkVars, decideVars
<1> QED
  BY <1>1, <1>2, <1>3 DEF JoinsInv

(* A line outside the given ones keeps its decision. *)
LEMMA OnlyTheGiven ==
    ASSUME NEW given, fall_back(given) \/ accept(given)
    PROVE  \A l \in Lines : l \notin DOMAIN given => UNCHANGED <<status[l], text[l]>>
  BY DEF fall_back, accept

LEMMA FallbackOfItem ==
    ASSUME NEW c, c.targets \subseteq top.targets, ChunkFallback(c)
    PROVE  \A l \in Lines : l \notin OfItem => UNCHANGED <<status[l], text[l]>>
<1> DEFINE pulled == {m \in units_containing(links, c.targets, Pool) :
                         \A t \in c.targets : IdOf[m] # IdOf[t]}
           why == [m \in c.targets \cup pulled |->
                      IF m \in c.targets THEN "exhausted" ELSE "unit"]
<1>1. fall_back(why)
  BY DEF ChunkFallback
<1>2. DOMAIN why \subseteq OfItem
  BY ItemHoldsUnits
<1> HIDE DEF why
<1> QED
  BY <1>1, <1>2, OnlyTheGiven

LEMMA AbsorbedOfItem ==
    ASSUME AbsorbError
    PROVE  \A l \in Lines : l \notin OfItem => UNCHANGED <<status[l], text[l]>>
<1> DEFINE undecided == {l \in top.targets : status[l] = "pending"}
           why == [m \in units_containing(links, undecided, Pool) |-> "absorbed"]
<1>1. UNCHANGED ledger \/ fall_back(why)
  BY DEF AbsorbError
<1>2. DOMAIN why \subseteq OfItem
  BY ItemHoldsUnits
<1> HIDE DEF why
<1> QED
  BY <1>1, <1>2, OnlyTheGiven DEF ledger

LEMMA JoinOfItem ==
    ASSUME JoinsInv, ReconcileJoin
    PROVE  \A l \in Lines : l \notin OfItem => UNCHANGED <<status[l], text[l]>>
<1>1. PICK j \in joins :
          \/ fall_back([m \in {j[1], j[2]} |-> "pair"])
          \/ \E p1 \in TailTexts(j[1]), p2 \in HeadTexts(j[2]) :
                accept([m \in {j[1], j[2]} |-> IF m = j[1] THEN p1 ELSE p2])
  BY DEF ReconcileJoin
<1>2. j[1] \in OfItem /\ j[2] \in OfItem
  BY DEF JoinsInv, ReconcileJoin
<1>3. CASE fall_back([m \in {j[1], j[2]} |-> "pair"])
  BY <1>2, <1>3, OnlyTheGiven
<1>4. ASSUME NEW p1, NEW p2, accept([m \in {j[1], j[2]} |-> IF m = j[1] THEN p1 ELSE p2])
      PROVE  \A l \in Lines : l \notin OfItem => UNCHANGED <<status[l], text[l]>>
  BY <1>2, <1>4, OnlyTheGiven
<1> QED
  BY <1>1, <1>3, <1>4

LEMMA TargetOfItem ==
    ASSUME WorkSent, AcceptLine
    PROVE  \A l \in Lines : l \notin OfItem => UNCHANGED <<status[l], text[l]>>
<1>1. PICK l \in todo : DecideTarget(l)
  BY DEF AcceptLine
<1>2. l \in OfItem
  BY ItemHoldsUnits DEF WorkSent, AcceptLine
<1>3. \/ UNCHANGED ledger
      \/ \E r : fall_back([m \in {l} |-> r])
      \/ \E p : accept([m \in {l} |-> p])
  BY <1>1 DEF DecideTarget
<1>4. ASSUME NEW r, fall_back([m \in {l} |-> r])
      PROVE  \A k \in Lines : k \notin OfItem => UNCHANGED <<status[k], text[k]>>
  BY <1>2, <1>4, OnlyTheGiven
<1>5. ASSUME NEW p, accept([m \in {l} |-> p])
      PROVE  \A k \in Lines : k \notin OfItem => UNCHANGED <<status[k], text[k]>>
  BY <1>2, <1>5, OnlyTheGiven
<1> QED
  BY <1>3, <1>4, <1>5 DEF ledger

(* A work item decides its targets and the members of their units, and no  *)
(* other line it was sent (outcome.py).                                    *)
THEOREM ItemsDecideTheirOwn == Spec => OwnershipRespected
<1> DEFINE Kept == \A l \in Lines :
                      \/ pc \notin {"attempt", "failure", "sub", "reconcile", "accept"}
                      \/ UNCHANGED <<status[l], text[l]>>
                      \/ l \in units_containing(links, top.targets, Pool)
<1>1. RunInv /\ JoinsInv /\ [Next]_vars => [Kept]_vars
  <2> SUFFICES ASSUME RunInv, JoinsInv, Next,
                      pc \in {"attempt", "failure", "sub", "reconcile", "accept"},
                      NEW l \in Lines, l \notin OfItem
               PROVE  UNCHANGED <<status[l], text[l]>>
    BY DEF OfItem
  <2>1. WorkSent /\ cur.targets \subseteq top.targets /\ Owned(subs) \subseteq top.targets
    BY DEF RunInv, CoverInv, WorkSent, InItem
  <2>2. CASE GiveUpChunk
    BY <2>1, <2>2, FallbackOfItem DEF GiveUpChunk
  <2>3. CASE StarveSub
    <3>1. subs # <<>> /\ subs \in Seq(Sent) /\ Sent \in SUBSET Chunk
      BY <2>3 DEF StarveSub, RunInv, CoverInv, WorkSent, InItem, Sent
    <3>2. Head(subs).targets \subseteq top.targets
      BY <2>1, <3>1, OwnedHead
    <3> QED
      BY <2>3, <3>2, FallbackOfItem DEF StarveSub
  <2>4. CASE DomainError
    BY <2>4, AbsorbedOfItem DEF DomainError
  <2>5. CASE ReconcileJoin
    BY <2>5, JoinOfItem
  <2>6. CASE AcceptLine
    BY <2>1, <2>6, TargetOfItem
  <2>7. CASE UNCHANGED ledger
    BY <2>7 DEF ledger
  <2>8. GiveUpChunk \/ StarveSub \/ DomainError \/ ReconcileJoin \/ AcceptLine \/ UNCHANGED ledger
    BY DEF Next, RunStep, StartPage, PlanStep, KeepPlan, RoutePlan, RouteChunk,
           EndRouting, EndPage, EndPages, StartChunk, Answered, Retry, AttemptsExhausted,
           FatalError, Descend, OpenDescent, StartSub, EndChunk, JoinsDone, TargetsDone,
           AdjacencyPass, PreserveBreakChars, LossPolicyPass, DeriveDecisions, Abort, Terminated, vars
  <2> QED
    BY <2>2, <2>3, <2>4, <2>5, <2>6, <2>7, <2>8
<1>2. Init => JoinsInv
  BY DEF Init, JoinsInv
<1> QED
  BY <1>1, <1>2, RunInit, RunNext, JoinsNext, PTL DEF Spec, OwnershipRespected

-----------------------------------------------------------------------------
(* What the router confirms (routing.py): a line without a role that no    *)
(* line points at.  No join reaches such a line, and none ever becomes a   *)
(* member of a unit again: severing removes pointers and roles.            *)
Alone(l) ==
    /\ links.role[l] = "NONE"
    /\ \A k \in Lines : l \notin {links.pair[k], links.forward[k]}

SkippedInv ==
    /\ \A l \in skipped : text[l] = Source /\ Alone(l)
    /\ pc = "reconcile" => \A j \in joins : j[1] \notin skipped /\ j[2] \notin skipped

LEMMA SplitGivesNoRole ==
    ASSUME NEW lk \in LinkSpace, NEW tail \in Lines, NEW head \in Lines, NEW l \in Lines,
           lk.role[l] = "NONE"
    PROVE  split_forward_link(lk, tail, head).role[l] = "NONE"
  BY DEF LinkSpace, split_forward_link, Roles

LEMMA AlonePlanStep ==
    ASSUME PlanLocal, PlanStep, NEW l \in Lines, Alone(l)
    PROVE  Alone(l)'
<1>1. \A k \in Lines : l \notin {links'.pair[k], links'.forward[k]}
  <2>1. \A k \in Lines : {links'.pair[k], links'.forward[k]}
                            \subseteq {links.pair[k], links.forward[k], NoLine}
    BY PlanStepLocal
  <2> QED
    BY <2>1 DEF Alone, Lines, NoLine
<1>2. \/ UNCHANGED links
      \/ \E tail, head \in Lines : links' = split_forward_link(links, tail, head)
  <2>1. scope \subseteq Lines
    BY DEF PlanLocal, PlanStep, PageLines
  <2> QED
    BY <2>1 DEF PlanStep, PlanNext, TryPage, TryBlock, TryWindow, CloseWindows, PlanLine, CloseLines,
                ForwardById
<1>3. links'.role[l] = "NONE"
  BY <1>2, SplitGivesNoRole DEF PlanLocal, Alone
<1> QED
  BY <1>1, <1>3 DEF Alone

(* A line the router confirms is alone. *)
LEMMA SkippableIsAlone ==
    ASSUME RunInv, pc = "plan", NEW l \in Skippable(PageLines(page))
    PROVE  l \in Lines /\ Alone(l)
<1>1. l \in Lines /\ PageOf[l] = page /\ links.role[l] = "NONE"
  BY DEF Skippable, PageLines
<1>2. Ahead(l)
  BY <1>1 DEF Ahead
<1> QED
  BY <1>1, <1>2 DEF RunInv, LocalityInv, RolesAhead, Alone

(* The ends of a claimed join are linked: none of them is alone. *)
LEMMA ClaimedAreLinked ==
    ASSUME NEW targets \in SUBSET Lines, partners \subseteq Lines,
           NEW j \in ClaimedJoins(targets)
    PROVE  ~Alone(j[1]) /\ ~Alone(j[2])
<1>1. CASE \E t \in targets : /\ forward_partner_ref(links, t) \in PageLines(page)
                              /\ j = <<t, forward_partner_ref(links, t)>>
  <2>1. PICK t \in targets : /\ forward_partner_ref(links, t) \in PageLines(page)
                             /\ j = <<t, forward_partner_ref(links, t)>>
    BY <1>1
  <2> QED
    BY <2>1, PartnersPointed DEF Alone, PageLines
<1>2. CASE \E h \in targets : /\ backward_partner_ref(links, h) \in partners
                              /\ j = <<backward_partner_ref(links, h), h>>
  <2>1. PICK h \in targets : /\ backward_partner_ref(links, h) \in partners
                             /\ j = <<backward_partner_ref(links, h), h>>
    BY <1>2
  <2> QED
    BY <2>1, PartnersPointed DEF Alone
<1> QED
  BY <1>1, <1>2 DEF ClaimedJoins

(* A line at its source text leaves it only when accept is given another.  *)
LEMMA StaysAtSource ==
    ASSUME NEW l \in Lines, text[l] = Source
    PROVE  /\ \A why : fall_back(why) => text'[l] = Source
           /\ \A final : accept(final) /\ l \notin DOMAIN final => text'[l] = Source
           /\ UNCHANGED ledger => text'[l] = Source
  BY DEF fall_back, accept, ledger

LEMMA SkippedStaysAtSource ==
    ASSUME RunInv, SkippedInv, [Next]_vars, NEW l \in skipped
    PROVE  text'[l] = Source
<1>1. l \in Lines /\ text[l] = Source /\ Alone(l)
  BY DEF RunInv, CoverInv, SkippedInv
<1>2. CASE GiveUpChunk \/ StarveSub
  <2>1. PICK c : ChunkFallback(c)
    BY <1>2 DEF GiveUpChunk, StarveSub
  <2>2. \E why : fall_back(why)
    BY <2>1 DEF ChunkFallback
  <2> QED
    BY <1>1, <2>2, StaysAtSource
<1>3. CASE DomainError
  <2>1. UNCHANGED ledger \/ \E why : fall_back(why)
    BY <1>3 DEF DomainError, AbsorbError, ledger
  <2> QED
    BY <1>1, <2>1, StaysAtSource
<1>4. CASE AdjacencyPass \/ LossPolicyPass
  <2>1. \E why : fall_back(why)
    BY <1>4 DEF AdjacencyPass, LossPolicyPass, UnitReverts
  <2> QED
    BY <1>1, <2>1, StaysAtSource
<1>5. CASE ReconcileJoin
  <2>1. PICK j \in joins :
            \/ fall_back([m \in {j[1], j[2]} |-> "pair"])
            \/ \E p1 \in TailTexts(j[1]), p2 \in HeadTexts(j[2]) :
                  accept([m \in {j[1], j[2]} |-> IF m = j[1] THEN p1 ELSE p2])
    BY <1>5 DEF ReconcileJoin
  <2>2. l \notin {j[1], j[2]}
    BY <1>5 DEF SkippedInv, ReconcileJoin
  <2>3. ASSUME NEW p1, NEW p2, accept([m \in {j[1], j[2]} |-> IF m = j[1] THEN p1 ELSE p2])
        PROVE  text'[l] = Source
    BY <1>1, <2>2, <2>3, StaysAtSource
  <2> QED
    BY <1>1, <2>1, <2>3, StaysAtSource
<1>6. CASE AcceptLine
  <2>1. PICK k \in todo : DecideTarget(k)
    BY <1>6 DEF AcceptLine
  <2>2. \/ UNCHANGED ledger
        \/ \E r : fall_back([m \in {k} |-> r])
        \/ text[k] = NoText /\ \E p : accept([m \in {k} |-> p])
    BY <2>1 DEF DecideTarget
  <2>3. ASSUME NEW p, text[k] = NoText, accept([m \in {k} |-> p])
        PROVE  text'[l] = Source
    <3>1. l # k
      BY <1>1, <2>3 DEF Source, NoText
    <3> QED
      BY <1>1, <2>3, <3>1, StaysAtSource
  <2> QED
    BY <1>1, <2>2, <2>3, StaysAtSource
<1>7. CASE RoutePlan
  <2>1. PICK skip : accept([k \in skip |-> Source])
    BY <1>7 DEF RoutePlan
  <2> QED
    BY <1>1, <2>1 DEF accept
<1>8. CASE PreserveBreakChars
  BY <1>1, <1>8 DEF PreserveBreakChars, renormalise, Source
<1>9. CASE UNCHANGED ledger
  BY <1>1, <1>9, StaysAtSource
<1> QED
  BY <1>2, <1>3, <1>4, <1>5, <1>6, <1>7, <1>8, <1>9
  DEF Next, RunStep, StartPage, PlanStep, KeepPlan, RouteChunk, EndRouting, EndPage, EndPages,
      StartChunk, Answered, Retry, AttemptsExhausted, FatalError, Descend, OpenDescent, StartSub,
      EndChunk, JoinsDone, TargetsDone, DeriveDecisions, Abort, Terminated, vars

LEMMA SkippedInvNext == RunInv /\ SkippedInv /\ [Next]_vars => SkippedInv'
<1> SUFFICES ASSUME RunInv, SkippedInv, [Next]_vars
             PROVE  SkippedInv'
  OBVIOUS
<1>1. skipped \subseteq Lines /\ partners \subseteq Lines
  BY DEF RunInv, CoverInv, LocalityInv, ItemLocal
<1>2. \A l \in skipped : text'[l] = Source
  BY SkippedStaysAtSource
<1>3. CASE RoutePlan
  <2>1. PICK skip \in SUBSET Skippable(PageLines(page)) :
            accept([l \in skip |-> Source]) /\ skipped' = skipped \cup skip
    BY <1>3 DEF RoutePlan
  <2>2. pc = "plan" /\ pc' = "route" /\ UNCHANGED links
    BY <1>3 DEF RoutePlan, planVars
  <2>3. \A l \in skip : l \in Lines /\ Alone(l)
    BY <2>1, <2>2, SkippableIsAlone
  <2>4. \A l \in skip : text'[l] = Source
    BY <2>1, <2>3 DEF accept
  <2>5. \A l \in Lines : Alone(l)' <=> Alone(l)
    BY <2>2 DEF Alone
  <2> QED
    BY <1>1, <1>2, <2>1, <2>2, <2>3, <2>4, <2>5 DEF SkippedInv
<1>4. CASE PlanStep
  <2>1. pc' \in {"plan", "replan"} /\ skipped' = skipped
    BY <1>4 DEF PlanStep, driverVars, runVars
  <2>2. \A l \in skipped : Alone(l)'
    BY <1>1, <1>4, AlonePlanStep DEF SkippedInv, RunInv, LocalityInv
  <2> QED
    BY <1>2, <2>1, <2>2 DEF SkippedInv
<1>5. CASE Answered
  <2>1. /\ pc = "attempt" /\ joins' = ClaimedJoins(cur.targets)
        /\ UNCHANGED <<links, skipped>>
    BY <1>5 DEF Answered, ProducerCall, planVars
  <2>2. cur.targets \in SUBSET Lines
    BY <2>1 DEF RunInv, LocalityInv, ItemLocal, InItem, OnPage, PageLines
  <2>3. \A j \in ClaimedJoins(cur.targets) : ~Alone(j[1]) /\ ~Alone(j[2])
    BY <1>1, <2>2, ClaimedAreLinked
  <2>4. \A l : Alone(l)' <=> Alone(l)
    BY <2>1 DEF Alone
  <2> QED
    BY <1>2, <2>1, <2>3, <2>4 DEF SkippedInv
<1>6. CASE /\ UNCHANGED <<links, skipped>>
           /\ pc' # "reconcile" \/ (pc = "reconcile" /\ joins' \subseteq joins)
  <2>1. \A l : Alone(l)' <=> Alone(l)
    BY <1>6 DEF Alone
  <2> QED
    BY <1>2, <1>6, <2>1 DEF SkippedInv
<1>7. \/ RoutePlan \/ PlanStep \/ Answered
      \/ /\ UNCHANGED <<links, skipped>>
         /\ pc' # "reconcile" \/ (pc = "reconcile" /\ joins' \subseteq joins)
  BY DEF Next, RunStep, Abort, Terminated, StartPage, KeepPlan, RouteChunk, BeginPlan,
         EndRouting, EndPage, EndPages, StartChunk, Retry, AttemptsExhausted, DomainError,
         FatalError, Descend, OpenDescent, GiveUpChunk, StartSub, StarveSub, EndChunk, ProducerCall,
         ReconcileJoin, JoinsDone, AcceptLine, TargetsDone, AdjacencyPass, PreserveBreakChars,
         LossPolicyPass, DeriveDecisions, vars, driverVars, runVars, planVars, decideVars
<1> QED
  BY <1>3, <1>4, <1>5, <1>6, <1>7

(* A line the router confirmed clean ships its source text: no chunk that  *)
(* holds it as context, no join and no later pass gives it another         *)
(* (routing.py, reconcile.py).                                             *)
THEOREM ConfirmedKeepSource == Spec => []SkippedKeepsSource
<1>1. Init => SkippedInv
  BY DEF Init, SkippedInv
<1>2. SkippedInv => SkippedKeepsSource
  BY DEF SkippedInv, SkippedKeepsSource
<1> QED
  BY <1>1, <1>2, RunInit, RunNext, SkippedInvNext, PTL DEF Spec

-----------------------------------------------------------------------------
(* Nobody is decided unasked (reconcile.py, planner.py).  A join decides   *)
(* two lines, and the head may be context of the chunk that owns the tail. *)
(* That head was sent: with this chunk when the planner kept the two       *)
(* together, or with the chunk whose targets were planned again.           *)

KnowsHeads(c) ==
    \A l \in c.targets, m \in PageLines(page) :
        forward_partner_ref(links, l) = m => m \in c.lines \cup asked
Knowing == {c \in Chunk : KnowsHeads(c)}

PlanHeads ==
    /\ LinksNear(links)
    /\ pc \in {"plan", "replan"} => PartnersInv
    /\ pc = "plan" => \A k \in DOMAIN chunks : chunks[k].gran # "LINE"
    /\ pc = "route" => chunks \in Seq(Knowing)

ItemHeads ==
    /\ queue \in Seq(Knowing)
    /\ InItem => cur \in Knowing /\ subs \in Seq(Knowing)
    /\ pc \in {"failure", "replan", "reconcile", "accept"} => cur.lines \subseteq asked

PartnersAway ==
    pc \in {"plan", "route", "chunk"} \/ InItem => \A m \in partners : PageOf[m] # page

JoinsAsked ==
    /\ pc = "reconcile" =>
          \A j \in joins : j[2] \in asked /\ (j[1] \in asked \/ PageOf[j[1]] < page)
    /\ pc \in {"reconcile", "accept"} => todo \subseteq asked

AskedInv == PlanHeads /\ ItemHeads /\ PartnersAway /\ JoinsAsked /\ CorrectedWasAsked

(* What a step may do to what a chunk knows. *)
LEMMA StepsEndLinks ==
    ASSUME RunInv, [Next]_vars
    PROVE  /\ EndsLinks /\ asked \subseteq asked'
           /\ UNCHANGED page \/ EndPage
<1>1. CASE PlanStep
  <2>1. PlanTypeOK /\ PlanNext /\ UNCHANGED <<asked, page>>
    BY <1>1 DEF RunInv, CoverInv, PlanUnderWay, PlanStep, driverVars, runVars, pageVars
  <2> QED
    BY <2>1, PlanEndsLinks
<1>2. CASE UNCHANGED links /\ asked \subseteq asked' /\ (UNCHANGED page \/ EndPage)
  BY <1>2 DEF EndsLinks
<1>3. \/ PlanStep
      \/ UNCHANGED links /\ asked \subseteq asked' /\ (UNCHANGED page \/ EndPage)
  BY DEF Next, RunStep, Abort, Terminated, StartPage, KeepPlan, RoutePlan, RouteChunk, BeginPlan,
         EndRouting, EndPage, EndPages, StartChunk, Answered, Retry, AttemptsExhausted, DomainError,
         FatalError, Descend, OpenDescent, GiveUpChunk, StartSub, StarveSub, EndChunk, ProducerCall,
         ReconcileJoin, JoinsDone, AcceptLine, TargetsDone, AdjacencyPass, PreserveBreakChars,
         LossPolicyPass, DeriveDecisions, vars, driverVars, pageVars, runVars, planVars
<1> QED
  BY <1>1, <1>2, <1>3

LEMMA KnowingGrows ==
    ASSUME EndsLinks, asked \subseteq asked', UNCHANGED page
    PROVE  /\ \A c \in Knowing : c \in Knowing'
           /\ \A s \in Seq(Knowing) : s \in Seq(Knowing')
<1>1. ASSUME NEW c \in Knowing
      PROVE  c \in Knowing'
  <2>1. ASSUME NEW l \in c.targets, NEW m \in PageLines(page), forward_partner_ref(links', l) = m
        PROVE  m \in c.lines \cup asked'
    <3>1. l \in Lines /\ m \in Lines /\ m # NoLine
      BY <2>1 DEF Knowing, Chunk, PageLines, Lines, NoLine
    <3>2. forward_partner_ref(links, l) = m
      BY <2>1, <3>1 DEF EndsLinks
    <3> QED
      BY <2>1, <3>2 DEF Knowing, KnowsHeads
  <2>2. PageLines(page)' = PageLines(page)
    BY DEF PageLines
  <2> QED
    BY <2>1, <2>2 DEF Knowing, KnowsHeads
<1>2. Knowing \subseteq Knowing'
  BY <1>1
<1> HIDE DEF Knowing
<1> QED
  BY <1>1, <1>2

(* A finished plan knows the heads of its lines. *)
LEMMA PlanKnows ==
    ASSUME PlanTypeOK, PartnersInv, scope \subseteq PageLines(page),
           \/ scope = PageLines(page) /\ \A k \in DOMAIN chunks : chunks[k].gran # "LINE"
           \/ \A l \in scope, m \in PageLines(page) : forward_partner_ref(links, l) = m => m \in asked,
           Division(chunks, scope)
    PROVE  chunks \in Seq(Knowing)
<1>1. ASSUME NEW k \in DOMAIN chunks
      PROVE  chunks[k] \in Knowing
  <2>1. chunks[k] \in Chunk /\ chunks[k].targets \subseteq scope
    BY DEF PlanTypeOK, Division
  <2>2. ASSUME NEW l \in chunks[k].targets, NEW m \in PageLines(page),
               forward_partner_ref(links, l) = m
        PROVE  m \in chunks[k].lines \cup asked
    <3>1. CASE scope = PageLines(page) /\ \A i \in DOMAIN chunks : chunks[i].gran # "LINE"
      BY <2>2, <3>1 DEF PartnersInv, PartnersSent
    <3>2. CASE \A x \in scope, y \in PageLines(page) : forward_partner_ref(links, x) = y => y \in asked
      BY <2>1, <2>2, <3>2
    <3> QED
      BY <3>1, <3>2
  <2> QED
    BY <2>1, <2>2 DEF Knowing, KnowsHeads
<1>2. chunks \in Seq(Chunk)
  BY DEF PlanTypeOK
<1> HIDE DEF Knowing
<1> QED
  BY <1>1, <1>2

LEMMA OwningKnows ==
    ASSUME NEW c \in Knowing, NEW T \in SUBSET c.targets
    PROVE  Owning(c, T) \in Seq(Knowing)
<1>1. [c EXCEPT !.targets = T] \in Knowing
  BY DEF Knowing, KnowsHeads, Chunk
<1> HIDE DEF Knowing
<1> QED
  BY <1>1 DEF Owning

(* The grains tried on a page are the ones that still have a choice. *)
LEMMA NoLineChunks ==
    ASSUME PlanTypeOK, PlanNext, planning # "line",
           \A k \in DOMAIN chunks : chunks[k].gran # "LINE"
    PROVE  \A k \in DOMAIN chunks' : chunks'[k].gran # "LINE"
<1>1. chunks \in Seq(Chunk) /\ windows \in Seq(SUBSET Lines)
  BY DEF PlanTypeOK
<1>2. CASE TryPage
  BY <1>2 DEF TryPage, WholeChunk
<1>3. CASE TryBlock
  <2>1. \/ chunks' = chunks \/ chunks' = <<>>
        \/ \E group : chunks' = Append(chunks, WholeChunk("BLOCK", group))
    BY <1>3 DEF TryBlock
  <2>2. ASSUME NEW group, chunks' = Append(chunks, WholeChunk("BLOCK", group))
        PROVE  \A k \in DOMAIN chunks' : chunks'[k].gran # "LINE"
    <3>1. PICK c : chunks' = Append(chunks, c) /\ c.gran = "BLOCK"
      BY <2>2 DEF WholeChunk
    <3>2. \A k \in DOMAIN chunks' : chunks'[k] = c \/ (k \in DOMAIN chunks /\ chunks'[k] = chunks[k])
      BY <1>1, <3>1
    <3> QED
      BY <3>1, <3>2
  <2> QED
    BY <2>1, <2>2
<1>4. CASE CloseWindows
  <2>1. \A k \in DOMAIN windows : chunks'[k].gran = "WINDOW"
    BY <1>4 DEF CloseWindows, AssignWindowTargets
  <2>2. DOMAIN chunks' = DOMAIN windows
    BY <1>4 DEF CloseWindows, AssignWindowTargets
  <2> QED
    BY <2>1, <2>2
<1>5. CASE TryWindow
  BY <1>5 DEF TryWindow
<1> QED
  BY <1>2, <1>3, <1>4, <1>5 DEF PlanNext, PlanLine, CloseLines

LEMMA PlanHeadsNext == RunInv /\ AskedInv /\ [Next]_vars => PlanHeads'
<1> SUFFICES ASSUME RunInv, AskedInv, [Next]_vars
             PROVE  PlanHeads'
  OBVIOUS
<1>1. PlanHeads /\ LinksNear(links) /\ LinksNear(links')
  BY StepsEndLinks, NearStays DEF AskedInv, PlanHeads
<1>2. ASSUME NEW S, NEW first, BeginPlan(S, first), S \subseteq PageLines(page),
             pc' \in {"plan", "replan"}
      PROVE  PlanHeads'
  <2>1. \A l, m \in S : PageOf[l] = PageOf[m]
    BY <1>2 DEF PageLines
  <2>2. PartnersInv'
    BY <1>1, <1>2, <2>1, PartnersBegin
  <2>3. DOMAIN chunks' = {}
    BY <1>2 DEF BeginPlan
  <2> QED
    BY <1>1, <1>2, <2>2, <2>3 DEF PlanHeads, LinksNear
<1>3. CASE StartPage
  BY <1>2, <1>3 DEF StartPage
<1>4. CASE Descend
  <2>1. cur.targets \subseteq PageLines(page)
    BY <1>4 DEF Descend, RunInv, LocalityInv, ItemLocal, InItem, OnPage
  <2> QED
    BY <1>2, <1>4, <2>1 DEF Descend
<1>5. CASE PlanStep
  <2>1. PlanTypeOK /\ PlanInv /\ PartnersInv /\ PlanNext /\ pc' = pc /\ pc \in {"plan", "replan"}
    BY <1>1, <1>5 DEF PlanStep, PlanHeads, RunInv, CoverInv, PlanUnderWay, driverVars
  <2>2. PartnersInv'
    BY <2>1, PartnersGoOn
  <2>3. pc = "plan" => planning # "line"
    BY DEF RunInv, LocalityInv, PlanLocal
  <2>4. pc = "plan" => \A k \in DOMAIN chunks' : chunks'[k].gran # "LINE"
    BY <1>1, <2>1, <2>3, NoLineChunks DEF PlanHeads
  <2> QED
    BY <1>1, <2>1, <2>2, <2>4 DEF PlanHeads, LinksNear
<1>6. CASE RoutePlan
  <2>1. /\ pc = "plan" /\ pc' = "route" /\ planning = "idle"
        /\ UNCHANGED <<chunks, links, asked, page>>
    BY <1>6 DEF RoutePlan, planVars
  <2>2. PlanTypeOK /\ PartnersInv /\ scope = PageLines(page) /\ Division(chunks, scope)
        /\ \A k \in DOMAIN chunks : chunks[k].gran # "LINE"
    BY <1>1, <2>1 DEF PlanHeads, RunInv, CoverInv, PlanUnderWay, PlanInv
  <2>3. chunks \in Seq(Knowing)
    BY <2>2, PlanKnows
  <2>4. chunks \in Seq(Knowing)'
    BY <2>3, KnowingGrows, StepsEndLinks, <2>1
  <2> QED
    BY <1>1, <2>1, <2>4 DEF PlanHeads, LinksNear
<1>7. CASE RouteChunk
  <2>1. /\ pc = "route" /\ pc' = "route" /\ chunks # <<>> /\ chunks' = Tail(chunks)
        /\ UNCHANGED page
    BY <1>7 DEF RouteChunk
  <2>2. chunks' \in Seq(Knowing)
    <3>1. chunks \in Seq(Knowing)
      BY <1>1, <2>1 DEF PlanHeads
    <3> HIDE DEF Knowing
    <3> QED
      BY <2>1, <3>1
  <2>3. chunks' \in Seq(Knowing)'
    BY <2>1, <2>2, KnowingGrows, StepsEndLinks
  <2> QED
    BY <1>1, <2>1, <2>3 DEF PlanHeads, LinksNear
<1>8. CASE UNCHANGED vars
  <2>1. UNCHANGED <<pc, planVars, page, asked>>
    BY <1>8 DEF vars, driverVars, pageVars, runVars
  <2>2. UNCHANGED <<links, planning, scope, at, windows, chunks>>
    BY <2>1 DEF planVars
  <2>3. UNCHANGED PartnersInv
    BY <2>2 DEF PartnersInv, HeadsReached, PartnersSent, LinksNear
  <2>4. pc = "route" => chunks \in Seq(Knowing)'
    BY <1>1, <2>1, KnowingGrows, StepsEndLinks DEF PlanHeads
  <2> QED
    BY <1>1, <2>1, <2>2, <2>3, <2>4 DEF PlanHeads, LinksNear
<1>9. CASE pc' \notin {"plan", "replan", "route"}
  BY <1>1, <1>9 DEF PlanHeads, LinksNear
<1>10. \/ StartPage \/ Descend \/ PlanStep \/ RoutePlan \/ RouteChunk \/ UNCHANGED vars
       \/ pc' \notin {"plan", "replan", "route"}
  BY DEF Next, RunStep, Abort, Terminated, KeepPlan, ProducerCall,
         EndRouting, EndPage, EndPages, StartChunk, Answered, Retry, AttemptsExhausted, DomainError,
         FatalError, OpenDescent, GiveUpChunk, StartSub, StarveSub, EndChunk,
         ReconcileJoin, JoinsDone, AcceptLine, TargetsDone, AdjacencyPass, PreserveBreakChars,
         LossPolicyPass, DeriveDecisions
<1> QED
  BY <1>3, <1>4, <1>5, <1>6, <1>7, <1>8, <1>9, <1>10

LEMMA ItemHeadsNext == RunInv /\ AskedInv /\ [Next]_vars => ItemHeads'
<1> SUFFICES ASSUME RunInv, AskedInv, [Next]_vars
             PROVE  ItemHeads'
  OBVIOUS
<1>1. PlanHeads /\ ItemHeads /\ asked \subseteq asked' /\ (UNCHANGED page \/ EndPage)
  BY StepsEndLinks DEF AskedInv
<1>2. CASE EndPage
  <2>1. queue' = <<>> /\ pc' = "page"
    BY <1>2 DEF EndPage
  <2> QED
    BY <2>1 DEF ItemHeads, InItem
<1> SUFFICES ASSUME UNCHANGED page
             PROVE  ItemHeads'
  BY <1>1, <1>2
<1>3. /\ \A c \in Knowing : c \in Knowing'
      /\ \A s \in Seq(Knowing) : s \in Seq(Knowing)'
  BY KnowingGrows, StepsEndLinks
<1>4. /\ queue \in Seq(Knowing)
      /\ InItem => cur \in Knowing /\ subs \in Seq(Knowing)
  BY <1>1 DEF ItemHeads
<1> DEFINE K == Knowing
<1>5. CASE KeepPlan
  <2>1. /\ pc = "plan" /\ planning = "idle" /\ queue' = chunks /\ pc' = "chunk"
    BY <1>5 DEF KeepPlan
  <2>2. PlanTypeOK /\ PartnersInv /\ scope = PageLines(page) /\ Division(chunks, scope)
        /\ \A k \in DOMAIN chunks : chunks[k].gran # "LINE"
    BY <1>1, <2>1 DEF PlanHeads, RunInv, CoverInv, PlanUnderWay, PlanInv
  <2>3. queue' \in Seq(Knowing)'
    BY <1>3, <2>1, <2>2, PlanKnows
  <2> QED
    BY <2>1, <2>3 DEF ItemHeads, InItem
<1>6. CASE RouteChunk
  <2> DEFINE c == Head(chunks)
             owned == c.targets \ skipped
             one == Owning(c, owned \ escalate)
             two == Owning(c, owned \cap escalate)
  <2>1. /\ pc = "route" /\ pc' = "route" /\ chunks # <<>> /\ queue' = queue \o one \o two
    BY <1>6 DEF RouteChunk
  <2>2. c \in K
    <3>1. chunks \in Seq(K)
      BY <1>1, <2>1 DEF PlanHeads
    <3> HIDE DEF K
    <3> QED
      BY <2>1, <3>1
  <2> HIDE DEF c
  <2>3. one \in Seq(K) /\ two \in Seq(K)
    BY <2>2, OwningKnows
  <2> HIDE DEF one, two
  <2>4. queue' \in Seq(K)
    <3>1. queue \in Seq(K)
      BY <1>4
    <3> HIDE DEF K
    <3> QED
      BY <2>1, <2>3, <3>1
  <2>5. queue' \in Seq(Knowing)'
    BY <1>3, <2>4
  <2> QED
    BY <2>1, <2>5 DEF ItemHeads, InItem
<1>7. CASE StartChunk
  <2>1. /\ queue # <<>> /\ queue' = Tail(queue) /\ cur' = Head(queue)
        /\ subs' = <<>> /\ pc' \in {"sub", "attempt"}
    BY <1>7 DEF StartChunk
  <2>2. Head(queue) \in K /\ Tail(queue) \in Seq(K)
    <3>1. queue \in Seq(K)
      BY <1>4
    <3> HIDE DEF K
    <3> QED
      BY <2>1, <3>1
  <2>3. cur' \in Knowing' /\ queue' \in Seq(Knowing)'
    BY <1>3, <2>1, <2>2
  <2> QED
    BY <2>1, <2>3 DEF ItemHeads
<1>8. CASE OpenDescent
  <2>1. /\ UNCHANGED <<queue, cur>> /\ subs' = chunks \o subs /\ pc' = "sub" /\ InItem
        /\ pc = "replan" /\ planning = "idle"
    BY <1>8 DEF OpenDescent, pageVars, InItem
  <2>2. /\ PlanTypeOK /\ PartnersInv /\ scope = cur.targets /\ Division(chunks, scope)
        /\ cur.targets \subseteq PageLines(page) /\ cur.lines \subseteq asked
        /\ \A l \in cur.targets, m \in PageLines(page) :
              forward_partner_ref(links, l) = m => m \in cur.lines \cup asked
    BY <1>1, <2>1 DEF PlanHeads, ItemHeads, Knowing, KnowsHeads, RunInv, CoverInv, PlanUnderWay,
                      PlanInv, LocalityInv, ItemLocal, OnPage
  <2>3. chunks \in Seq(K)
    BY <2>2, PlanKnows
  <2>4. subs' \in Seq(K)
    <3>1. subs \in Seq(K)
      BY <1>4, <2>1
    <3> HIDE DEF K
    <3> QED
      BY <2>1, <2>3, <3>1
  <2>5. subs' \in Seq(Knowing)' /\ queue' \in Seq(Knowing)' /\ cur' \in Knowing'
    BY <1>3, <1>4, <2>1, <2>4
  <2> QED
    BY <2>1, <2>5 DEF ItemHeads
<1>9. CASE StartSub \/ StarveSub
  <2>1. /\ UNCHANGED queue /\ subs # <<>> /\ subs' = Tail(subs) /\ InItem
        /\ cur' \in {cur, Head(subs)} /\ pc' \in {"sub", "attempt"}
    BY <1>9 DEF StartSub, StarveSub, pageVars, InItem
  <2>2. Head(subs) \in K /\ Tail(subs) \in Seq(K)
    <3>1. subs \in Seq(K)
      BY <1>4, <2>1
    <3> HIDE DEF K
    <3> QED
      BY <2>1, <3>1
  <2>3. subs' \in Seq(Knowing)' /\ queue' \in Seq(Knowing)' /\ cur' \in Knowing'
    BY <1>3, <1>4, <2>1, <2>2
  <2> QED
    BY <2>1, <2>3 DEF ItemHeads
<1>10. CASE DomainError
  <2>1. /\ UNCHANGED <<queue, cur>> /\ subs' = <<>> /\ pc' = "sub" /\ InItem
    BY <1>10 DEF DomainError, ProducerCall, pageVars, InItem
  <2>2. queue' \in Seq(Knowing)' /\ cur' \in Knowing'
    BY <1>3, <1>4, <2>1
  <2> QED
    BY <2>1, <2>2 DEF ItemHeads
<1>11. CASE Answered \/ AttemptsExhausted
  <2>1. UNCHANGED <<queue, cur, subs>> /\ InItem /\ cur.lines \subseteq asked'
    BY <1>11 DEF Answered, AttemptsExhausted, ProducerCall, pageVars, InItem
  <2>2. subs' \in Seq(Knowing)' /\ queue' \in Seq(Knowing)' /\ cur' \in Knowing'
    BY <1>3, <1>4, <2>1
  <2> QED
    BY <2>1, <2>2 DEF ItemHeads
<1>12. CASE /\ UNCHANGED <<queue, cur, subs>> /\ (InItem' => InItem)
            /\ pc' \in {"failure", "replan", "reconcile", "accept"} =>
                  pc \in {"failure", "replan", "reconcile", "accept"}
  <2>1. queue' \in Seq(Knowing)' /\ (InItem' => subs' \in Seq(Knowing)' /\ cur' \in Knowing')
    BY <1>3, <1>4, <1>12
  <2> QED
    BY <1>1, <1>12, <2>1 DEF ItemHeads
<1>13. \/ KeepPlan \/ RouteChunk \/ StartChunk \/ OpenDescent \/ StartSub \/ StarveSub
       \/ DomainError \/ Answered \/ AttemptsExhausted \/ EndPage
       \/ /\ UNCHANGED <<queue, cur, subs>> /\ (InItem' => InItem)
          /\ pc' \in {"failure", "replan", "reconcile", "accept"} =>
                pc \in {"failure", "replan", "reconcile", "accept"}
  BY DEF Next, RunStep, Abort, Terminated, StartPage, PlanStep, RoutePlan, EndRouting, EndPages,
         Retry, FatalError, Descend, GiveUpChunk, EndChunk, ReconcileJoin, JoinsDone, AcceptLine,
         TargetsDone, AdjacencyPass, PreserveBreakChars, LossPolicyPass, DeriveDecisions,
         ProducerCall, vars, driverVars, pageVars, chunkVars, InItem
<1> QED
  BY <1>2, <1>5, <1>6, <1>7, <1>8, <1>9, <1>10, <1>11, <1>12, <1>13

LEMMA PartnersAwayNext == PartnersAway /\ [Next]_vars => PartnersAway'
<1> SUFFICES ASSUME PartnersAway, [Next]_vars
             PROVE  PartnersAway'
  OBVIOUS
<1>1. CASE StartPage
  BY <1>1 DEF StartPage, PartnersAway, CrossPagePartners, PageLines
<1>2. CASE pc' \in {"page", "adjacency", "breaks", "loss", "derive", "done", "failed"}
  BY <1>2 DEF PartnersAway, InItem
<1>3. CASE UNCHANGED <<page, partners>> /\ (pc \in {"plan", "route", "chunk"} \/ InItem)
  BY <1>3 DEF PartnersAway
<1>4. CASE UNCHANGED vars
  BY <1>4 DEF PartnersAway, InItem, vars, driverVars, pageVars
<1>5. \/ StartPage \/ UNCHANGED vars
      \/ pc' \in {"page", "adjacency", "breaks", "loss", "derive", "done", "failed"}
      \/ UNCHANGED <<page, partners>> /\ (pc \in {"plan", "route", "chunk"} \/ InItem)
  BY DEF Next, RunStep, Abort, Terminated, PlanStep, KeepPlan, RoutePlan, RouteChunk, ProducerCall,
         EndRouting, EndPage, EndPages, StartChunk, Answered, Retry, AttemptsExhausted, DomainError,
         FatalError, Descend, OpenDescent, GiveUpChunk, StartSub, StarveSub, EndChunk,
         ReconcileJoin, JoinsDone, AcceptLine, TargetsDone, AdjacencyPass, PreserveBreakChars,
         LossPolicyPass, DeriveDecisions, driverVars, pageVars, InItem
<1> QED
  BY <1>1, <1>2, <1>3, <1>4, <1>5

(* The joins a chunk owns are between lines that were sent, or reach a     *)
(* tail of a page that has been left.                                      *)
LEMMA JoinsAskedNext == RunInv /\ AskedInv /\ [Next]_vars => JoinsAsked'
<1> SUFFICES ASSUME RunInv, AskedInv, [Next]_vars
             PROVE  JoinsAsked'
  OBVIOUS
<1>1. CASE Answered
  <2>1. /\ pc = "attempt" /\ pc' = "reconcile" /\ joins' = ClaimedJoins(cur.targets)
        /\ todo' = cur.targets /\ asked' = asked \cup cur.lines /\ UNCHANGED page
    BY <1>1 DEF Answered, ProducerCall, pageVars
  <2>2. /\ cur.targets \subseteq cur.lines /\ cur.targets \subseteq PageLines(page)
        /\ page \in Nat /\ partners \subseteq Lines
        /\ \A m \in partners : PageOf[m] # page
        /\ LinksNear(links)
        /\ \A l \in cur.targets, m \in PageLines(page) :
              forward_partner_ref(links, l) = m => m \in cur.lines \cup asked
    BY <2>1 DEF AskedInv, PlanHeads, ItemHeads, PartnersAway, Knowing, KnowsHeads, RunInv,
                CoverInv, WorkSent, Sent, LocalityInv, ItemLocal, InItem, OnPage
  <2>3. ASSUME NEW t \in cur.targets, forward_partner_ref(links, t) \in PageLines(page)
        PROVE  t \in asked' /\ forward_partner_ref(links, t) \in asked'
    BY <2>1, <2>2, <2>3
  <2>4. ASSUME NEW h \in cur.targets, backward_partner_ref(links, h) \in partners
        PROVE  h \in asked' /\ PageOf[backward_partner_ref(links, h)] < page
    <3>1. PICK b \in partners : b = backward_partner_ref(links, h)
      BY <2>4
    <3>2. b \in Lines /\ h \in Lines /\ b < h /\ PageOf[h] = page
      BY <2>2, <3>1 DEF LinksNear, PageLines
    <3>3. PageOf[b] =< PageOf[h] /\ PageOf[b] # page /\ PageOf[b] \in Nat
      BY <2>2, <3>2, LayoutAssumption
    <3> QED
      BY <2>1, <2>2, <3>1, <3>2, <3>3
  <2>5. ASSUME NEW j \in joins'
        PROVE  j[2] \in asked' /\ (j[1] \in asked' \/ PageOf[j[1]] < page)
    <3>1. CASE \E t \in cur.targets : /\ forward_partner_ref(links, t) \in PageLines(page)
                                      /\ j = <<t, forward_partner_ref(links, t)>>
      BY <2>3, <3>1
    <3>2. CASE \E h \in cur.targets : /\ backward_partner_ref(links, h) \in partners
                                      /\ j = <<backward_partner_ref(links, h), h>>
      BY <2>4, <3>2
    <3> QED
      BY <2>1, <2>5, <3>1, <3>2 DEF ClaimedJoins
  <2> QED
    BY <2>1, <2>2, <2>5 DEF JoinsAsked
<1>2. CASE /\ UNCHANGED <<asked, page>> /\ todo' \subseteq todo
           /\ pc' = "reconcile" => pc = "reconcile" /\ joins' \subseteq joins
           /\ pc' = "accept" => pc \in {"reconcile", "accept"}
  BY <1>2 DEF AskedInv, JoinsAsked
<1>3. \/ Answered \/ pc' \notin {"reconcile", "accept"}
      \/ /\ UNCHANGED <<asked, page>> /\ todo' \subseteq todo
         /\ pc' = "reconcile" => pc = "reconcile" /\ joins' \subseteq joins
         /\ pc' = "accept" => pc \in {"reconcile", "accept"}
  BY DEF Next, RunStep, Abort, Terminated, StartPage, PlanStep, KeepPlan, RoutePlan, RouteChunk,
         EndRouting, EndPage, EndPages, StartChunk, Retry, AttemptsExhausted, DomainError,
         FatalError, Descend, OpenDescent, GiveUpChunk, StartSub, StarveSub, EndChunk, ProducerCall,
         ReconcileJoin, JoinsDone, AcceptLine, TargetsDone, AdjacencyPass, PreserveBreakChars,
         LossPolicyPass, DeriveDecisions, vars, driverVars, pageVars, decideVars, runVars
<1> QED
  BY <1>1, <1>2, <1>3 DEF JoinsAsked

(* A line becomes corrected only where accept is given a text for it. *)
CorrectsOnly(S) == \A l \in Lines : status'[l] = "corrected" => status[l] = "corrected" \/ l \in S

LEMMA WritersCorrect ==
    /\ UNCHANGED ledger => CorrectsOnly({})
    /\ \A why : fall_back(why) => CorrectsOnly({})
    /\ \A respell : renormalise(respell) => CorrectsOnly({})
    /\ \A final : accept(final) => CorrectsOnly(DOMAIN final)
  BY DEF CorrectsOnly, ledger, fall_back, renormalise, accept

LEMMA AskedBeforeCorrected == RunInv /\ AskedInv /\ [Next]_vars => CorrectedWasAsked'
<1> SUFFICES ASSUME RunInv, AskedInv, [Next]_vars
             PROVE  CorrectedWasAsked'
  OBVIOUS
<1>1. CorrectedWasAsked /\ JoinsAsked /\ asked \subseteq asked' /\ skipped \subseteq skipped'
  <2>1. skipped \subseteq skipped'
    BY DEF Next, RunStep, Abort, Terminated, StartPage, PlanStep, KeepPlan, RoutePlan, RouteChunk,
           EndRouting, EndPage, EndPages, StartChunk, Answered, Retry, AttemptsExhausted, DomainError,
           FatalError, Descend, OpenDescent, GiveUpChunk, StartSub, StarveSub, EndChunk,
           ReconcileJoin, JoinsDone, AcceptLine, TargetsDone, AdjacencyPass, PreserveBreakChars,
           LossPolicyPass, DeriveDecisions, vars, driverVars, runVars
  <2> QED
    BY <2>1, StepsEndLinks DEF AskedInv
<1>2. ASSUME NEW S, CorrectsOnly(S), \A l \in S \cap Lines : l \in asked' \cup skipped'
      PROVE  CorrectedWasAsked'
  BY <1>1, <1>2 DEF CorrectsOnly, CorrectedWasAsked
<1>3. CASE UNCHANGED ledger \/ (\E why : fall_back(why)) \/ (\E respell : renormalise(respell))
  BY <1>2, <1>3, WritersCorrect
<1>4. CASE RoutePlan
  <2>1. PICK skip : accept([l \in skip |-> Source]) /\ skipped' = skipped \cup skip
    BY <1>4 DEF RoutePlan
  <2> DEFINE final == [l \in skip |-> Source]
  <2>2. accept(final) /\ DOMAIN final = skip
    BY <2>1
  <2> HIDE DEF final
  <2> QED
    BY <1>2, <2>1, <2>2, WritersCorrect
<1>5. CASE AcceptLine
  <2>1. PICK k \in todo : DecideTarget(k)
    BY <1>5 DEF AcceptLine
  <2>2. k \in asked
    BY <1>1, <1>5 DEF JoinsAsked, AcceptLine
  <2>3. UNCHANGED ledger \/ (\E why : fall_back(why)) \/ \E p : accept([m \in {k} |-> p])
    BY <2>1 DEF DecideTarget
  <2>4. ASSUME NEW p, accept([m \in {k} |-> p])
        PROVE  CorrectedWasAsked'
    <3> DEFINE final == [m \in {k} |-> p]
    <3>1. accept(final) /\ DOMAIN final = {k}
      BY <2>4
    <3> HIDE DEF final
    <3> QED
      BY <1>1, <1>2, <2>2, <3>1, WritersCorrect
  <2> QED
    BY <1>3, <2>3, <2>4
<1>6. CASE ReconcileJoin
  <2>1. PICK j \in joins :
            \/ fall_back([m \in {j[1], j[2]} |-> "pair"])
            \/ /\ "fallback" \notin {status[j[1]], status[j[2]]}
               /\ \E p1 \in TailTexts(j[1]), p2 \in HeadTexts(j[2]) :
                     accept([m \in {j[1], j[2]} |-> IF m = j[1] THEN p1 ELSE p2])
    BY <1>6 DEF ReconcileJoin
  <2>2. j[2] \in asked /\ (j[1] \in asked \/ PageOf[j[1]] < page)
    BY <1>1, <1>6 DEF JoinsAsked, ReconcileJoin
  <2>3. ASSUME "fallback" \notin {status[j[1]], status[j[2]]}, j[1] \in Lines
        PROVE  j[1] \in asked \cup skipped
    <3>1. CASE PageOf[j[1]] < page
      <4>1. status[j[1]] # "pending" /\ status[j[1]] \in Statuses
        BY <2>3, <3>1 DEF RunInv, CoverInv, DecidedBehind, LedgerInv, LedgerTypeOK
      <4>2. status[j[1]] = "corrected"
        BY <2>3, <4>1 DEF Statuses
      <4> QED
        BY <1>1, <2>3, <4>2 DEF CorrectedWasAsked
    <3> QED
      BY <2>2, <3>1
  <2>4. ASSUME NEW p1, NEW p2, "fallback" \notin {status[j[1]], status[j[2]]},
               accept([m \in {j[1], j[2]} |-> IF m = j[1] THEN p1 ELSE p2])
        PROVE  CorrectedWasAsked'
    <3> DEFINE final == [m \in {j[1], j[2]} |-> IF m = j[1] THEN p1 ELSE p2]
    <3>1. accept(final) /\ DOMAIN final = {j[1], j[2]}
      BY <2>4
    <3> HIDE DEF final
    <3> QED
      BY <1>1, <1>2, <2>2, <2>3, <2>4, <3>1, WritersCorrect
  <2> QED
    BY <1>3, <2>1, <2>4
<1>7. CASE GiveUpChunk \/ StarveSub
  <2>1. \E why : fall_back(why)
    BY <1>7 DEF GiveUpChunk, StarveSub, ChunkFallback
  <2> QED
    BY <1>3, <2>1
<1>8. CASE DomainError
  <2>1. UNCHANGED ledger \/ \E why : fall_back(why)
    BY <1>8 DEF DomainError, AbsorbError, ledger
  <2> QED
    BY <1>3, <2>1
<1>9. CASE AdjacencyPass \/ LossPolicyPass
  <2>1. \E why : fall_back(why)
    BY <1>9 DEF AdjacencyPass, LossPolicyPass, UnitReverts
  <2> QED
    BY <1>3, <2>1
<1>10. CASE PreserveBreakChars
  BY <1>3, <1>10 DEF PreserveBreakChars
<1>11. \/ RoutePlan \/ AcceptLine \/ ReconcileJoin \/ GiveUpChunk \/ StarveSub \/ DomainError
       \/ AdjacencyPass \/ LossPolicyPass \/ PreserveBreakChars \/ UNCHANGED ledger
  BY DEF Next, RunStep, Abort, Terminated, StartPage, PlanStep, KeepPlan, RouteChunk,
         EndRouting, EndPage, EndPages, StartChunk, Answered, Retry, AttemptsExhausted,
         FatalError, Descend, OpenDescent, StartSub, EndChunk,
         JoinsDone, TargetsDone, DeriveDecisions, vars
<1> QED
  BY <1>3, <1>4, <1>5, <1>6, <1>7, <1>8, <1>9, <1>10, <1>11

LEMMA AskedInit ==
    ASSUME \A lk \in LinkChoices : LinksNear(lk)
    PROVE  Init => AskedInv
<1> SUFFICES ASSUME Init
             PROVE  AskedInv
  OBVIOUS
<1>1. LinksNear(links) /\ queue \in Seq(Knowing)
  BY DEF Init
<1>2. \A l \in Lines : status[l] = "pending"
  BY DEF Init, LedgerInit
<1> QED
  BY <1>1, <1>2 DEF Init, AskedInv, PlanHeads, ItemHeads, PartnersAway, JoinsAsked,
                    CorrectedWasAsked, InItem

LEMMA AskedNext == RunInv /\ AskedInv /\ [Next]_vars => AskedInv'
<1>1. AskedInv => PartnersAway
  BY DEF AskedInv
<1> QED
  BY <1>1, PlanHeadsNext, ItemHeadsNext, PartnersAwayNext, JoinsAskedNext, AskedBeforeCorrected
  DEF AskedInv

(* No hyphen join decides a line no producer was asked about               *)
(* (reconcile.py): for every document and policy, when links go down the   *)
(* page and no further than a window may grow.                             *)
THEOREM NobodyDecidedUnasked ==
    ASSUME \A lk \in LinkChoices : LinksNear(lk)
    PROVE  Spec => []CorrectedWasAsked
<1>1. Init => AskedInv
  BY AskedInit
<1>2. AskedInv => CorrectedWasAsked
  BY DEF AskedInv
<1> QED
  BY <1>1, <1>2, AskedNext, RunInit, RunNext, PTL DEF Spec

-----------------------------------------------------------------------------
(* Severing, throughout a run.                                             *)

LEMMA RunSevers ==
    ASSUME OneLinePerId
    PROVE  RunInv /\ SeveringInv /\ [Next]_vars => SeveringInv' /\ [Severs]_planVars
<1>1. SUFFICES ASSUME RunInv, SeveringInv, [Next]_vars
               PROVE  SeveringInv' /\ [Severs]_planVars
  OBVIOUS
<1>2. CASE PlanStep
  <2>1. PlanNext /\ scope \in SUBSET Lines /\ at \in Nat \ {0}
    BY <1>1, <1>2 DEF PlanStep, RunInv, CoverInv, PlanUnderWay, PlanTypeOK
  <2> QED
    BY <1>1, <2>1, PlanSevers
<1>3. CASE UNCHANGED <<links, splits>>
  <2>1. SeveringInv' /\ Severs
    BY <1>1, <1>3 DEF SeveringInv, Severs, Symmetric
  <2> QED
    BY <2>1
<1>4. PlanStep \/ UNCHANGED <<links, splits>>
  BY <1>1
  DEF Next, RunStep, Abort, Terminated, StartPage, KeepPlan, RoutePlan, RouteChunk, BeginPlan,
      EndRouting, EndPage, EndPages, StartChunk, Answered, Retry, AttemptsExhausted, DomainError,
      FatalError, Descend, OpenDescent, GiveUpChunk, StartSub, StarveSub, EndChunk,
      ReconcileJoin, JoinsDone, AcceptLine, TargetsDone, AdjacencyPass, PreserveBreakChars,
      LossPolicyPass, DeriveDecisions, vars, planVars
<1> QED
  BY <1>2, <1>3, <1>4

(* A run severs a link only where the LINE loop of a descent does, and     *)
(* records the link it severed (planner.py, HyphenSplit): for every        *)
(* document and policy, when links agree from both ends and a bare id      *)
(* names one line.                                                         *)
THEOREM RunSeversOnRecord ==
    ASSUME OneLinePerId, \A lk \in LinkChoices : Symmetric(lk)
    PROVE  Spec => OnlySplitsSever
<1>1. Init => SeveringInv
  BY LinkChoicesAssumption DEF Init, SeveringInv
<1> QED
  BY <1>1, RunSevers, RunInit, RunNext, PTL DEF Spec, OnlySplitsSever, Severs

-----------------------------------------------------------------------------
(* Decided corrections stand (reconcile.py).  A join writes the head of a  *)
(* word with a text read from the answer, so no head may be corrected      *)
(* before its join is walked.  On a page that is the order of the chunks:  *)
(* whoever owns a tail is processed no later than whoever owns its head.   *)
(* Across pages the head's own chunk owns the join.                        *)

(* One tail a head, and a head never names another line as its tail. *)
OneWay(lk) ==
    \A t, h \in Lines : forward_partner_ref(lk, t) = h =>
        /\ \A u \in Lines : forward_partner_ref(lk, u) = h => u = t
        /\ \A b \in Lines : backward_partner_ref(lk, h) = b => b = t

(* Targets of the page no answer has spoken for yet. *)
Waiting ==
    {l \in Lines : \/ l \in Owned(queue)
                   \/ pc = "route" /\ l \in Owned(chunks)
                   \/ pc \in {"attempt", "failure", "replan"} /\ l \in cur.targets
                   \/ InItem /\ l \in Owned(subs)}

(* What is left of the page is in order, the descent under way first. *)
WorkInOrder ==
    /\ pc \in {"plan", "replan", "route"} => InOrder(links, chunks)
    /\ InOrder(links, queue)
    /\ pc \in {"page", "plan"} => queue = <<>>
    /\ pc = "route" => Before(links, Owned(queue), Owned(chunks))
    /\ InItem => InOrder(links, subs) /\ Before(links, Owned(subs), Owned(queue))
    /\ InItem /\ pc # "sub" => Before(links, cur.targets, Owned(subs) \cup Owned(queue))

(* An escalated tail takes its head along, so the two halves of a routed   *)
(* chunk stay in order.                                                    *)
HeadsEscalate ==
    pc = "route" =>
        \A t, h \in PageLines(page) :
            t \in escalate /\ forward_partner_ref(links, t) = h => h \in escalate

(* No correction stands where a join still has to write. *)
HeadsAtSource ==
    /\ \A l \in Lines : Ahead(l) => ~Changed(l)
    /\ \A t \in Waiting, h \in PageLines(page) : forward_partner_ref(links, t) = h => ~Changed(h)
    /\ \A h \in Waiting : backward_partner_ref(links, h) \in partners => ~Changed(h)

JoinsAtSource ==
    /\ pc \in {"reconcile", "accept"} => todo \subseteq cur.targets
    /\ pc = "reconcile" => /\ joins \subseteq ClaimedJoins(cur.targets)
                           /\ \A j \in joins : ~Changed(j[2])

StandsInv == OneWay(links) /\ WorkInOrder /\ HeadsEscalate /\ HeadsAtSource /\ JoinsAtSource

LEMMA OneWayStays == OneWay(links) /\ EndsLinks => OneWay(links')
<1> SUFFICES ASSUME OneWay(links), EndsLinks, NEW t \in Lines, NEW h \in Lines,
                    forward_partner_ref(links', t) = h
             PROVE  /\ \A u \in Lines : forward_partner_ref(links', u) = h => u = t
                    /\ \A b \in Lines : backward_partner_ref(links', h) = b => b = t
  BY DEF OneWay
<1>1. \A l \in Lines : l # NoLine
  BY DEF Lines, NoLine
<1>2. \A l, m \in Lines : /\ forward_partner_ref(links', l) = m => forward_partner_ref(links, l) = m
                          /\ backward_partner_ref(links', l) = m => backward_partner_ref(links, l) = m
  BY <1>1 DEF EndsLinks
<1> QED
  BY <1>2 DEF OneWay

(* Order and sequences. *)
LEMMA OrderHead ==
    ASSUME NEW lk, NEW S \in SUBSET Chunk, NEW s \in Seq(S), s # <<>>, InOrder(lk, s)
    PROVE  InOrder(lk, Tail(s)) /\ Before(lk, Head(s).targets, Owned(Tail(s)))
<1>1. /\ DOMAIN s = 1 .. Len(s) /\ Len(s) \in Nat \ {0} /\ s[1] = Head(s)
      /\ DOMAIN Tail(s) = 1 .. (Len(s) - 1)
      /\ \A k \in 1 .. (Len(s) - 1) : Tail(s)[k] = s[k + 1]
  OBVIOUS
<1>2. ASSUME NEW i \in DOMAIN Tail(s), NEW j \in DOMAIN Tail(s), i < j
      PROVE  Before(lk, Tail(s)[i].targets, Tail(s)[j].targets)
  <2>1. i + 1 \in DOMAIN s /\ j + 1 \in DOMAIN s /\ i + 1 < j + 1
    BY <1>1, <1>2
  <2> QED
    BY <1>1, <2>1 DEF InOrder
<1>3. ASSUME NEW j \in DOMAIN Tail(s)
      PROVE  Before(lk, Head(s).targets, Tail(s)[j].targets)
  <2>1. 1 \in DOMAIN s /\ j + 1 \in DOMAIN s /\ 1 < j + 1
    BY <1>1
  <2> QED
    BY <1>1, <2>1 DEF InOrder
<1> QED
  BY <1>2, <1>3 DEF InOrder, Owned, Before

LEMMA OrderConcat ==
    ASSUME NEW lk, NEW s \in Seq(Chunk), NEW t \in Seq(Chunk),
           InOrder(lk, s), InOrder(lk, t), Before(lk, Owned(s), Owned(t))
    PROVE  InOrder(lk, s \o t)
<1> DEFINE st == s \o t
           n == Len(s)
<1>1. /\ n \in Nat /\ Len(t) \in Nat
      /\ DOMAIN st = 1 .. (n + Len(t)) /\ DOMAIN s = 1 .. n /\ DOMAIN t = 1 .. Len(t)
      /\ \A k \in 1 .. n : st[k] = s[k]
      /\ \A k \in 1 .. Len(t) : st[n + k] = t[k]
  OBVIOUS
<1>2. /\ \A k \in DOMAIN s : s[k].targets \subseteq Owned(s)
      /\ \A k \in DOMAIN t : t[k].targets \subseteq Owned(t)
  <2>1. (\A k \in DOMAIN s : s[k] \in Chunk) /\ \A k \in DOMAIN t : t[k] \in Chunk
    OBVIOUS
  <2> QED
    BY <2>1 DEF Owned, Chunk
<1> HIDE DEF st, n
<1>3. ASSUME NEW k \in DOMAIN st
      PROVE  \/ k \in DOMAIN s /\ st[k] = s[k]
             \/ /\ k > n /\ k - n \in DOMAIN t /\ st[k] = t[k - n]
  <2>1. k =< n => k \in DOMAIN s /\ st[k] = s[k]
    BY <1>1
  <2>2. ~(k =< n) => k > n /\ k - n \in 1 .. Len(t) /\ n + (k - n) = k
    BY <1>1
  <2> QED
    BY <1>1, <2>1, <2>2
<1>4. ASSUME NEW i \in DOMAIN st, NEW j \in DOMAIN st, i < j
      PROVE  Before(lk, st[i].targets, st[j].targets)
  <2>1. CASE i \in DOMAIN s /\ j \in DOMAIN s /\ st[i] = s[i] /\ st[j] = s[j]
    BY <1>4, <2>1 DEF InOrder
  <2>2. CASE /\ i \in DOMAIN s /\ st[i] = s[i]
             /\ j - n \in DOMAIN t /\ st[j] = t[j - n]
    BY <1>2, <2>2 DEF Before
  <2>3. CASE /\ i - n \in DOMAIN t /\ st[i] = t[i - n]
             /\ j - n \in DOMAIN t /\ st[j] = t[j - n]
    <3>1. i - n < j - n
      BY <1>1, <1>4
    <3> QED
      BY <2>3, <3>1 DEF InOrder
  <2>4. ~(i > n /\ j \in DOMAIN s)
    BY <1>1, <1>4
  <2> QED
    BY <1>3, <2>1, <2>2, <2>3, <2>4
<1> QED
  BY <1>4 DEF InOrder, st

LEMMA NothingInOrder ==
    ASSUME NEW lk
    PROVE  InOrder(lk, <<>>) /\ \A S : Before(lk, {}, S) /\ Before(lk, S, {})
<1>1. DOMAIN <<>> = {}
  OBVIOUS
<1> QED
  BY <1>1 DEF InOrder, Before

LEMMA OwningInOrder ==
    ASSUME NEW lk, NEW c, NEW T
    PROVE  InOrder(lk, Owning(c, T))
<1>1. DOMAIN Owning(c, T) \subseteq {1}
  BY DEF Owning
<1> QED
  BY <1>1, OneInOrder

(* What a step leaves of an order. *)
LEMMA OrdersStay ==
    ASSUME EndsLinks
    PROVE  /\ \A plan \in Seq(Chunk) : InOrder(links, plan) => InOrder(links', plan)
           /\ \A H, T \in SUBSET Lines : Before(links, H, T) => Before(links', H, T)
  BY OrderStays, BeforeStays

LEMMA RunSequences ==
    ASSUME RunInv
    PROVE  /\ queue \in Seq(Chunk) /\ queue \in Seq(Sent)
           /\ InItem => /\ subs \in Seq(Chunk) /\ subs \in Seq(Sent)
                        /\ cur \in Chunk /\ cur.targets \in SUBSET Lines
                        /\ cur.targets \subseteq PageLines(page)
           /\ pc = "route" => chunks \in Seq(Chunk) /\ chunks \in Seq(Sent)
           /\ Owned(queue) \in SUBSET Lines /\ Owned(subs) \in SUBSET Lines
           /\ Owned(chunks) \in SUBSET Lines
<1>1. Sent \subseteq Chunk
  BY DEF Sent
<1>2. Seq(Sent) \subseteq Seq(Chunk)
  <2> HIDE DEF Sent, Chunk
  <2> QED
    BY <1>1
<1>3. WorkSent /\ (InItem => cur \in OnPage(page))
  BY DEF RunInv, CoverInv, LocalityInv, ItemLocal
<1>4. InItem => cur \in Chunk /\ cur.targets \in SUBSET Lines /\ cur.targets \subseteq PageLines(page)
  BY <1>3 DEF OnPage, Chunk
<1>5. \A plan : Owned(plan) \in SUBSET Lines
  BY DEF Owned
<1> HIDE DEF Sent, Chunk
<1> QED
  BY <1>2, <1>3, <1>4, <1>5 DEF WorkSent

LEMMA PlanOrderNext ==
    ASSUME RunInv, AskedInv, WorkInOrder, [Next]_vars
    PROVE  (pc \in {"plan", "replan", "route"} => InOrder(links, chunks))'
<1>1. CASE StartPage \/ Descend
  <2>1. chunks' = <<>>
    BY <1>1 DEF StartPage, Descend, BeginPlan
  <2> QED
    BY <2>1, NothingInOrder
<1>2. CASE PlanStep
  <2>1. /\ PlanInv /\ PartnersInv /\ PlanNext /\ InOrder(links, chunks)
    BY <1>2 DEF PlanStep, AskedInv, PlanHeads, RunInv, CoverInv, PlanUnderWay, WorkInOrder
  <2> QED
    BY <2>1, OrderGoesOn
<1>3. CASE RoutePlan
  <2>1. UNCHANGED <<links, chunks>> /\ pc = "plan"
    BY <1>3 DEF RoutePlan, planVars
  <2> QED
    BY <2>1 DEF WorkInOrder
<1>4. CASE RouteChunk
  <2>1. UNCHANGED links /\ pc = "route" /\ chunks # <<>> /\ chunks' = Tail(chunks)
    BY <1>4 DEF RouteChunk
  <2>2. chunks \in Seq(Sent) /\ Sent \in SUBSET Chunk /\ InOrder(links, chunks)
    BY <2>1, RunSequences DEF WorkInOrder, Sent
  <2>3. InOrder(links, Tail(chunks))
    BY <2>1, <2>2, OrderHead
  <2> QED
    BY <2>1, <2>3
<1>5. CASE UNCHANGED vars
  <2>1. UNCHANGED <<links, chunks, pc>>
    BY <1>5 DEF vars, planVars, driverVars
  <2> QED
    BY <2>1 DEF WorkInOrder
<1>6. \/ StartPage \/ Descend \/ PlanStep \/ RoutePlan \/ RouteChunk \/ UNCHANGED vars
      \/ pc' \notin {"plan", "replan", "route"}
  BY DEF Next, RunStep, Abort, Terminated, KeepPlan, ProducerCall,
         EndRouting, EndPage, EndPages, StartChunk, Answered, Retry, AttemptsExhausted, DomainError,
         FatalError, OpenDescent, GiveUpChunk, StartSub, StarveSub, EndChunk,
         ReconcileJoin, JoinsDone, AcceptLine, TargetsDone, AdjacencyPass, PreserveBreakChars,
         LossPolicyPass, DeriveDecisions
<1> QED
  BY <1>1, <1>2, <1>3, <1>4, <1>5, <1>6

QueueInOrder ==
    /\ InOrder(links, queue)
    /\ pc \in {"page", "plan"} => queue = <<>>
    /\ pc = "route" => Before(links, Owned(queue), Owned(chunks))

(* One routed chunk becomes two work items, the escalated one last. *)
LEMMA RouteKeepsOrder ==
    ASSUME RunInv, WorkInOrder, HeadsEscalate, RouteChunk
    PROVE  /\ QueueInOrder'
           /\ Owned(queue') \subseteq Owned(queue) \cup Owned(chunks)
           /\ Owned(chunks') \subseteq Owned(chunks)
<1> DEFINE c == Head(chunks)
           owned == c.targets \ skipped
           stays == owned \ escalate
           goes == owned \cap escalate
           one == Owning(c, stays)
           two == Owning(c, goes)
           rest == Tail(chunks)
<1>1. /\ pc = "route" /\ pc' = "route" /\ chunks # <<>> /\ chunks' = rest
      /\ queue' = queue \o one \o two /\ UNCHANGED links
  BY DEF RouteChunk
<1>2. /\ chunks \in Seq(Sent) /\ Sent \in SUBSET Chunk /\ queue \in Seq(Sent)
      /\ InOrder(links, chunks) /\ InOrder(links, queue)
      /\ Before(links, Owned(queue), Owned(chunks))
  BY <1>1, RunSequences DEF WorkInOrder, Sent
<1>3. /\ InOrder(links, rest) /\ Before(links, c.targets, Owned(rest))
      /\ c \in Sent /\ Owned(chunks) = c.targets \cup Owned(rest)
  BY <1>1, <1>2, OrderHead, OwnedHead
<1>4. c.targets \subseteq PageLines(page)
  <2>1. chunks \in Seq(OnPage(page))
    BY <1>1 DEF RunInv, LocalityInv, PlanLocal
  <2>2. c \in OnPage(page)
    BY <1>1, <2>1
  <2> HIDE DEF c
  <2> QED
    BY <2>2 DEF OnPage
<1> HIDE DEF c, rest
<1>5. /\ one \in Seq(Sent) /\ two \in Seq(Sent) /\ Owned(one) = stays /\ Owned(two) = goes
      /\ InOrder(links, one) /\ InOrder(links, two)
  BY <1>3, OwningOwns, OwningInOrder
<1> HIDE DEF one, two
<1>6. /\ stays \subseteq c.targets /\ goes \subseteq c.targets /\ stays \cap escalate = {}
      /\ goes \subseteq escalate
  OBVIOUS
<1> HIDE DEF stays, goes
<1>7. Before(links, stays, goes)
  BY <1>1, <1>4, <1>6 DEF Before, HeadsEscalate
<1>8. /\ queue \o one \in Seq(Sent) /\ Owned(queue \o one) = Owned(queue) \cup stays
      /\ InOrder(links, queue \o one)
  <2>1. Before(links, Owned(queue), stays)
    BY <1>2, <1>3, <1>6 DEF Before
  <2>2. queue \in Seq(Chunk) /\ one \in Seq(Chunk)
    <3> HIDE DEF Sent, Chunk
    <3> QED
      BY <1>2, <1>5
  <2>3. InOrder(links, queue \o one)
    BY <1>2, <1>5, <2>1, <2>2, OrderConcat
  <2> QED
    BY <1>2, <1>5, <2>3, OwnedConcat
<1>9. /\ Owned(queue') = Owned(queue) \cup stays \cup goes
      /\ InOrder(links, queue')
  <2>1. Before(links, Owned(queue) \cup stays, goes)
    BY <1>2, <1>3, <1>6, <1>7 DEF Before
  <2>2. queue \o one \in Seq(Chunk) /\ two \in Seq(Chunk)
    <3> HIDE DEF Sent, Chunk
    <3> QED
      BY <1>2, <1>5, <1>8
  <2>3. InOrder(links, queue')
    BY <1>1, <1>5, <1>8, <2>1, <2>2, OrderConcat
  <2>4. Owned((queue \o one) \o two) = Owned(queue \o one) \cup Owned(two)
    BY <1>2, <1>5, <1>8, OwnedConcat
  <2> QED
    BY <1>1, <1>5, <1>8, <2>3, <2>4
<1>10. Before(links, Owned(queue) \cup stays \cup goes, Owned(rest))
  BY <1>2, <1>3, <1>6 DEF Before
<1>11. (pc = "route" => Before(links, Owned(queue), Owned(chunks)))'
  BY <1>1, <1>9, <1>10
<1> QED
  BY <1>1, <1>3, <1>6, <1>9, <1>11 DEF QueueInOrder

LEMMA QueueOrderNext ==
    ASSUME RunInv, WorkInOrder, HeadsEscalate, [Next]_vars
    PROVE  QueueInOrder'
<1>1. /\ EndsLinks /\ InOrder(links, queue) /\ queue \in Seq(Chunk)
      /\ InOrder(links', queue)
  BY StepsEndLinks, RunSequences, OrdersStay DEF WorkInOrder
<1>2. CASE RouteChunk
  BY <1>2, RouteKeepsOrder
<1>3. CASE KeepPlan
  <2>1. queue' = chunks /\ UNCHANGED links /\ pc = "plan" /\ pc' = "chunk"
    BY <1>3 DEF KeepPlan, planVars
  <2> QED
    BY <2>1 DEF WorkInOrder, QueueInOrder
<1>4. CASE RoutePlan
  <2>1. UNCHANGED <<queue, links>> /\ pc = "plan" /\ pc' = "route"
    BY <1>4 DEF RoutePlan, planVars
  <2>2. queue = <<>> /\ Owned(queue') = {}
    BY <2>1, OwnedNone DEF WorkInOrder
  <2>3. (pc = "route" => Before(links, Owned(queue), Owned(chunks)))'
    BY <2>2, NothingInOrder
  <2> QED
    BY <1>1, <2>1, <2>3 DEF QueueInOrder
<1>5. CASE StartChunk
  <2>1. queue # <<>> /\ queue' = Tail(queue) /\ UNCHANGED links /\ pc' \in {"sub", "attempt"}
    BY <1>5 DEF StartChunk, planVars
  <2>2. InOrder(links, Tail(queue))
    BY <1>1, <2>1, OrderHead
  <2> QED
    BY <2>1, <2>2 DEF QueueInOrder
<1>6. CASE /\ UNCHANGED queue /\ pc' # "route"
           /\ pc' \in {"page", "plan"} => pc \in {"page", "plan"} \/ queue = <<>>
  BY <1>1, <1>6 DEF QueueInOrder, WorkInOrder
<1>7. CASE UNCHANGED vars
  <2>1. UNCHANGED <<pc, queue, links, chunks>>
    BY <1>7 DEF vars, driverVars, pageVars, planVars
  <2> QED
    BY <2>1 DEF QueueInOrder, WorkInOrder
<1>8. \/ RouteChunk \/ KeepPlan \/ RoutePlan \/ StartChunk \/ UNCHANGED vars
      \/ /\ UNCHANGED queue /\ pc' # "route"
         /\ pc' \in {"page", "plan"} => pc \in {"page", "plan"} \/ queue = <<>>
  BY DEF Next, RunStep, Abort, Terminated, StartPage, PlanStep, ProducerCall, driverVars, pageVars,
         EndRouting, EndPage, EndPages, Answered, Retry, AttemptsExhausted, DomainError,
         FatalError, Descend, OpenDescent, GiveUpChunk, StartSub, StarveSub, EndChunk,
         ReconcileJoin, JoinsDone, AcceptLine, TargetsDone, AdjacencyPass, PreserveBreakChars,
         LossPolicyPass, DeriveDecisions
<1> QED
  BY <1>2, <1>3, <1>4, <1>5, <1>6, <1>7, <1>8

(* What is left of the descent, and of the page after it. *)
DescentInOrder ==
    /\ InItem => InOrder(links, subs) /\ Before(links, Owned(subs), Owned(queue))
    /\ InItem /\ pc # "sub" => Before(links, cur.targets, Owned(subs) \cup Owned(queue))

(* The next chunk in line is taken. *)
LEMMA NextInLine ==
    ASSUME NEW lk, NEW s \in Seq(Sent), s # <<>>, InOrder(lk, s), NEW T, Before(lk, Owned(s), T)
    PROVE  /\ InOrder(lk, Tail(s)) /\ Before(lk, Owned(Tail(s)), T)
           /\ Before(lk, Head(s).targets, Owned(Tail(s)) \cup T)
<1>1. /\ InOrder(lk, Tail(s)) /\ Before(lk, Head(s).targets, Owned(Tail(s)))
      /\ Owned(s) = Head(s).targets \cup Owned(Tail(s))
  <2>1. Sent \in SUBSET Chunk
    BY DEF Sent
  <2> QED
    BY <2>1, OrderHead, OwnedHead
<1> QED
  BY <1>1 DEF Before

LEMMA DescentOrderNext ==
    ASSUME RunInv, WorkInOrder, [Next]_vars
    PROVE  DescentInOrder'
<1>1. /\ queue \in Seq(Sent) /\ Owned(queue) \in SUBSET Lines /\ InOrder(links, queue)
      /\ InItem => /\ subs \in Seq(Sent) /\ subs \in Seq(Chunk) /\ cur.targets \in SUBSET Lines
                   /\ Owned(subs) \in SUBSET Lines
                   /\ InOrder(links, subs) /\ Before(links, Owned(subs), Owned(queue))
      /\ InItem /\ pc # "sub" => Before(links, cur.targets, Owned(subs) \cup Owned(queue))
  BY RunSequences DEF WorkInOrder
<1>2. CASE StartChunk
  <2>1. /\ queue # <<>> /\ queue' = Tail(queue) /\ cur' = Head(queue) /\ subs' = <<>>
        /\ UNCHANGED links
    BY <1>2 DEF StartChunk, planVars
  <2>2. Before(links, Owned(queue), {})
    BY DEF Before
  <2>3. Before(links, Head(queue).targets, Owned(Tail(queue)) \cup {})
    BY <1>1, <2>1, <2>2, NextInLine
  <2>4. Owned(subs') = {} /\ InOrder(links, subs') /\ Before(links, {}, Owned(queue'))
    BY <2>1, OwnedNone, NothingInOrder
  <2>5. Before(links, cur'.targets, {} \cup Owned(queue'))
    BY <2>1, <2>3 DEF Before
  <2> QED
    BY <2>1, <2>4, <2>5 DEF DescentInOrder
<1>3. CASE StartSub \/ StarveSub
  <2>1. /\ UNCHANGED <<links, queue>> /\ subs # <<>> /\ subs' = Tail(subs) /\ InItem
        /\ cur' = Head(subs) \/ pc' = "sub"
    BY <1>3 DEF StartSub, StarveSub, pageVars, planVars, InItem
  <2>2. /\ InOrder(links, Tail(subs)) /\ Before(links, Owned(Tail(subs)), Owned(queue))
        /\ Before(links, Head(subs).targets, Owned(Tail(subs)) \cup Owned(queue))
    BY <1>1, <2>1, NextInLine
  <2> QED
    BY <2>1, <2>2 DEF DescentInOrder
<1>4. CASE OpenDescent
  <2>1. /\ UNCHANGED <<links, queue>> /\ subs' = chunks \o subs /\ pc' = "sub" /\ InItem
        /\ pc = "replan" /\ planning = "idle"
    BY <1>4 DEF OpenDescent, pageVars, planVars, InItem
  <2>2. /\ chunks \in Seq(Sent) /\ chunks \in Seq(Chunk) /\ Owned(chunks) = cur.targets
        /\ InOrder(links, chunks)
    BY <2>1, PlanIsSent DEF RunInv, CoverInv, PlanUnderWay, PlanInv, PlanTypeOK, WorkInOrder
  <2>3. Before(links, Owned(chunks), Owned(subs)) /\ Before(links, Owned(chunks), Owned(queue))
    BY <1>1, <2>1, <2>2 DEF Before
  <2>4. InOrder(links, chunks \o subs)
    BY <1>1, <2>1, <2>2, <2>3, OrderConcat
  <2>5. Owned(chunks \o subs) = Owned(chunks) \cup Owned(subs)
    BY <1>1, <2>1, <2>2, OwnedConcat, Sent \in SUBSET Chunk DEF Sent
  <2>6. Before(links, Owned(chunks) \cup Owned(subs), Owned(queue))
    BY <1>1, <2>1, <2>3 DEF Before
  <2> QED
    BY <2>1, <2>4, <2>5, <2>6 DEF DescentInOrder
<1>5. CASE DomainError
  <2>1. subs' = <<>> /\ pc' = "sub" /\ Owned(subs') = {}
    BY <1>5, OwnedNone DEF DomainError
  <2> QED
    BY <2>1, NothingInOrder DEF DescentInOrder
<1>6. CASE /\ UNCHANGED <<queue, subs, cur>> /\ (InItem' => InItem)
           /\ (InItem' /\ pc' # "sub" => pc # "sub")
  <2>1. EndsLinks
    BY StepsEndLinks
  <2>2. UNCHANGED <<Owned(queue), Owned(subs)>>
    BY <1>6
  <2>3. InItem => /\ InOrder(links', subs) /\ Before(links', Owned(subs), Owned(queue))
                  /\ pc # "sub" => Before(links', cur.targets, Owned(subs) \cup Owned(queue))
    BY <1>1, <2>1, OrdersStay
  <2> QED
    BY <1>6, <2>2, <2>3 DEF DescentInOrder
<1>7. \/ StartChunk \/ StartSub \/ StarveSub \/ OpenDescent \/ DomainError
      \/ ~InItem'
      \/ /\ UNCHANGED <<queue, subs, cur>> /\ (InItem' => InItem)
         /\ (InItem' /\ pc' # "sub" => pc # "sub")
      \/ pc' = "sub" /\ UNCHANGED <<queue, subs, cur>> /\ InItem
  BY DEF Next, RunStep, Abort, Terminated, StartPage, PlanStep, KeepPlan, RoutePlan, RouteChunk,
         EndRouting, EndPage, EndPages, Answered, Retry, AttemptsExhausted, ProducerCall,
         FatalError, Descend, GiveUpChunk, EndChunk, ReconcileJoin, JoinsDone, AcceptLine,
         TargetsDone, AdjacencyPass, PreserveBreakChars, LossPolicyPass, DeriveDecisions,
         vars, driverVars, pageVars, chunkVars, InItem
<1>8. CASE pc' = "sub" /\ UNCHANGED <<queue, subs, cur>> /\ InItem
  BY <1>6, <1>8
<1>9. CASE ~InItem'
  BY <1>9 DEF DescentInOrder
<1> QED
  BY <1>2, <1>3, <1>4, <1>5, <1>6, <1>7, <1>8, <1>9

LEMMA WorkOrderNext ==
    ASSUME RunInv, AskedInv, WorkInOrder, HeadsEscalate, [Next]_vars
    PROVE  WorkInOrder'
<1>1. (WorkInOrder <=> /\ (pc \in {"plan", "replan", "route"} => InOrder(links, chunks))
                       /\ QueueInOrder /\ DescentInOrder)'
  BY DEF WorkInOrder, QueueInOrder, DescentInOrder
<1> QED
  BY <1>1, PlanOrderNext, QueueOrderNext, DescentOrderNext

(* A unit escalates whole; a line outside every unit has no head. *)
LEMMA HeadsEscalateNext ==
    ASSUME HeadsEscalate, [Next]_vars
    PROVE  HeadsEscalate'
<1>1. CASE RoutePlan
  <2> DEFINE P == PageLines(page)
  <2>1. PICK lone, seeds \in SUBSET P :
            /\ \A l \in lone : links.role[l] = "NONE"
            /\ escalate' = lone \cup units_containing(links, seeds, P)
    BY <1>1 DEF RoutePlan, Escalated, Skippable
  <2>2. UNCHANGED <<links, page>>
    BY <1>1 DEF RoutePlan, planVars
  <2>3. ASSUME NEW t \in P, NEW h \in P, t \in escalate', forward_partner_ref(links, t) = h
        PROVE  h \in escalate'
    <3>1. h # NoLine /\ t \notin lone
      BY <2>1, <2>3 DEF forward_partner_ref, PageLines, Lines, NoLine
    <3>2. PICK s \in seeds : s \in P /\ t \in Unit(links, s, P)
      <4>1. t \in seeds => t \in Unit(links, t, P)
        BY <2>1, UnitHoldsLine
      <4> QED
        BY <2>1, <2>3, <3>1, <4>1 DEF units_containing
    <3>3. h \in Linked(links, t, P)
      BY <2>3, <3>1 DEF Linked, forward_partner_ref
    <3>4. h \in Unit(links, s, P)
      <4> DEFINE next == [m \in P |-> Linked(links, m, P)]
      <4>1. /\ \A y \in P : next[y] \subseteq P
            /\ h \in next[t] /\ Unit(links, s, P) = Reachable(s, P, next)
        BY <3>3 DEF Linked, Unit
      <4> HIDE DEF next
      <4> QED
        BY <3>2, <4>1, ReachableClosed
    <3> QED
      BY <2>1, <3>2, <3>4 DEF units_containing
  <2>4. PageLines(page)' = P
    BY <2>2 DEF PageLines
  <2> HIDE DEF P
  <2> QED
    BY <2>2, <2>3, <2>4 DEF HeadsEscalate
<1>2. CASE pc = "route" /\ UNCHANGED <<links, page, escalate>>
  BY <1>2 DEF HeadsEscalate, PageLines
<1>3. RoutePlan \/ pc' # "route" \/ (pc = "route" /\ UNCHANGED <<links, page, escalate>>)
  BY DEF Next, RunStep, Abort, Terminated, StartPage, PlanStep, KeepPlan, RouteChunk, ProducerCall,
         EndRouting, EndPage, EndPages, StartChunk, Answered, Retry, AttemptsExhausted, DomainError,
         FatalError, Descend, OpenDescent, GiveUpChunk, StartSub, StarveSub, EndChunk,
         ReconcileJoin, JoinsDone, AcceptLine, TargetsDone, AdjacencyPass, PreserveBreakChars,
         LossPolicyPass, DeriveDecisions, vars, driverVars, planVars, pageVars
<1> QED
  BY <1>1, <1>2, <1>3 DEF HeadsEscalate

-----------------------------------------------------------------------------
(* Who writes a correction. *)
ChangesOnly(S) == \A l \in Lines : Changed(l)' => Changed(l) \/ l \in S

LEMMA WritersChange ==
    /\ UNCHANGED ledger => ChangesOnly({})
    /\ \A why : fall_back(why) => ChangesOnly({})
    /\ \A respell : renormalise(respell) /\ (\A l \in DOMAIN respell : respell[l] = Source)
                        => ChangesOnly({})
    /\ \A final : accept(final) => ChangesOnly({l \in DOMAIN final : final[l] # Source})
  BY DEF ChangesOnly, Changed, ledger, fall_back, renormalise, accept

LEMMA OthersChangeNothing ==
    ASSUME [Next]_vars
    PROVE  ReconcileJoin \/ AcceptLine \/ ChangesOnly({})
<1>1. CASE RoutePlan
  <2>1. PICK skip : accept([l \in skip |-> Source])
    BY <1>1 DEF RoutePlan
  <2> DEFINE final == [l \in skip |-> Source]
  <2>2. accept(final) /\ {l \in DOMAIN final : final[l] # Source} = {}
    BY <2>1
  <2> HIDE DEF final
  <2>3. ChangesOnly({l \in DOMAIN final : final[l] # Source})
    BY <2>2, WritersChange
  <2> QED
    BY <2>2, <2>3
<1>2. CASE GiveUpChunk \/ StarveSub
  <2>1. \E why : fall_back(why)
    BY <1>2 DEF GiveUpChunk, StarveSub, ChunkFallback
  <2> QED
    BY <2>1, WritersChange
<1>3. CASE DomainError
  <2>1. UNCHANGED ledger \/ \E why : fall_back(why)
    BY <1>3 DEF DomainError, AbsorbError, ledger
  <2> QED
    BY <2>1, WritersChange
<1>4. CASE AdjacencyPass \/ LossPolicyPass
  <2>1. \E why : fall_back(why)
    BY <1>4 DEF AdjacencyPass, LossPolicyPass, UnitReverts
  <2> QED
    BY <2>1, WritersChange
<1>5. CASE PreserveBreakChars
  <2> DEFINE respell == [l \in {m \in Lines : text[m] = "glyph"} |-> Source]
  <2>1. renormalise(respell) /\ \A l \in DOMAIN respell : respell[l] = Source
    BY <1>5 DEF PreserveBreakChars
  <2> HIDE DEF respell
  <2> QED
    BY <2>1, WritersChange
<1>6. \/ RoutePlan \/ AcceptLine \/ ReconcileJoin \/ GiveUpChunk \/ StarveSub \/ DomainError
      \/ AdjacencyPass \/ LossPolicyPass \/ PreserveBreakChars \/ UNCHANGED ledger
  BY DEF Next, RunStep, Abort, Terminated, StartPage, PlanStep, KeepPlan, RouteChunk,
         EndRouting, EndPage, EndPages, StartChunk, Answered, Retry, AttemptsExhausted,
         FatalError, Descend, OpenDescent, StartSub, EndChunk,
         JoinsDone, TargetsDone, DeriveDecisions, vars
<1> QED
  BY <1>1, <1>2, <1>3, <1>4, <1>5, <1>6, WritersChange

LEMMA LineChanges ==
    ASSUME AcceptLine
    PROVE  \E l \in todo : ChangesOnly({l})
<1>1. PICK l \in todo : DecideTarget(l)
  BY DEF AcceptLine
<1>2. UNCHANGED ledger \/ (\E why : fall_back(why)) \/ \E p : accept([m \in {l} |-> p])
  BY <1>1 DEF DecideTarget
<1>3. ASSUME NEW p, accept([m \in {l} |-> p])
      PROVE  ChangesOnly({l})
  <2> DEFINE final == [m \in {l} |-> p]
  <2>1. accept(final) /\ DOMAIN final = {l}
    BY <1>3
  <2> HIDE DEF final
  <2> QED
    BY <2>1, WritersChange DEF ChangesOnly
<1>4. CASE UNCHANGED ledger \/ \E why : fall_back(why)
  BY <1>4, WritersChange DEF ChangesOnly
<1> QED
  BY <1>2, <1>3, <1>4

(* The join walked is the one whose tail comes first. *)
LEMMA JoinChanges ==
    ASSUME ReconcileJoin
    PROVE  \E j \in joins : /\ \A k \in joins : j[1] =< k[1]
                            /\ joins' = joins \ {j}
                            /\ ChangesOnly({j[1], j[2]})
<1>1. PICK j \in joins :
          /\ \A k \in joins : j[1] =< k[1]
          /\ joins' = joins \ {j}
          /\ \/ /\ "fallback" \in {status[j[1]], status[j[2]]}
                /\ fall_back([m \in {j[1], j[2]} |-> "pair"])
             \/ /\ "fallback" \notin {status[j[1]], status[j[2]]}
                /\ \E p1 \in TailTexts(j[1]), p2 \in HeadTexts(j[2]) :
                      \/ /\ PairStands(j[1], p1, p2)
                         /\ accept([m \in {j[1], j[2]} |-> IF m = j[1] THEN p1 ELSE p2])
                      \/ PairFalls(p1, p2) /\ fall_back([m \in {j[1], j[2]} |-> "pair"])
  BY DEF ReconcileJoin
<1>2. ASSUME NEW p1, NEW p2, accept([m \in {j[1], j[2]} |-> IF m = j[1] THEN p1 ELSE p2])
      PROVE  ChangesOnly({j[1], j[2]})
  <2> DEFINE final == [m \in {j[1], j[2]} |-> IF m = j[1] THEN p1 ELSE p2]
  <2>1. accept(final) /\ DOMAIN final = {j[1], j[2]}
    BY <1>2
  <2> HIDE DEF final
  <2> QED
    BY <2>1, WritersChange DEF ChangesOnly
<1>3. ASSUME fall_back([m \in {j[1], j[2]} |-> "pair"])
      PROVE  ChangesOnly({j[1], j[2]})
  <2>1. ChangesOnly({})
    BY <1>3, WritersChange
  <2> QED
    BY <2>1 DEF ChangesOnly
<1> QED
  BY <1>1, <1>2, <1>3

-----------------------------------------------------------------------------
(* Who is waiting. *)
LEMMA OwnedOnPage ==
    ASSUME NEW p, NEW s \in Seq(OnPage(p))
    PROVE  Owned(s) \subseteq PageLines(p)
<1>1. \A k \in DOMAIN s : s[k] \in OnPage(p)
  <2> HIDE DEF OnPage
  <2> QED
    OBVIOUS
<1> QED
  BY <1>1 DEF Owned, OnPage

LEMMA WaitingOnPage ==
    ASSUME RunInv
    PROVE  Waiting \subseteq PageLines(page)
<1>1. /\ Owned(queue) \subseteq PageLines(page)
      /\ InItem => Owned(subs) \subseteq PageLines(page) /\ cur.targets \subseteq PageLines(page)
      /\ pc = "route" => Owned(chunks) \subseteq PageLines(page)
  BY RunSequences, OwnedOnPage DEF RunInv, LocalityInv, ItemLocal, PlanLocal
<1> QED
  BY <1>1 DEF Waiting, InItem

LEMMA WaitingShrinks ==
    ASSUME RunInv, WorkInOrder, HeadsEscalate, [Next]_vars
    PROVE  KeepPlan \/ RoutePlan \/ Waiting' \subseteq Waiting
<1>1. /\ queue \in Seq(Sent) /\ Sent \in SUBSET Chunk
      /\ InItem => subs \in Seq(Sent)
  BY RunSequences DEF Sent
<1>2. CASE RouteChunk
  <2>1. /\ Owned(queue') \subseteq Owned(queue) \cup Owned(chunks)
        /\ Owned(chunks') \subseteq Owned(chunks)
        /\ pc = "route" /\ pc' = "route"
    BY <1>2, RouteKeepsOrder DEF RouteChunk
  <2> QED
    BY <2>1 DEF Waiting, InItem
<1>3. CASE StartChunk
  <2>1. /\ queue # <<>> /\ queue' = Tail(queue) /\ cur' = Head(queue) /\ subs' = <<>>
        /\ pc' \in {"sub", "attempt"}
    BY <1>3 DEF StartChunk
  <2>2. Owned(queue) = Head(queue).targets \cup Owned(Tail(queue)) /\ Owned(subs') = {}
    BY <1>1, <2>1, OwnedHead, OwnedNone
  <2> QED
    BY <2>1, <2>2 DEF Waiting
<1>4. CASE StartSub \/ StarveSub
  <2>1. /\ UNCHANGED queue /\ subs # <<>> /\ subs' = Tail(subs) /\ InItem
        /\ pc' = "sub" \/ (pc' = "attempt" /\ cur' = Head(subs))
    BY <1>4 DEF StartSub, StarveSub, pageVars, InItem
  <2>2. Owned(subs) = Head(subs).targets \cup Owned(Tail(subs))
    BY <1>1, <2>1, OwnedHead
  <2> QED
    BY <2>1, <2>2 DEF Waiting
<1>5. CASE OpenDescent
  <2>1. /\ UNCHANGED queue /\ subs' = chunks \o subs /\ pc' = "sub" /\ InItem
        /\ pc = "replan" /\ planning = "idle"
    BY <1>5 DEF OpenDescent, pageVars, InItem
  <2>2. chunks \in Seq(Sent) /\ Owned(chunks) = cur.targets
    BY <2>1, PlanIsSent DEF RunInv, CoverInv, PlanUnderWay
  <2>3. Owned(chunks \o subs) = cur.targets \cup Owned(subs)
    <3>1. Sent \in SUBSET Chunk /\ chunks \in Seq(Sent) /\ subs \in Seq(Sent)
      BY <1>1, <2>1, <2>2
    <3>2. Owned(chunks \o subs) = Owned(chunks) \cup Owned(subs)
      BY <3>1, OwnedConcat
    <3> QED
      BY <2>2, <3>2
  <2> QED
    BY <2>1, <2>3 DEF Waiting
<1>6. CASE DomainError
  <2>1. UNCHANGED queue /\ subs' = <<>> /\ pc' = "sub" /\ Owned(subs') = {}
    BY <1>6, OwnedNone DEF DomainError, pageVars
  <2> QED
    BY <2>1 DEF Waiting
<1>7. CASE /\ UNCHANGED <<queue, subs, cur>> /\ (InItem' => InItem)
           /\ pc' # "route"
           /\ pc' \in {"attempt", "failure", "replan"} => pc \in {"attempt", "failure", "replan"}
  <2>1. UNCHANGED <<Owned(queue), Owned(subs)>>
    BY <1>7
  <2> QED
    BY <1>7, <2>1 DEF Waiting
<1>8. CASE UNCHANGED vars
  <2>1. UNCHANGED <<pc, queue, subs, cur, chunks>>
    BY <1>8 DEF vars, driverVars, pageVars, chunkVars, planVars
  <2> QED
    BY <2>1 DEF Waiting, InItem
<1>9. \/ KeepPlan \/ RoutePlan \/ RouteChunk \/ StartChunk \/ StartSub \/ StarveSub \/ OpenDescent
      \/ DomainError \/ UNCHANGED vars
      \/ /\ UNCHANGED <<queue, subs, cur>> /\ (InItem' => InItem)
         /\ pc' # "route"
         /\ pc' \in {"attempt", "failure", "replan"} => pc \in {"attempt", "failure", "replan"}
  BY DEF Next, RunStep, Abort, Terminated, StartPage, PlanStep, EndRouting, EndPage, EndPages,
         Answered, Retry, AttemptsExhausted, ProducerCall, FatalError, Descend, GiveUpChunk,
         EndChunk, ReconcileJoin, JoinsDone, AcceptLine, TargetsDone, AdjacencyPass,
         PreserveBreakChars, LossPolicyPass, DeriveDecisions,
         driverVars, pageVars, chunkVars, InItem
<1> QED
  BY <1>2, <1>3, <1>4, <1>5, <1>6, <1>7, <1>8, <1>9

-----------------------------------------------------------------------------
(* What a join of the chunk being decided is. *)
LEMMA JoinFacts ==
    ASSUME RunInv, AskedInv, StandsInv, pc = "reconcile", NEW j \in joins
    PROVE  /\ j = <<j[1], j[2]>> /\ j[1] \in Lines /\ j[2] \in PageLines(page) /\ j[1] < j[2]
           /\ \/ j[1] \in cur.targets /\ forward_partner_ref(links, j[1]) = j[2]
              \/ /\ j[2] \in cur.targets /\ j[1] \in partners
                 /\ backward_partner_ref(links, j[2]) = j[1]
<1>1. /\ cur.targets \subseteq PageLines(page) /\ PageLines(page) \subseteq Lines
      /\ partners \subseteq Lines /\ LinksNear(links) /\ j \in ClaimedJoins(cur.targets)
  BY RunSequences DEF InItem, PageLines, RunInv, LocalityInv, ItemLocal, AskedInv, PlanHeads,
                      StandsInv, JoinsAtSource
<1>2. CASE \E t \in cur.targets : /\ forward_partner_ref(links, t) \in PageLines(page)
                                  /\ j = <<t, forward_partner_ref(links, t)>>
  <2>1. PICK t \in cur.targets : /\ forward_partner_ref(links, t) \in PageLines(page)
                                 /\ j = <<t, forward_partner_ref(links, t)>>
    BY <1>2
  <2>2. t < forward_partner_ref(links, t)
    BY <1>1, <2>1 DEF LinksNear
  <2> QED
    BY <1>1, <2>1, <2>2
<1>3. CASE \E h \in cur.targets : /\ backward_partner_ref(links, h) \in partners
                                  /\ j = <<backward_partner_ref(links, h), h>>
  <2>1. PICK h \in cur.targets : /\ backward_partner_ref(links, h) \in partners
                                 /\ j = <<backward_partner_ref(links, h), h>>
    BY <1>3
  <2>2. backward_partner_ref(links, h) < h
    BY <1>1, <2>1 DEF LinksNear
  <2> QED
    BY <1>1, <2>1, <2>2
<1> QED
  BY <1>1, <1>2, <1>3 DEF ClaimedJoins

(* Nobody waiting has a head in S, or is one. *)
Harmless(S) ==
    /\ \A l \in S : PageOf[l] =< page
    /\ \A t \in Waiting, h \in PageLines(page) : forward_partner_ref(links, t) = h => h \notin S
    /\ \A h \in Waiting : backward_partner_ref(links, h) \in partners => h \notin S

LEMMA JoinIsHarmless ==
    ASSUME RunInv, AskedInv, StandsInv, pc = "reconcile", NEW j \in joins
    PROVE  Harmless({j[1], j[2]})
<1> DEFINE t == j[1]
           h == j[2]
<1>1. /\ t \in Lines /\ h \in PageLines(page) /\ t < h
      /\ \/ t \in cur.targets /\ forward_partner_ref(links, t) = h
         \/ h \in cur.targets /\ t \in partners /\ backward_partner_ref(links, h) = t
  BY JoinFacts
<1>2. /\ Before(links, cur.targets, Waiting)
      /\ cur.targets \subseteq PageLines(page)
  <2>1. Before(links, cur.targets, Owned(subs) \cup Owned(queue))
    BY DEF StandsInv, WorkInOrder, InItem
  <2>2. Waiting \subseteq Owned(subs) \cup Owned(queue)
    BY DEF Waiting
  <2>3. cur.targets \subseteq PageLines(page)
    BY RunSequences DEF InItem
  <2> QED
    BY <2>1, <2>2, <2>3 DEF Before
<1>3. /\ \A m \in partners : m \in Lines /\ PageOf[m] # page
      /\ page \in Nat /\ Waiting \subseteq PageLines(page)
  BY WaitingOnPage DEF AskedInv, PartnersAway, InItem, RunInv, LocalityInv, ItemLocal
<1> HIDE DEF t, h
<1>4. \A l \in {t, h} : PageOf[l] =< page
  <2>1. PageOf[t] =< PageOf[h] /\ PageOf[h] = page /\ page =< page
    BY <1>1, <1>3, LayoutAssumption DEF PageLines
  <2> QED
    BY <2>1
<1>5. ASSUME NEW x \in Waiting, NEW y \in PageLines(page), forward_partner_ref(links, x) = y
      PROVE  y \notin {t, h}
  <2>1. x \in Lines /\ y \in Lines
    BY <1>3, <1>5 DEF PageLines
  <2>2. y # t
    BY <1>1, <1>2, <1>3, <1>5 DEF Before, PageLines
  <2>3. y # h
    <3>1. CASE t \in cur.targets /\ forward_partner_ref(links, t) = h
      <4>1. y = h => x = t
        BY <1>1, <1>5, <2>1, <3>1 DEF StandsInv, OneWay
      <4> QED
        BY <1>2, <1>5, <3>1, <4>1 DEF Before
    <3>2. CASE h \in cur.targets
      BY <1>2, <1>5, <3>2 DEF Before
    <3> QED
      BY <1>1, <3>1, <3>2
  <2> QED
    BY <2>2, <2>3
<1>6. ASSUME NEW x \in Waiting, backward_partner_ref(links, x) \in partners
      PROVE  x \notin {t, h}
  <2>1. x # t
    BY <1>1, <1>2, <1>3, <1>6 DEF Before, PageLines
  <2>2. x # h
    <3>1. CASE t \in cur.targets /\ forward_partner_ref(links, t) = h
      <4>1. backward_partner_ref(links, h) \in partners => backward_partner_ref(links, h) = t
        BY <1>1, <1>3, <3>1 DEF StandsInv, OneWay, PageLines
      <4>2. PageOf[t] = page
        BY <1>2, <3>1 DEF PageLines
      <4> QED
        BY <1>3, <1>6, <4>1, <4>2
    <3>2. CASE h \in cur.targets
      BY <1>2, <1>6, <3>2 DEF Before
    <3> QED
      BY <1>1, <3>1, <3>2
  <2> QED
    BY <2>1, <2>2
<1> QED
  BY <1>4, <1>5, <1>6 DEF Harmless, t, h

LEMMA LineIsHarmless ==
    ASSUME RunInv, AskedInv, StandsInv, pc = "accept", NEW l \in todo
    PROVE  Harmless({l})
<1>1. l \in cur.targets /\ cur.targets \subseteq PageLines(page) /\ page \in Nat
  BY RunSequences DEF InItem, RunInv, LocalityInv, ItemLocal, StandsInv, JoinsAtSource
<1>2. Before(links, cur.targets, Waiting)
  <2>1. Before(links, cur.targets, Owned(subs) \cup Owned(queue))
    BY DEF StandsInv, WorkInOrder, InItem
  <2>2. Waiting \subseteq Owned(subs) \cup Owned(queue)
    BY DEF Waiting
  <2> QED
    BY <2>1, <2>2 DEF Before
<1>3. PageOf[l] =< page
  BY <1>1 DEF PageLines
<1> QED
  BY <1>1, <1>2, <1>3 DEF Harmless, Before

(* A step of the page being processed that changes harmless lines only. *)
LEMMA HeadsStay ==
    ASSUME RunInv, HeadsAtSource, EndsLinks, UNCHANGED <<page, partners>>,
           Waiting' \subseteq Waiting, \A l \in Lines : Ahead(l)' => Ahead(l),
           NEW S, ChangesOnly(S), Harmless(S), \A l \in S : ~Ahead(l)'
    PROVE  HeadsAtSource'
<1>1. partners \subseteq Lines /\ NoLine \notin Lines
  BY DEF RunInv, LocalityInv, ItemLocal, Lines, NoLine
<1>2. ASSUME NEW l \in Lines, Ahead(l)'
      PROVE  ~Changed(l)'
  BY <1>2 DEF HeadsAtSource, ChangesOnly
<1>3. ASSUME NEW t \in Waiting', NEW h \in PageLines(page), forward_partner_ref(links', t) = h
      PROVE  ~Changed(h)'
  <2>1. t \in Waiting /\ t \in Lines /\ h \in Lines
    BY <1>3 DEF Waiting, PageLines
  <2>2. forward_partner_ref(links, t) = h
    BY <1>1, <1>3, <2>1 DEF EndsLinks
  <2> QED
    BY <2>1, <2>2 DEF HeadsAtSource, ChangesOnly, Harmless
<1>4. ASSUME NEW h \in Waiting', backward_partner_ref(links', h) \in partners
      PROVE  ~Changed(h)'
  <2>1. h \in Waiting /\ h \in Lines
    BY <1>4 DEF Waiting
  <2>2. backward_partner_ref(links, h) \in partners
    BY <1>1, <1>4, <2>1 DEF EndsLinks
  <2> QED
    BY <2>1, <2>2 DEF HeadsAtSource, ChangesOnly, Harmless
<1>5. PageLines(page)' = PageLines(page) /\ partners' = partners
  BY DEF PageLines
<1> QED
  BY <1>2, <1>3, <1>4, <1>5 DEF HeadsAtSource

LEMMA HeadsAtSourceNext ==
    ASSUME RunInv, AskedInv, StandsInv, [Next]_vars
    PROVE  HeadsAtSource'
<1>1. /\ HeadsAtSource /\ EndsLinks /\ WorkInOrder /\ HeadsEscalate /\ page \in Nat
      /\ partners \subseteq Lines
  BY StepsEndLinks DEF StandsInv, RunInv, LocalityInv, ItemLocal
<1>2. CASE ReconcileJoin
  <2>1. PICK j \in joins : ChangesOnly({j[1], j[2]})
    BY <1>2, JoinChanges
  <2>2. /\ pc = "reconcile" /\ UNCHANGED <<page, partners, pc>>
        /\ Waiting' \subseteq Waiting
    <3>1. ~KeepPlan /\ ~RoutePlan
      BY <1>2 DEF ReconcileJoin, KeepPlan, RoutePlan
    <3> QED
      BY <1>1, <1>2, <3>1, WaitingShrinks DEF ReconcileJoin, pageVars
  <2>3. Harmless({j[1], j[2]}) /\ \A l \in Lines : Ahead(l)' => Ahead(l)
    BY <2>2, JoinIsHarmless DEF Ahead
  <2>4. j[1] \in Lines /\ j[2] \in Lines
    BY <2>2, JoinFacts DEF PageLines
  <2>5. \A l \in {j[1], j[2]} : ~Ahead(l)'
    <3>1. \A l \in {j[1], j[2]} : PageOf[l] =< page /\ PageOf[l] \in Nat
      BY <2>3, <2>4, LayoutAssumption DEF Harmless
    <3> QED
      BY <1>1, <2>2, <3>1 DEF Ahead
  <2> QED
    BY <1>1, <2>1, <2>2, <2>3, <2>5, HeadsStay
<1>3. CASE AcceptLine
  <2>1. PICK l \in todo : ChangesOnly({l})
    BY <1>3, LineChanges
  <2>2. /\ pc = "accept" /\ UNCHANGED <<page, partners, pc>>
        /\ Waiting' \subseteq Waiting
    <3>1. ~KeepPlan /\ ~RoutePlan
      BY <1>3 DEF AcceptLine, KeepPlan, RoutePlan
    <3> QED
      BY <1>1, <1>3, <3>1, WaitingShrinks DEF AcceptLine, pageVars
  <2>3. Harmless({l}) /\ \A m \in Lines : Ahead(m)' => Ahead(m)
    BY <2>2, LineIsHarmless DEF Ahead
  <2>4. l \in Lines
    BY <2>2 DEF RunInv, LocalityInv, ItemLocal, PageLines
  <2>5. \A m \in {l} : ~Ahead(m)'
    <3>1. PageOf[l] =< page /\ PageOf[l] \in Nat
      BY <2>3, <2>4, LayoutAssumption DEF Harmless
    <3> QED
      BY <1>1, <2>2, <3>1 DEF Ahead
  <2> QED
    BY <1>1, <2>1, <2>2, <2>3, <2>5, HeadsStay
<1>4. CASE ChangesOnly({}) /\ (KeepPlan \/ RoutePlan)
  <2>1. pc = "plan" /\ UNCHANGED <<page, partners>> /\ pc' \in {"route", "chunk"}
    BY <1>4 DEF KeepPlan, RoutePlan
  <2>2. \A l \in Lines : PageOf[l] >= page => Ahead(l) /\ ~Changed(l)'
    BY <1>1, <1>4, <2>1, LayoutAssumption DEF Ahead, HeadsAtSource, ChangesOnly
  <2>3. \A l \in PageLines(page) : ~Changed(l)'
    BY <1>1, <2>2 DEF PageLines
  <2>4. \A l \in Lines : Ahead(l)' => ~Changed(l)'
    BY <1>1, <2>1, <2>2, LayoutAssumption DEF Ahead
  <2>5. Waiting' \subseteq PageLines(page)
    <3>1. RunInv'
      BY RunNext
    <3>2. (RunInv => Waiting \subseteq PageLines(page))'
      BY WaitingOnPage, PTL
    <3>3. PageLines(page)' = PageLines(page)
      BY <2>1 DEF PageLines
    <3> QED
      BY <3>1, <3>2, <3>3
  <2>6. PageLines(page)' = PageLines(page)
    BY <2>1 DEF PageLines
  <2> QED
    BY <2>3, <2>4, <2>5, <2>6 DEF HeadsAtSource
<1>5. CASE ChangesOnly({}) /\ (StartPage \/ EndPage)
  <2>1. /\ pc' \in {"plan", "page"} /\ UNCHANGED queue
        /\ queue = <<>>
        /\ \/ page' = page /\ pc = "page"
           \/ page' = page + 1 /\ pc' = "page"
    BY <1>1, <1>5 DEF StartPage, EndPage, WorkInOrder
  <2>2. Waiting' = {}
    BY <2>1, OwnedNone DEF Waiting, InItem
  <2>3. \A l \in Lines : Ahead(l)' => Ahead(l)
    BY <1>1, <2>1, LayoutAssumption DEF Ahead
  <2> QED
    BY <1>1, <1>5, <2>2, <2>3 DEF HeadsAtSource, ChangesOnly
<1>6. CASE /\ ChangesOnly({}) /\ UNCHANGED <<page, partners>> /\ ~KeepPlan /\ ~RoutePlan
           /\ pc' \in {"page", "plan"} => pc \in {"page", "plan"}
  <2>1. Waiting' \subseteq Waiting
    BY <1>1, <1>6, WaitingShrinks
  <2>2. Harmless({}) /\ \A l \in Lines : Ahead(l)' => Ahead(l)
    BY <1>6 DEF Harmless, Ahead
  <2>3. \A l \in {} : ~Ahead(l)'
    OBVIOUS
  <2> QED
    BY <1>1, <1>6, <2>1, <2>2, <2>3, HeadsStay
<1>7. \/ StartPage \/ EndPage
      \/ /\ UNCHANGED <<page, partners>>
         /\ pc' \in {"page", "plan"} => pc \in {"page", "plan"}
  BY DEF Next, RunStep, Abort, Terminated, PlanStep, KeepPlan, RoutePlan, RouteChunk,
         EndRouting, EndPages, StartChunk, Answered, Retry, AttemptsExhausted, DomainError,
         FatalError, Descend, OpenDescent, GiveUpChunk, StartSub, StarveSub, EndChunk, ProducerCall,
         ReconcileJoin, JoinsDone, AcceptLine, TargetsDone, AdjacencyPass, PreserveBreakChars,
         LossPolicyPass, DeriveDecisions, vars, driverVars, pageVars
<1> QED
  BY <1>2, <1>3, <1>4, <1>5, <1>6, <1>7, OthersChangeNothing

(* Walking one join leaves the heads of the others alone. *)
LEMMA OtherHeadsStay ==
    ASSUME RunInv, AskedInv, StandsInv, pc = "reconcile", NEW j \in joins, NEW k \in joins, k # j,
           j[1] =< k[1]
    PROVE  k[2] \notin {j[1], j[2]}
<1>1. /\ j = <<j[1], j[2]>> /\ j[1] \in Lines /\ j[2] \in PageLines(page)
      /\ \/ j[1] \in cur.targets /\ forward_partner_ref(links, j[1]) = j[2]
         \/ j[1] \in partners /\ backward_partner_ref(links, j[2]) = j[1]
      /\ k = <<k[1], k[2]>> /\ k[1] \in Lines /\ k[2] \in PageLines(page) /\ k[1] < k[2]
      /\ \/ k[1] \in cur.targets /\ forward_partner_ref(links, k[1]) = k[2]
         \/ k[1] \in partners /\ backward_partner_ref(links, k[2]) = k[1]
  BY JoinFacts
<1>2. PageLines(page) \subseteq Lines /\ Lines \subseteq Int
  BY DEF PageLines, Lines
<1>3. k[2] # j[1]
  <2>1. k[1] \in Int /\ k[2] \in Int /\ j[1] \in Int
    BY <1>1, <1>2
  <2> QED
    BY <1>1, <2>1
<1>4. ASSUME k[2] = j[2]
      PROVE  FALSE
  <2>1. k[1] # j[1]
    BY <1>1, <1>4
  <2>2. OneWay(links) /\ j[2] \in Lines
    BY <1>1, <1>2 DEF StandsInv
  <2>3. CASE /\ forward_partner_ref(links, j[1]) = j[2]
             /\ forward_partner_ref(links, k[1]) = j[2]
    BY <1>1, <2>1, <2>2, <2>3 DEF OneWay
  <2>4. CASE /\ forward_partner_ref(links, j[1]) = j[2]
             /\ backward_partner_ref(links, j[2]) = k[1]
    BY <1>1, <2>1, <2>2, <2>4 DEF OneWay
  <2>5. CASE /\ backward_partner_ref(links, j[2]) = j[1]
             /\ forward_partner_ref(links, k[1]) = j[2]
    BY <1>1, <2>1, <2>2, <2>5 DEF OneWay
  <2>6. CASE /\ backward_partner_ref(links, j[2]) = j[1]
             /\ backward_partner_ref(links, j[2]) = k[1]
    BY <2>1, <2>6
  <2> QED
    BY <1>1, <1>4, <2>3, <2>4, <2>5, <2>6
<1> QED
  BY <1>3, <1>4

LEMMA JoinsAtSourceNext ==
    ASSUME RunInv, AskedInv, StandsInv, [Next]_vars
    PROVE  JoinsAtSource'
<1>1. JoinsAtSource /\ HeadsAtSource /\ page \in Nat
  BY DEF StandsInv, RunInv, LocalityInv, ItemLocal
<1>2. CASE Answered
  <2>1. /\ pc = "attempt" /\ pc' = "reconcile" /\ joins' = ClaimedJoins(cur.targets)
        /\ todo' = cur.targets /\ UNCHANGED <<cur, links, page, partners, text>>
    BY <1>2 DEF Answered, ProducerCall, planVars, pageVars, ledger
  <2>2. \A l \in cur.targets : l \in Waiting
    BY <2>1, RunSequences DEF Waiting, InItem
  <2>3. ASSUME NEW j \in ClaimedJoins(cur.targets)
        PROVE  ~Changed(j[2])'
    <3>1. CASE \E t \in cur.targets : /\ forward_partner_ref(links, t) \in PageLines(page)
                                      /\ j = <<t, forward_partner_ref(links, t)>>
      <4>1. ~Changed(j[2])
        BY <1>1, <2>2, <3>1 DEF HeadsAtSource
      <4> QED
        BY <2>1, <4>1 DEF Changed
    <3>2. CASE \E h \in cur.targets : /\ backward_partner_ref(links, h) \in partners
                                      /\ j = <<backward_partner_ref(links, h), h>>
      <4>1. ~Changed(j[2])
        BY <1>1, <2>2, <3>2 DEF HeadsAtSource
      <4> QED
        BY <2>1, <4>1 DEF Changed
    <3> QED
      BY <2>3, <3>1, <3>2 DEF ClaimedJoins
  <2>4. ClaimedJoins(cur.targets)' = ClaimedJoins(cur.targets)
    BY <2>1 DEF ClaimedJoins, PageLines
  <2> QED
    BY <2>1, <2>3, <2>4 DEF JoinsAtSource
<1>3. CASE ReconcileJoin
  <2>1. PICK j \in joins : /\ \A k \in joins : j[1] =< k[1]
                           /\ joins' = joins \ {j}
                           /\ ChangesOnly({j[1], j[2]})
    BY <1>3, JoinChanges
  <2>2. pc = "reconcile" /\ UNCHANGED <<pc, cur, links, page, partners, todo>>
    BY <1>3 DEF ReconcileJoin, planVars, pageVars, chunkVars
  <2>3. ASSUME NEW k \in joins'
        PROVE  ~Changed(k[2])'
    <3>1. k \in joins /\ k # j
      BY <2>1
    <3>2. k[2] \notin {j[1], j[2]}
      BY <2>1, <2>2, <3>1, OtherHeadsStay
    <3>3. k[2] \in Lines /\ ~Changed(k[2])
      BY <1>1, <2>2, <3>1, JoinFacts DEF JoinsAtSource, PageLines
    <3> QED
      BY <2>1, <3>2, <3>3 DEF ChangesOnly
  <2>4. ClaimedJoins(cur.targets)' = ClaimedJoins(cur.targets)
    BY <2>2 DEF ClaimedJoins, PageLines
  <2> QED
    BY <1>1, <2>1, <2>2, <2>3, <2>4 DEF JoinsAtSource
<1>4. CASE UNCHANGED vars
  <2>1. UNCHANGED <<pc, todo, cur, joins, links, page, partners, text>>
    BY <1>4 DEF vars, driverVars, planVars, pageVars, chunkVars, decideVars, ledger
  <2>2. ClaimedJoins(cur.targets)' = ClaimedJoins(cur.targets)
    BY <2>1 DEF ClaimedJoins, PageLines
  <2> QED
    BY <1>1, <2>1, <2>2 DEF JoinsAtSource, Changed
<1>5. CASE /\ pc' = "accept" /\ pc \in {"reconcile", "accept"}
           /\ UNCHANGED cur /\ todo' \subseteq todo
  BY <1>1, <1>5 DEF JoinsAtSource
<1>6. \/ Answered \/ ReconcileJoin \/ UNCHANGED vars \/ pc' \notin {"reconcile", "accept"}
      \/ /\ pc' = "accept" /\ pc \in {"reconcile", "accept"}
         /\ UNCHANGED cur /\ todo' \subseteq todo
  BY DEF Next, RunStep, Abort, Terminated, StartPage, PlanStep, KeepPlan, RoutePlan, RouteChunk,
         EndRouting, EndPage, EndPages, StartChunk, Retry, AttemptsExhausted, DomainError,
         FatalError, Descend, OpenDescent, GiveUpChunk, StartSub, StarveSub, EndChunk, ProducerCall,
         JoinsDone, AcceptLine, TargetsDone, AdjacencyPass, PreserveBreakChars,
         LossPolicyPass, DeriveDecisions, driverVars, chunkVars, decideVars
<1> QED
  BY <1>2, <1>3, <1>4, <1>5, <1>6 DEF JoinsAtSource

LEMMA StandsNext == RunInv /\ AskedInv /\ StandsInv /\ [Next]_vars => StandsInv'
<1> SUFFICES ASSUME RunInv, AskedInv, StandsInv, [Next]_vars
             PROVE  StandsInv'
  OBVIOUS
<1>1. OneWay(links)'
  <2>1. OneWay(links) /\ EndsLinks
    BY StepsEndLinks DEF StandsInv
  <2>2. OneWay(links')
    BY <2>1, OneWayStays
  <2> QED
    BY <2>2 DEF OneWay
<1>2. WorkInOrder' /\ HeadsEscalate'
  BY WorkOrderNext, HeadsEscalateNext DEF StandsInv
<1> QED
  BY <1>1, <1>2, HeadsAtSourceNext, JoinsAtSourceNext DEF StandsInv

-----------------------------------------------------------------------------
(* What a step does to a correction that stands before and after it. *)
Kept(l) == Changed(l) /\ status'[l] = "corrected" => text'[l] = text[l]

LEMMA WritersKeep ==
    /\ UNCHANGED ledger => \A l \in Lines : Kept(l)
    /\ \A why : fall_back(why) => \A l \in Lines : Kept(l)
    /\ \A final : accept(final) /\ (\A l \in DOMAIN final : ~Changed(l) \/ final[l] = text[l])
                      => \A l \in Lines : Kept(l)
  BY DEF Kept, ledger, fall_back, accept

LEMMA StepsKeep ==
    ASSUME RunInv, AskedInv, StandsInv, [Next]_vars, pc # "breaks"
    PROVE  \A l \in Lines : Kept(l)
<1>1. CASE RoutePlan
  <2>1. PICK skip \in SUBSET PageLines(page) : accept([l \in skip |-> Source])
    BY <1>1 DEF RoutePlan, Skippable
  <2> DEFINE final == [l \in skip |-> Source]
  <2>2. accept(final) /\ DOMAIN final = skip
    BY <2>1
  <2>3. \A l \in skip : ~Changed(l)
    BY <1>1 DEF StandsInv, HeadsAtSource, Ahead, PageLines, RoutePlan
  <2> HIDE DEF final
  <2> QED
    BY <2>2, <2>3, WritersKeep
<1>2. CASE AcceptLine
  <2>1. PICK k \in todo : DecideTarget(k)
    BY <1>2 DEF AcceptLine
  <2>2. \/ UNCHANGED ledger \/ \E why : fall_back(why)
        \/ text[k] = NoText /\ \E p : accept([m \in {k} |-> p])
    BY <2>1 DEF DecideTarget
  <2>3. ASSUME NEW p, text[k] = NoText, accept([m \in {k} |-> p])
        PROVE  \A l \in Lines : Kept(l)
    <3> DEFINE final == [m \in {k} |-> p]
    <3>1. accept(final) /\ DOMAIN final = {k} /\ ~Changed(k)
      BY <2>3 DEF Changed
    <3> HIDE DEF final
    <3> QED
      BY <3>1, WritersKeep
  <2> QED
    BY <2>2, <2>3, WritersKeep
<1>3. CASE ReconcileJoin
  <2>1. PICK j \in joins :
            \/ fall_back([m \in {j[1], j[2]} |-> "pair"])
            \/ \E p1 \in TailTexts(j[1]), p2 \in HeadTexts(j[2]) :
                  accept([m \in {j[1], j[2]} |-> IF m = j[1] THEN p1 ELSE p2])
    BY <1>3 DEF ReconcileJoin
  <2>2. ~Changed(j[2]) /\ pc = "reconcile"
    BY <1>3 DEF ReconcileJoin, StandsInv, JoinsAtSource
  <2>3. ASSUME NEW p1 \in TailTexts(j[1]), NEW p2,
               accept([m \in {j[1], j[2]} |-> IF m = j[1] THEN p1 ELSE p2])
        PROVE  \A l \in Lines : Kept(l)
    <3> DEFINE final == [m \in {j[1], j[2]} |-> IF m = j[1] THEN p1 ELSE p2]
    <3>1. accept(final) /\ DOMAIN final = {j[1], j[2]} /\ final[j[1]] = p1
      BY <2>3
    <3>2. ~Changed(j[1]) \/ p1 = text[j[1]]
      BY DEF TailTexts, Changed
    <3> HIDE DEF final
    <3> QED
      BY <2>2, <3>1, <3>2, WritersKeep
  <2>4. ASSUME fall_back([m \in {j[1], j[2]} |-> "pair"])
        PROVE  \A l \in Lines : Kept(l)
    BY <2>4, WritersKeep
  <2> QED
    BY <2>1, <2>3, <2>4
<1>4. CASE GiveUpChunk \/ StarveSub
  <2>1. \E why : fall_back(why)
    BY <1>4 DEF GiveUpChunk, StarveSub, ChunkFallback
  <2> QED
    BY <2>1, WritersKeep
<1>5. CASE DomainError
  <2>1. UNCHANGED ledger \/ \E why : fall_back(why)
    BY <1>5 DEF DomainError, AbsorbError, ledger
  <2> QED
    BY <2>1, WritersKeep
<1>6. CASE AdjacencyPass \/ LossPolicyPass
  <2>1. \E why : fall_back(why)
    BY <1>6 DEF AdjacencyPass, LossPolicyPass, UnitReverts
  <2> QED
    BY <2>1, WritersKeep
<1>7. \/ RoutePlan \/ AcceptLine \/ ReconcileJoin \/ GiveUpChunk \/ StarveSub \/ DomainError
      \/ AdjacencyPass \/ LossPolicyPass \/ UNCHANGED ledger
  BY DEF Next, RunStep, Abort, Terminated, StartPage, PlanStep, KeepPlan, RouteChunk,
         EndRouting, EndPage, EndPages, StartChunk, Answered, Retry, AttemptsExhausted,
         FatalError, Descend, OpenDescent, StartSub, EndChunk,
         JoinsDone, TargetsDone, PreserveBreakChars, DeriveDecisions, vars
<1> QED
  BY <1>1, <1>2, <1>3, <1>4, <1>5, <1>6, <1>7, WritersKeep

LEMMA StandsInit ==
    ASSUME \A lk \in LinkChoices : Symmetric(lk)
    PROVE  Init => StandsInv
<1>1. SUFFICES ASSUME Init
               PROVE  StandsInv
  OBVIOUS
<1>2. OneWay(links)
  <2>1. WellLinked(links) /\ Symmetric(links)
    BY <1>1, LinkChoicesAssumption DEF Init
  <2>2. \A l \in Lines : l # NoLine
    BY DEF Lines, NoLine
  <2> QED
    BY <2>1, <2>2 DEF OneWay, WellLinked, Symmetric
<1>3. queue = <<>> /\ pc = "page" /\ Owned(queue) = {}
  BY <1>1, OwnedNone DEF Init
<1>4. WorkInOrder /\ HeadsEscalate
  BY <1>3, NothingInOrder DEF WorkInOrder, HeadsEscalate, InItem
<1>5. Waiting = {} /\ \A l \in Lines : ~Changed(l)
  BY <1>1, <1>3 DEF Init, Waiting, InItem, Changed, LedgerInit
<1>6. HeadsAtSource /\ JoinsAtSource
  BY <1>3, <1>5 DEF HeadsAtSource, JoinsAtSource
<1> QED
  BY <1>2, <1>4, <1>6 DEF StandsInv

(* A decided correction is kept as it is or taken away (reconcile.py: the  *)
(* response "would silently substitute raw OCR for the correction it       *)
(* already earned"): for every document, plan, policy and producer, when   *)
(* links agree from both ends, go down the page, and no further than a     *)
(* window may grow.                                                        *)
THEOREM CorrectionsStand ==
    ASSUME \A lk \in LinkChoices : LinksNear(lk) /\ Symmetric(lk)
    PROVE  Spec => CorrectionStands
<1>1. Init => AskedInv
  BY AskedInit
<1>2. Init => StandsInv
  BY StandsInit
<1>3. RunInv /\ AskedInv /\ StandsInv /\ [Next]_vars
          => [\A l \in Lines : Changed(l) /\ status'[l] = "corrected" /\ pc # "breaks"
                                   => text'[l] = text[l]]_vars
  BY StepsKeep DEF Kept
<1> QED
  BY <1>1, <1>2, <1>3, AskedNext, StandsNext, RunInit, RunNext, PTL DEF Spec, CorrectionStands

-----------------------------------------------------------------------------
(* Two halves of a word (reconcile.py, acceptance.py, outcome.py).  What   *)
(* follows is about links whose units are pairs: a line that both          *)
(* continues a word and opens the next one belongs to two pairs, and a     *)
(* join on one side of it may take back what the other side decided.       *)

(* No line carries two words, and a line outside every pair has no slot. *)
InPairs(lk) ==
    \A l \in Lines :
        /\ lk.role[l] # "BOTH" /\ lk.forward[l] = NoLine
        /\ lk.role[l] = "NONE" => lk.pair[l] = NoLine

Paired(lk) == lk \in LinkSpace /\ Symmetric(lk) /\ InPairs(lk)

(* In a pair both slots name the other line. *)
LEMMA PairSlots ==
    ASSUME NEW lk, Paired(lk), NEW l \in Lines, NEW m \in Lines
    PROVE  /\ forward_partner_ref(lk, l) = m <=> lk.role[l] = "PART1" /\ lk.pair[l] = m
           /\ backward_partner_ref(lk, m) = l <=> lk.role[m] = "PART2" /\ lk.pair[m] = l
           /\ forward_partner_ref(lk, l) = m <=> backward_partner_ref(lk, m) = l
           /\ lk.pair[l] = m => lk.pair[m] = l
           /\ lk.pair[l] = m =>
                 forward_partner_ref(lk, l) = m \/ forward_partner_ref(lk, m) = l
<1>1. l # NoLine /\ m # NoLine
  BY DEF Lines, NoLine
<1>2. /\ lk.role[l] \in {"NONE", "PART1", "PART2"} /\ lk.role[m] \in {"NONE", "PART1", "PART2"}
      /\ lk.role[l] = "NONE" => lk.pair[l] = NoLine
      /\ lk.role[m] = "NONE" => lk.pair[m] = NoLine
  BY DEF Paired, InPairs, LinkSpace, Roles
<1>3. forward_partner_ref(lk, l) = m <=> lk.role[l] = "PART1" /\ lk.pair[l] = m
  BY <1>1, <1>2 DEF forward_partner_ref
<1>4. backward_partner_ref(lk, m) = l <=> lk.role[m] = "PART2" /\ lk.pair[m] = l
  BY <1>1, <1>2 DEF backward_partner_ref
<1>5. /\ forward_partner_ref(lk, l) = m <=> backward_partner_ref(lk, m) = l
      /\ forward_partner_ref(lk, m) = l <=> backward_partner_ref(lk, l) = m
  BY DEF Paired, Symmetric
<1>6. backward_partner_ref(lk, l) = m <=> lk.role[l] = "PART2" /\ lk.pair[l] = m
  BY <1>1, <1>2 DEF backward_partner_ref
<1>7. forward_partner_ref(lk, m) = l <=> lk.role[m] = "PART1" /\ lk.pair[m] = l
  BY <1>1, <1>2 DEF forward_partner_ref
<1> QED
  BY <1>1, <1>2, <1>3, <1>4, <1>5, <1>6, <1>7

(* A unit is the line and what its slot names. *)
LEMMA PairUnit ==
    ASSUME NEW lk, Paired(lk), NEW pool \in SUBSET Lines, NEW l \in pool
    PROVE  Unit(lk, l, pool) = {l} \cup ({lk.pair[l]} \cap pool)
<1> DEFINE next == [m \in pool |-> Linked(lk, m, pool)]
           T == {l} \cup ({lk.pair[l]} \cap pool)
<1>1. \A y \in pool : Linked(lk, y, pool) = {lk.pair[y]} \cap pool
  <2>1. \A y \in Lines : lk.forward[y] = NoLine /\ y # NoLine
    BY DEF Paired, InPairs, Lines, NoLine
  <2>2. \A y, z \in Lines : lk.pair[y] = z <=> lk.pair[z] = y
    BY PairSlots
  <2> QED
    BY <2>1, <2>2 DEF Linked
<1>2. T \in SUBSET pool /\ l \in T
  OBVIOUS
<1>3. \A y \in T : next[y] \subseteq T
  <2>1. lk.pair[l] \in pool => lk.pair[lk.pair[l]] = l
    BY PairSlots
  <2> QED
    BY <1>1, <2>1
<1>4. Unit(lk, l, pool) = Reachable(l, pool, next)
  BY DEF Unit
<1>5. Unit(lk, l, pool) \subseteq T
  <2> HIDE DEF T, next
  <2> QED
    BY <1>2, <1>3, <1>4, ReachableLeast
<1>6. T \subseteq Unit(lk, l, pool)
  BY <1>1, UnitHoldsLine, UnitHoldsNeighbour
<1> QED
  BY <1>5, <1>6

(* Neither half of a pair falls without the other, when the pool holds the *)
(* partners of the lines that fall.                                        *)
LEMMA FallsWithPartner ==
    ASSUME NEW lk, Paired(lk), NEW pool \in SUBSET Lines, NEW seeds \in SUBSET pool,
           \A s \in seeds : lk.pair[s] \in pool \cup {NoLine},
           NEW t \in Lines, NEW h \in Lines, forward_partner_ref(lk, t) = h
    PROVE  t \in units_containing(lk, seeds, pool) <=> h \in units_containing(lk, seeds, pool)
<1>1. lk.pair[t] = h /\ lk.pair[h] = t /\ t # NoLine /\ h # NoLine
  BY PairSlots DEF Lines, NoLine
<1>2. \A s \in seeds : Unit(lk, s, pool) = {s} \cup ({lk.pair[s]} \cap pool)
  BY PairUnit
<1>3. \A s \in seeds : s \in Lines /\ lk.pair[s] \in Lines => lk.pair[lk.pair[s]] = s
  BY PairSlots
<1>4. ASSUME NEW a \in Lines, NEW b \in Lines, lk.pair[a] = b, lk.pair[b] = a, a # NoLine,
             b # NoLine, a \in units_containing(lk, seeds, pool)
      PROVE  b \in units_containing(lk, seeds, pool)
  <2>1. PICK s \in seeds : a \in Unit(lk, s, pool) \/ a = s
    BY <1>4 DEF units_containing
  <2>2. a = s \/ b = s
    BY <1>2, <1>3, <1>4, <2>1
  <2>3. a = s => b \in Unit(lk, s, pool)
    BY <1>2, <1>4
  <2> QED
    BY <2>2, <2>3 DEF units_containing
<1> QED
  BY <1>1, <1>4

(* What is left of a pair is a pair, and only the LINE loop parts one. *)
LEMMA SplitLeavesPairs ==
    ASSUME NEW lk, Paired(lk), NEW tail \in Lines, NEW head \in Lines, tail # head,
           forward_partner_ref(lk, tail) = head,
           NEW new, new = split_forward_link(lk, tail, head)
    PROVE  /\ Paired(new)
           /\ \A l \in Lines : /\ new.pair[l] \in {lk.pair[l], NoLine}
                               /\ new.role[l] \in {lk.role[l], "NONE"}
<1>1. lk \in LinkSpace /\ Symmetric(lk) /\ InPairs(lk)
  BY DEF Paired
<1>2. new \in LinkSpace /\ Symmetric(new)
  BY <1>1, SplitPartners, SplitStaysSymmetric
<1>3. /\ lk.role \in [Lines -> Roles] /\ lk.pair \in [Lines -> Lines \cup {NoLine}]
      /\ lk.forward \in [Lines -> Lines \cup {NoLine}]
      /\ \A l \in Lines : lk.role[l] # "BOTH" /\ lk.forward[l] = NoLine
      /\ \A l \in Lines : lk.role[l] = "NONE" => lk.pair[l] = NoLine
  BY <1>1 DEF LinkSpace, InPairs
<1>4. /\ new.forward = lk.forward
      /\ \A l \in Lines : new.role[l] = IF l \in {tail, head} THEN "NONE" ELSE lk.role[l]
      /\ \A l \in Lines : new.pair[l] = IF l \in {tail, head} THEN NoLine ELSE lk.pair[l]
  BY <1>3 DEF split_forward_link
<1> QED
  BY <1>2, <1>3, <1>4 DEF Paired, InPairs

PairsPart ==
    /\ Paired(links')
    /\ \A l \in Lines : /\ links'.pair[l] \in {links.pair[l], NoLine}
                        /\ links'.role[l] \in {links.role[l], "NONE"}
    /\ PlanStep \/ UNCHANGED links

LEMMA PairsPartNext ==
    ASSUME OneLinePerId, RunInv, SeveringInv, Paired(links), [Next]_vars
    PROVE  PairsPart
<1>1. CASE UNCHANGED links
  BY <1>1 DEF PairsPart, Paired, Symmetric, InPairs
<1>2. CASE PlanStep
  <2>1. PlanNext /\ scope \in SUBSET Lines /\ at \in Nat \ {0}
    BY <1>2 DEF PlanStep, RunInv, CoverInv, PlanUnderWay, PlanTypeOK
  <2>2. CASE PlanLine
    <3>1. \/ UNCHANGED links
          \/ \E tail, head \in Lines :
                /\ tail # head /\ forward_partner_ref(links, tail) = head
                /\ links' = split_forward_link(links, tail, head)
      BY <2>1, <2>2, PlanLineSevers
    <3>2. ASSUME NEW tail \in Lines, NEW head \in Lines, tail # head,
                 forward_partner_ref(links, tail) = head,
                 links' = split_forward_link(links, tail, head)
          PROVE  PairsPart
      BY <1>2, <3>2, SplitLeavesPairs DEF PairsPart
    <3> QED
      BY <1>1, <3>1, <3>2
  <2> QED
    BY <1>1, <2>1, <2>2 DEF PlanNext, TryPage, TryBlock, TryWindow, CloseWindows, CloseLines
<1>3. PlanStep \/ UNCHANGED links
  BY DEF Next, RunStep, Abort, Terminated, StartPage, KeepPlan, RoutePlan, RouteChunk, BeginPlan,
         EndRouting, EndPage, EndPages, StartChunk, Answered, Retry, AttemptsExhausted, DomainError,
         FatalError, Descend, OpenDescent, GiveUpChunk, StartSub, StarveSub, EndChunk,
         ReconcileJoin, JoinsDone, AcceptLine, TargetsDone, AdjacencyPass, PreserveBreakChars,
         LossPolicyPass, DeriveDecisions, vars, planVars
<1> QED
  BY <1>1, <1>2, <1>3

-----------------------------------------------------------------------------
(* What is known of the pairs while a page is processed.                   *)

(* The page sees the partner of every line of it. *)
PartnersKnown ==
    pc \in {"plan", "route", "chunk"} \/ InItem =>
        \A l \in PageLines(page) : links.pair[l] \in Pool \cup {NoLine}

(* Acceptance starts when every join of the chunk has been walked. *)
JoinsSettle ==
    /\ pc = "accept" => joins = {}
    /\ pc \in {"reconcile", "accept"} =>
          \A j \in ClaimedJoins(cur.targets) :
              j \in joins \/ (status[j[1]] # "pending" /\ status[j[2]] # "pending")

(* A tail is never decided before its head on the page, and a half that    *)
(* fell never leaves the other one corrected.                              *)
PairsTogether ==
    \A t, h \in Lines : forward_partner_ref(links, t) = h =>
        /\ PageOf[t] = PageOf[h] /\ status[t] # "pending" => status[h] # "pending"
        /\ status[t] = "fallback" => ~Changed(h)
        /\ status[h] = "fallback" => ~Changed(t)

PairsInv == Paired(links) /\ SeveringInv /\ PartnersKnown /\ JoinsSettle /\ PairsTogether

LEMMA PartnersKnownNext ==
    ASSUME PartnersKnown, Paired(links), PairsPart, [Next]_vars
    PROVE  PartnersKnown'
<1>1. CASE StartPage
  <2>1. /\ partners' = CrossPagePartners(page) /\ UNCHANGED <<page, links>>
    BY <1>1 DEF StartPage, BeginPlan
  <2>2. \A l \in PageLines(page) : links.pair[l] \in Lines \cup {NoLine}
    BY DEF Paired, LinkSpace, PageLines
  <2> QED
    BY <2>1, <2>2 DEF PartnersKnown, CrossPagePartners, Pool, PageLines
<1>2. CASE pc' \in {"page", "adjacency", "breaks", "loss", "derive", "done", "failed"}
  BY <1>2 DEF PartnersKnown, InItem
<1>3. CASE UNCHANGED <<page, partners>> /\ (pc \in {"plan", "route", "chunk"} \/ InItem)
  <2>1. /\ Pool' = Pool /\ PageLines(page)' = PageLines(page) /\ PageLines(page) \subseteq Lines
    BY <1>3 DEF Pool, PageLines
  <2>2. \A l \in PageLines(page) : links'.pair[l] \in {links.pair[l], NoLine}
    BY <2>1 DEF PairsPart
  <2> QED
    BY <1>3, <2>1, <2>2 DEF PartnersKnown
<1>4. CASE UNCHANGED vars
  BY <1>4 DEF PartnersKnown, InItem, Pool, PageLines, vars, driverVars, pageVars, planVars
<1>5. \/ StartPage \/ UNCHANGED vars
      \/ pc' \in {"page", "adjacency", "breaks", "loss", "derive", "done", "failed"}
      \/ UNCHANGED <<page, partners>> /\ (pc \in {"plan", "route", "chunk"} \/ InItem)
  BY DEF Next, RunStep, Abort, Terminated, PlanStep, KeepPlan, RoutePlan, RouteChunk, ProducerCall,
         EndRouting, EndPage, EndPages, StartChunk, Answered, Retry, AttemptsExhausted, DomainError,
         FatalError, Descend, OpenDescent, GiveUpChunk, StartSub, StarveSub, EndChunk,
         ReconcileJoin, JoinsDone, AcceptLine, TargetsDone, AdjacencyPass, PreserveBreakChars,
         LossPolicyPass, DeriveDecisions, driverVars, pageVars, InItem
<1> QED
  BY <1>1, <1>2, <1>3, <1>4, <1>5

LEMMA JoinsSettleNext ==
    ASSUME RunInv, AskedInv, StandsInv, JoinsSettle, [Next]_vars
    PROVE  JoinsSettle'
<1>1. LedgerStep
  BY StepsMove DEF RunInv
<1>2. CASE Answered
  <2>1. /\ pc' = "reconcile" /\ joins' = ClaimedJoins(cur.targets)
        /\ UNCHANGED <<cur, links, page, partners>>
    BY <1>2 DEF Answered, planVars, pageVars
  <2>2. ClaimedJoins(cur.targets)' = ClaimedJoins(cur.targets)
    BY <2>1 DEF ClaimedJoins, PageLines
  <2> QED
    BY <2>1, <2>2 DEF JoinsSettle
<1>3. CASE /\ pc \in {"reconcile", "accept"} /\ pc' \in {"reconcile", "accept"}
           /\ UNCHANGED <<cur, links, page, partners>>
  <2>1. ClaimedJoins(cur.targets)' = ClaimedJoins(cur.targets)
    BY <1>3 DEF ClaimedJoins, PageLines
  <2>2. cur.targets \subseteq Lines /\ partners \subseteq Lines /\ PageLines(page) \subseteq Lines
    BY <1>3, RunSequences DEF InItem, RunInv, LocalityInv, ItemLocal, PageLines
  <2>3. \A j \in ClaimedJoins(cur.targets) : j[1] \in Lines /\ j[2] \in Lines
    BY <2>2 DEF ClaimedJoins
  <2>4. \A l \in Lines : status[l] # "pending" => status'[l] # "pending"
    BY <1>1, StaysDecided
  <2>5. CASE UNCHANGED <<joins, pc>>
    BY <1>3, <2>1, <2>3, <2>4, <2>5 DEF JoinsSettle
  <2>6. CASE JoinsDone
    BY <1>3, <2>1, <2>3, <2>4, <2>6 DEF JoinsSettle, JoinsDone, decideVars
  <2>7. CASE ReconcileJoin
    <3>1. PICK j \in joins :
              /\ joins' = joins \ {j}
              /\ \/ fall_back([m \in {j[1], j[2]} |-> "pair"])
                 \/ \E p1 \in TailTexts(j[1]), p2 \in HeadTexts(j[2]) :
                       accept([m \in {j[1], j[2]} |-> IF m = j[1] THEN p1 ELSE p2])
      BY <2>7 DEF ReconcileJoin
    <3>2. j[1] \in Lines /\ j[2] \in Lines
      BY <2>7, JoinFacts DEF ReconcileJoin, PageLines
    <3>3. status'[j[1]] # "pending" /\ status'[j[2]] # "pending"
      BY <3>1, <3>2 DEF fall_back, accept
    <3>4. pc = "reconcile" /\ pc' = "reconcile"
      BY <2>7 DEF ReconcileJoin
    <3> QED
      BY <1>3, <2>1, <2>3, <2>4, <3>1, <3>3, <3>4 DEF JoinsSettle
  <2>8. UNCHANGED <<joins, pc>> \/ JoinsDone \/ ReconcileJoin
    BY <1>3
    DEF Next, RunStep, Abort, Terminated, StartPage, PlanStep, KeepPlan, RoutePlan, RouteChunk,
        EndRouting, EndPage, EndPages, StartChunk, Answered, Retry, AttemptsExhausted, DomainError,
        FatalError, Descend, OpenDescent, GiveUpChunk, StartSub, StarveSub, EndChunk, ProducerCall,
        AcceptLine, TargetsDone, AdjacencyPass, PreserveBreakChars,
        LossPolicyPass, DeriveDecisions, vars, driverVars, decideVars
  <2> QED
    BY <2>5, <2>6, <2>7, <2>8
<1>4. \/ Answered \/ pc' \notin {"reconcile", "accept"}
      \/ /\ pc \in {"reconcile", "accept"} /\ pc' \in {"reconcile", "accept"}
         /\ UNCHANGED <<cur, links, page, partners>>
  BY DEF Next, RunStep, Abort, Terminated, StartPage, PlanStep, KeepPlan, RoutePlan, RouteChunk,
         EndRouting, EndPage, EndPages, StartChunk, Retry, AttemptsExhausted, DomainError,
         FatalError, Descend, OpenDescent, GiveUpChunk, StartSub, StarveSub, EndChunk, ProducerCall,
         ReconcileJoin, JoinsDone, AcceptLine, TargetsDone, AdjacencyPass, PreserveBreakChars,
         LossPolicyPass, DeriveDecisions, vars, driverVars, planVars, pageVars, chunkVars
<1> QED
  BY <1>2, <1>3, <1>4 DEF JoinsSettle

-----------------------------------------------------------------------------
(* What a step does to the two halves of a word. *)
Together(t, h) ==
    /\ PageOf[t] = PageOf[h] /\ status[t] # "pending" => status[h] # "pending"
    /\ status[t] = "fallback" => ~Changed(h)
    /\ status[h] = "fallback" => ~Changed(t)

LEMMA TogetherWritten ==
    ASSUME NEW t \in Lines, NEW h \in Lines, Together(t, h)
    PROVE  /\ UNCHANGED ledger => Together(t, h)'
           /\ \A why : fall_back(why) /\ (t \in DOMAIN why <=> h \in DOMAIN why) => Together(t, h)'
           /\ \A final : accept(final) /\ (t \in DOMAIN final <=> h \in DOMAIN final)
                             => Together(t, h)'
           /\ \A respell : renormalise(respell) /\ (\A l \in DOMAIN respell : respell[l] = Source)
                               => Together(t, h)'
<1>1. UNCHANGED ledger => Together(t, h)'
  BY DEF Together, Changed, ledger
<1>2. ASSUME NEW why, fall_back(why), t \in DOMAIN why <=> h \in DOMAIN why
      PROVE  Together(t, h)'
  BY <1>2 DEF Together, Changed, fall_back
<1>3. ASSUME NEW final, accept(final), t \in DOMAIN final <=> h \in DOMAIN final
      PROVE  Together(t, h)'
  BY <1>3 DEF Together, Changed, accept
<1>4. ASSUME NEW respell, renormalise(respell), \A l \in DOMAIN respell : respell[l] = Source
      PROVE  Together(t, h)'
  BY <1>4 DEF Together, Changed, renormalise
<1> QED
  BY <1>1, <1>2, <1>3, <1>4

(* A chunk that gives up, an absorbed error, a document-wide revert. *)
LEMMA FallsTogether ==
    ASSUME NEW t \in Lines, NEW h \in Lines, Together(t, h), forward_partner_ref(links, t) = h,
           Paired(links), NEW pool \in SUBSET Lines, NEW seeds \in SUBSET pool,
           \A s \in seeds : links.pair[s] \in pool \cup {NoLine},
           NEW why, fall_back(why), DOMAIN why = units_containing(links, seeds, pool)
    PROVE  Together(t, h)'
<1>1. t \in DOMAIN why <=> h \in DOMAIN why
  BY FallsWithPartner
<1> QED
  BY <1>1, TogetherWritten

LEMMA ItemFallsTogether ==
    ASSUME OneLinePerId, RunInv, PairsInv, GiveUpChunk \/ StarveSub \/ DomainError,
           NEW t \in Lines, NEW h \in Lines, Together(t, h), forward_partner_ref(links, t) = h
    PROVE  Together(t, h)'
<1>1. /\ InItem /\ partners \subseteq Lines /\ Pool \in SUBSET Lines
      /\ PageLines(page) \subseteq Pool
      /\ \A l \in PageLines(page) : links.pair[l] \in Pool \cup {NoLine}
  BY DEF GiveUpChunk, StarveSub, DomainError, ProducerCall, InItem, PairsInv, PartnersKnown,
         RunInv, LocalityInv, ItemLocal, Pool, PageLines
<1>2. ASSUME NEW c, c.targets \subseteq PageLines(page), ChunkFallback(c)
      PROVE  Together(t, h)'
  <2> DEFINE pulled == {m \in units_containing(links, c.targets, Pool) :
                           \A k \in c.targets : IdOf[m] # IdOf[k]}
             why == [m \in c.targets \cup pulled |->
                        IF m \in c.targets THEN "exhausted" ELSE "unit"]
  <2>1. fall_back(why)
    BY <1>2 DEF ChunkFallback
  <2>2. c.targets \in SUBSET Pool
    BY <1>1, <1>2
  <2>3. units_containing(links, c.targets, Pool) \subseteq Lines
        /\ c.targets \subseteq units_containing(links, c.targets, Pool)
    <3>1. \A s \in c.targets : Unit(links, s, Pool) \subseteq Pool
      BY <2>2, UnitHoldsLine
    <3> QED
      BY <1>1, <2>2, <3>1 DEF units_containing
  <2>4. c.targets \cup pulled = units_containing(links, c.targets, Pool)
    BY <2>3 DEF OneLinePerId
  <2>5. DOMAIN why = units_containing(links, c.targets, Pool)
    BY <2>4
  <2> HIDE DEF why
  <2> QED
    BY <1>1, <1>2, <2>1, <2>2, <2>5, FallsTogether DEF PairsInv
<1>3. CASE GiveUpChunk
  <2>1. ChunkFallback(cur) /\ cur.targets \subseteq PageLines(page)
    BY <1>1, <1>3, RunSequences DEF GiveUpChunk
  <2> QED
    BY <1>2, <2>1
<1>4. CASE StarveSub
  <2>1. ChunkFallback(Head(subs)) /\ subs # <<>> /\ subs \in Seq(OnPage(page))
    BY <1>1, <1>4 DEF StarveSub, RunInv, LocalityInv, ItemLocal
  <2>2. Head(subs) \in OnPage(page)
    <3> HIDE DEF OnPage
    <3> QED
      BY <2>1
  <2> QED
    BY <1>2, <2>1, <2>2 DEF OnPage
<1>5. CASE DomainError
  <2> DEFINE undecided == {l \in top.targets : status[l] = "pending"}
             why == [m \in units_containing(links, undecided, Pool) |-> "absorbed"]
  <2>1. UNCHANGED ledger \/ fall_back(why)
    BY <1>5 DEF DomainError, AbsorbError, ledger
  <2>2. undecided \subseteq PageLines(page)
    BY <1>1 DEF RunInv, LocalityInv, ItemLocal, OnPage
  <2>3. undecided \in SUBSET Pool /\ \A s \in undecided : links.pair[s] \in Pool \cup {NoLine}
    BY <1>1, <2>2
  <2>4. DOMAIN why = units_containing(links, undecided, Pool)
    OBVIOUS
  <2> HIDE DEF why, undecided
  <2> QED
    BY <1>1, <2>1, <2>3, <2>4, FallsTogether, TogetherWritten DEF PairsInv
<1> QED
  BY <1>3, <1>4, <1>5

LEMMA RevertsTogether ==
    ASSUME Paired(links), AdjacencyPass \/ LossPolicyPass,
           NEW t \in Lines, NEW h \in Lines, Together(t, h), forward_partner_ref(links, t) = h
    PROVE  Together(t, h)'
<1>1. PICK flagged, why1, why2 : flagged \in SUBSET Lines /\ UnitReverts(flagged, why1, why2)
  <2>1. CASE AdjacencyPass
    <3>1. PICK bad \in SUBSET Seams :
              UnitReverts(bad \cup {l + 1 : l \in bad}, "adjacency", "adjacency_unit")
      BY <2>1 DEF AdjacencyPass
    <3>2. bad \cup {l + 1 : l \in bad} \subseteq Lines
      BY DEF Seams
    <3> QED
      BY <3>1, <3>2
  <2>2. CASE LossPolicyPass
    BY <2>2 DEF LossPolicyPass
  <2> QED
    BY <2>1, <2>2
<1> DEFINE why == [m \in units_containing(links, flagged, Lines) |->
                      IF m \in flagged THEN why1 ELSE why2]
<1>2. fall_back(why) /\ DOMAIN why = units_containing(links, flagged, Lines)
  BY <1>1 DEF UnitReverts
<1>3. \A s \in flagged : links.pair[s] \in Lines \cup {NoLine}
  BY <1>1 DEF Paired, LinkSpace
<1> HIDE DEF why
<1> QED
  BY <1>1, <1>2, <1>3, FallsTogether

(* A page's router decides no half of a pair. *)
LEMMA RoutesTogether ==
    ASSUME Paired(links), RoutePlan,
           NEW t \in Lines, NEW h \in Lines, Together(t, h), forward_partner_ref(links, t) = h
    PROVE  Together(t, h)'
<1>1. PICK skip \in SUBSET Skippable(PageLines(page)) : accept([l \in skip |-> Source])
  BY DEF RoutePlan
<1>2. links.role[t] = "PART1" /\ links.role[h] = "PART2"
  BY PairSlots
<1>3. t \notin skip /\ h \notin skip
  BY <1>1, <1>2 DEF Skippable
<1> DEFINE final == [l \in skip |-> Source]
<1>4. accept(final) /\ DOMAIN final = skip
  BY <1>1
<1> HIDE DEF final
<1> QED
  BY <1>3, <1>4, TogetherWritten

(* A join writes both halves of one pair. *)
LEMMA JoinsTogether ==
    ASSUME RunInv, AskedInv, StandsInv, Paired(links), ReconcileJoin,
           NEW t \in Lines, NEW h \in Lines, Together(t, h), forward_partner_ref(links, t) = h
    PROVE  Together(t, h)'
<1>1. PICK j \in joins :
          \/ fall_back([m \in {j[1], j[2]} |-> "pair"])
          \/ \E p1 \in TailTexts(j[1]), p2 \in HeadTexts(j[2]) :
                accept([m \in {j[1], j[2]} |-> IF m = j[1] THEN p1 ELSE p2])
  BY DEF ReconcileJoin
<1>2. /\ j[1] \in Lines /\ j[2] \in Lines
      /\ \/ forward_partner_ref(links, j[1]) = j[2]
         \/ backward_partner_ref(links, j[2]) = j[1]
  BY JoinFacts DEF ReconcileJoin, PageLines
<1>3. links.pair[j[1]] = j[2] /\ links.pair[j[2]] = j[1] /\ links.pair[t] = h /\ links.pair[h] = t
  BY <1>2, PairSlots
<1>4. t \in {j[1], j[2]} <=> h \in {j[1], j[2]}
  BY <1>3
<1>5. ASSUME fall_back([m \in {j[1], j[2]} |-> "pair"])
      PROVE  Together(t, h)'
  <2> DEFINE why == [m \in {j[1], j[2]} |-> "pair"]
  <2>1. fall_back(why) /\ DOMAIN why = {j[1], j[2]}
    BY <1>5
  <2> HIDE DEF why
  <2> QED
    BY <1>4, <2>1, TogetherWritten
<1>6. ASSUME NEW p1, NEW p2, accept([m \in {j[1], j[2]} |-> IF m = j[1] THEN p1 ELSE p2])
      PROVE  Together(t, h)'
  <2> DEFINE final == [m \in {j[1], j[2]} |-> IF m = j[1] THEN p1 ELSE p2]
  <2>1. accept(final) /\ DOMAIN final = {j[1], j[2]}
    BY <1>6
  <2> HIDE DEF final
  <2> QED
    BY <1>4, <2>1, TogetherWritten
<1> QED
  BY <1>1, <1>5, <1>6

(* A line accepted by itself is no half of a pair the page still had to    *)
(* join: its head is on a later page, or its tail is as undecided as it.   *)
LEMMA UnjoinedHalves ==
    ASSUME RunInv, AskedInv, StandsInv, PairsInv, pc = "accept", NEW l \in todo, text[l] = NoText,
           NEW t \in Lines, NEW h \in Lines, forward_partner_ref(links, t) = h
    PROVE  /\ l \in Lines /\ status[l] = "pending" /\ t # h
           /\ l = t => ~Changed(h) /\ PageOf[h] # PageOf[l]
                       /\ h \in {links.pair[l], links.forward[l]} /\ Visible(h)
           /\ l = h => ~Changed(t) /\ status[t] = "pending"
<1>1. /\ l \in cur.targets /\ cur.targets \subseteq PageLines(page) /\ page \in Nat
      /\ partners \subseteq Lines /\ l \in PageLines(page) /\ l \in Lines
  BY RunSequences DEF InItem, RunInv, LocalityInv, ItemLocal, StandsInv, JoinsAtSource, PageLines
<1>2. \A k \in Lines : status[k] = "pending" <=> text[k] = NoText
  BY DEF RunInv, LedgerInv, DecisionsCoherent
<1>3. \A j \in ClaimedJoins(cur.targets) : status[j[1]] # "pending" /\ status[j[2]] # "pending"
  BY DEF PairsInv, JoinsSettle
<1>4. /\ links.pair[t] = h /\ links.pair[h] = t /\ backward_partner_ref(links, h) = t /\ t < h
      /\ t # NoLine /\ h # NoLine
  <2>1. t < h
    BY DEF AskedInv, PlanHeads, LinksNear
  <2> QED
    BY <2>1, PairSlots DEF PairsInv, Lines, NoLine
<1>5. \A k \in PageLines(page) : links.pair[k] \in Pool \cup {NoLine}
  BY DEF PairsInv, PartnersKnown, InItem
<1>6. ASSUME l = t
      PROVE  ~Changed(h) /\ PageOf[h] # PageOf[l] /\ Visible(h)
  <2>1. h \notin PageLines(page)
    <3>1. h \in PageLines(page) => <<l, h>> \in ClaimedJoins(cur.targets)
      BY <1>1, <1>6 DEF ClaimedJoins
    <3> QED
      BY <1>1, <1>2, <1>3, <3>1
  <2>2. PageOf[t] = page /\ PageOf[t] =< PageOf[h] /\ PageOf[h] # page /\ PageOf[h] \in Nat
    BY <1>1, <1>4, <1>6, <2>1, LayoutAssumption DEF PageLines
  <2>3. Ahead(h)
    BY <1>1, <2>2 DEF Ahead
  <2> QED
    BY <1>1, <1>4, <1>5, <1>6, <2>2, <2>3 DEF StandsInv, HeadsAtSource, Visible
<1>7. ASSUME l = h
      PROVE  status[t] = "pending"
  <2>1. t \notin partners
    <3>1. t \in partners => <<t, l>> \in ClaimedJoins(cur.targets)
      BY <1>1, <1>4, <1>7 DEF ClaimedJoins
    <3> QED
      BY <1>1, <1>2, <1>3, <3>1
  <2>2. t \in PageLines(page)
    BY <1>1, <1>4, <1>5, <1>7, <2>1 DEF Pool
  <2>3. PageOf[t] = PageOf[h]
    BY <1>1, <1>7, <2>2 DEF PageLines
  <2> QED
    BY <1>1, <1>2, <1>7, <2>3 DEF PairsInv, PairsTogether
<1>8. t # h
  <2>1. t \in Int /\ h \in Int
    BY DEF Lines
  <2> QED
    BY <1>4, <2>1
<1> QED
  BY <1>1, <1>2, <1>4, <1>6, <1>7, <1>8 DEF Changed

LEMMA LinesTogether ==
    ASSUME RunInv, AskedInv, StandsInv, PairsInv, AcceptLine,
           NEW t \in Lines, NEW h \in Lines, Together(t, h), forward_partner_ref(links, t) = h
    PROVE  Together(t, h)'
<1>1. PICK l \in todo : DecideTarget(l)
  BY DEF AcceptLine
<1>2. CASE UNCHANGED ledger
  BY <1>2, TogetherWritten
<1>3. CASE text[l] = NoText /\ l \notin {t, h}
  <2>1. (\E r : fall_back([m \in {l} |-> r])) \/ \E p : accept([m \in {l} |-> p])
    BY <1>1, <1>3 DEF DecideTarget
  <2>2. ASSUME NEW r, fall_back([m \in {l} |-> r])
        PROVE  Together(t, h)'
    <3> DEFINE why == [m \in {l} |-> r]
    <3>1. fall_back(why) /\ DOMAIN why = {l}
      BY <2>2
    <3> HIDE DEF why
    <3> QED
      BY <1>3, <3>1, TogetherWritten
  <2>3. ASSUME NEW p, accept([m \in {l} |-> p])
        PROVE  Together(t, h)'
    <3> DEFINE final == [m \in {l} |-> p]
    <3>1. accept(final) /\ DOMAIN final = {l}
      BY <2>3
    <3> HIDE DEF final
    <3> QED
      BY <1>3, <3>1, TogetherWritten
  <2> QED
    BY <2>1, <2>2, <2>3
<1>4. CASE text[l] = NoText /\ l \in {t, h}
  <2>1. /\ l \in Lines /\ status[l] = "pending" /\ t # h
        /\ l = t => ~Changed(h) /\ PageOf[h] # PageOf[l]
                    /\ h \in {links.pair[l], links.forward[l]} /\ Visible(h)
        /\ l = h => ~Changed(t) /\ status[t] = "pending"
    BY <1>4, UnjoinedHalves DEF AcceptLine
  <2>2. \/ \E r : fall_back([m \in {l} |-> r])
        \/ ~FallenPartner(l) /\ \E p : accept([m \in {l} |-> p])
    BY <1>1, <1>4 DEF DecideTarget
  <2>3. ASSUME NEW r, fall_back([m \in {l} |-> r])
        PROVE  Together(t, h)'
    <3>1. /\ status' = [k \in Lines |-> IF k = l THEN "fallback" ELSE status[k]]
          /\ text' = [k \in Lines |-> IF k = l THEN Source ELSE text[k]]
      BY <2>3 DEF fall_back
    <3> QED
      BY <1>4, <2>1, <3>1 DEF Together, Changed
  <2>4. ASSUME ~FallenPartner(l), NEW p, accept([m \in {l} |-> p])
        PROVE  Together(t, h)'
    <3>1. /\ status' = [k \in Lines |-> IF k = l THEN "corrected" ELSE status[k]]
          /\ text' = [k \in Lines |-> IF k = l THEN p ELSE text[k]]
      BY <2>4 DEF accept
    <3>2. l = t => status[h] # "fallback"
      BY <2>1, <2>4 DEF FallenPartner
    <3> QED
      BY <1>4, <2>1, <3>1, <3>2 DEF Together, Changed
  <2> QED
    BY <2>2, <2>3, <2>4
<1> QED
  BY <1>1, <1>2, <1>3, <1>4 DEF DecideTarget

LEMMA PairsTogetherNext ==
    ASSUME OneLinePerId, RunInv, AskedInv, StandsInv, PairsInv, PairsPart, [Next]_vars
    PROVE  PairsTogether'
<1>1. ASSUME NEW t \in Lines, NEW h \in Lines, forward_partner_ref(links, t) = h
      PROVE  Together(t, h)'
  <2>1. Together(t, h) /\ Paired(links)
    BY <1>1 DEF PairsInv, PairsTogether, Together
  <2>2. CASE GiveUpChunk \/ StarveSub \/ DomainError
    BY <1>1, <2>1, <2>2, ItemFallsTogether
  <2>3. CASE AdjacencyPass \/ LossPolicyPass
    BY <1>1, <2>1, <2>3, RevertsTogether
  <2>4. CASE RoutePlan
    BY <1>1, <2>1, <2>4, RoutesTogether
  <2>5. CASE ReconcileJoin
    BY <1>1, <2>1, <2>5, JoinsTogether
  <2>6. CASE AcceptLine
    BY <1>1, <2>1, <2>6, LinesTogether
  <2>7. CASE PreserveBreakChars
    <3> DEFINE respell == [l \in {m \in Lines : text[m] = "glyph"} |-> Source]
    <3>1. renormalise(respell) /\ \A l \in DOMAIN respell : respell[l] = Source
      BY <2>7 DEF PreserveBreakChars
    <3> HIDE DEF respell
    <3> QED
      BY <2>1, <3>1, TogetherWritten
  <2>8. CASE UNCHANGED ledger
    BY <2>1, <2>8, TogetherWritten
  <2>9. \/ RoutePlan \/ AcceptLine \/ ReconcileJoin \/ GiveUpChunk \/ StarveSub \/ DomainError
        \/ AdjacencyPass \/ LossPolicyPass \/ PreserveBreakChars \/ UNCHANGED ledger
    BY DEF Next, RunStep, Abort, Terminated, StartPage, PlanStep, KeepPlan, RouteChunk,
           EndRouting, EndPage, EndPages, StartChunk, Answered, Retry, AttemptsExhausted,
           FatalError, Descend, OpenDescent, StartSub, EndChunk,
           JoinsDone, TargetsDone, DeriveDecisions, vars
  <2> QED
    BY <2>2, <2>3, <2>4, <2>5, <2>6, <2>7, <2>8, <2>9
<1>2. EndsLinks
  BY StepsEndLinks
<1>3. \A t, h \in Lines : forward_partner_ref(links', t) = h => forward_partner_ref(links, t) = h
  BY <1>2 DEF EndsLinks, Lines, NoLine
<1>4. \A t, h \in Lines : forward_partner_ref(links', t) = h => Together(t, h)'
  BY <1>1, <1>3
<1> QED
  BY <1>4 DEF PairsTogether, Together

LEMMA PairsNext ==
    ASSUME OneLinePerId
    PROVE  RunInv /\ AskedInv /\ StandsInv /\ PairsInv /\ [Next]_vars => PairsInv'
<1>1. SUFFICES ASSUME RunInv, AskedInv, StandsInv, PairsInv, [Next]_vars
               PROVE  PairsInv'
  OBVIOUS
<1>2. Paired(links) /\ SeveringInv /\ PartnersKnown /\ JoinsSettle
  BY <1>1 DEF PairsInv
<1>3. PairsPart
  BY <1>1, <1>2, PairsPartNext
<1>4. Paired(links)'
  BY <1>3 DEF PairsPart, Paired, Symmetric, InPairs
<1>5. SeveringInv'
  BY <1>1, <1>2, RunSevers
<1> QED
  BY <1>1, <1>2, <1>3, <1>4, <1>5, PartnersKnownNext, JoinsSettleNext, PairsTogetherNext
  DEF PairsInv

LEMMA PairsInit ==
    ASSUME \A lk \in LinkChoices : Symmetric(lk) /\ InPairs(lk)
    PROVE  Init => PairsInv
<1>1. SUFFICES ASSUME Init
               PROVE  PairsInv
  OBVIOUS
<1>2. Paired(links) /\ SeveringInv
  BY <1>1, LinkChoicesAssumption DEF Init, Paired, SeveringInv
<1>3. PartnersKnown /\ JoinsSettle
  BY <1>1 DEF Init, PartnersKnown, JoinsSettle, InItem
<1>4. PairsTogether
  BY <1>1 DEF Init, LedgerInit, PairsTogether, Changed
<1> QED
  BY <1>2, <1>3, <1>4 DEF PairsInv

(* No linked pair ships half corrected, half at its source text            *)
(* (hyphenation.py: "No incoherent pair (mixed OCR+corrected) can          *)
(* survive"): for every document, plan, policy and producer, when a bare   *)
(* id names one line, links agree from both ends, go down the page, no     *)
(* further than a window may grow, and no line carries two words.          *)
THEOREM PairsStayTogether ==
    ASSUME OneLinePerId, \A lk \in LinkChoices : LinksNear(lk) /\ Symmetric(lk) /\ InPairs(lk)
    PROVE  Spec => []NoMixedPair
<1>1. Init => AskedInv /\ StandsInv /\ PairsInv
  BY AskedInit, StandsInit, PairsInit
<1>2. PairsInv => NoMixedPair
  BY DEF PairsInv, PairsTogether, NoMixedPair
<1> QED
  BY <1>1, <1>2, PairsNext, AskedNext, StandsNext, RunInit, RunNext, PTL DEF Spec

(* A chunk that gave up leaves no corrected line in the units of its       *)
(* targets, on other pages either ("a fallback covers the WHOLE unit,      *)
(* across pages"): under the same assumptions.                             *)
THEOREM UnitsFallWhole ==
    ASSUME OneLinePerId, \A lk \in LinkChoices : LinksNear(lk) /\ Symmetric(lk) /\ InPairs(lk)
    PROVE  Spec => []ExhaustedUnitFalls
<1>1. Init => AskedInv /\ StandsInv /\ PairsInv
  BY AskedInit, StandsInit, PairsInit
<1>2. RunInv /\ PairsInv => ExhaustedUnitFalls
  <2>1. SUFFICES ASSUME RunInv, PairsInv, NEW l \in Lines, reason[l] = "exhausted",
                        NEW m \in Unit(links, l, Lines)
                 PROVE  ~Changed(m)
    BY DEF ExhaustedUnitFalls
  <2>2. status[l] = "fallback" /\ text[l] = Source
    BY <2>1 DEF RunInv, LedgerInv, DecisionsCoherent, NoReason
  <2>3. m \in Lines /\ (m = l \/ links.pair[l] = m)
    BY <2>1, PairUnit DEF PairsInv
  <2>4. CASE m = l
    BY <2>2, <2>4 DEF Changed
  <2>5. CASE links.pair[l] = m
    <3>1. forward_partner_ref(links, l) = m \/ forward_partner_ref(links, m) = l
      BY <2>1, <2>3, <2>5, PairSlots DEF PairsInv
    <3> QED
      BY <2>1, <2>2, <2>3, <3>1 DEF PairsInv, PairsTogether
  <2> QED
    BY <2>3, <2>4, <2>5
<1> QED
  BY <1>1, <1>2, PairsNext, AskedNext, StandsNext, RunInit, RunNext, PTL DEF Spec

-----------------------------------------------------------------------------
(* The break mark (acceptance.py, reconcile.py).                           *)
MarksInv == \A l \in Marked : Opens(l) => text[l] # "drop"

LEMMA MarksNext ==
    ASSUME RunInv, AskedInv, StandsInv, Paired(links), MarksInv, PairsPart, [Next]_vars
    PROVE  MarksInv'
<1>1. \A l \in Marked : l \in Lines
  BY DriverAssumption
<1>2. \A l \in Marked : Opens(l)' => Opens(l)
  BY <1>1 DEF PairsPart, Opens
<1>3. ASSUME NEW l \in Marked, Opens(l)
      PROVE  text'[l] # "drop"
  <2>1. text[l] # "drop" /\ l \in Lines
    BY <1>1, <1>3 DEF MarksInv
  <2>2. ASSUME NEW why, fall_back(why)
        PROVE  text'[l] # "drop"
    BY <2>1, <2>2 DEF fall_back, Source
  <2>3. CASE ReconcileJoin
    <3>1. PICK j \in joins :
              \/ fall_back([m \in {j[1], j[2]} |-> "pair"])
              \/ \E p1 \in TailTexts(j[1]), p2 \in HeadTexts(j[2]) :
                    /\ PairStands(j[1], p1, p2)
                    /\ accept([m \in {j[1], j[2]} |-> IF m = j[1] THEN p1 ELSE p2])
      BY <2>3 DEF ReconcileJoin
    <3>2. /\ j[1] \in Lines /\ j[2] \in Lines
          /\ \/ forward_partner_ref(links, j[1]) = j[2]
             \/ backward_partner_ref(links, j[2]) = j[1]
      BY <2>3, JoinFacts DEF ReconcileJoin, PageLines
    <3>3. l # j[2]
      BY <1>3, <3>2, PairSlots DEF Opens
    <3>4. ASSUME NEW p1, NEW p2, PairStands(j[1], p1, p2),
                 accept([m \in {j[1], j[2]} |-> IF m = j[1] THEN p1 ELSE p2])
          PROVE  text'[l] # "drop"
      <4>1. p1 # "drop"
        BY <3>4 DEF PairStands, KeepsMark, Source
      <4>2. text' = [k \in Lines |-> IF k \in {j[1], j[2]}
                                     THEN IF k = j[1] THEN p1 ELSE p2 ELSE text[k]]
        BY <3>4 DEF accept
      <4> QED
        BY <2>1, <3>3, <4>1, <4>2
    <3> QED
      BY <2>2, <3>1, <3>4
  <2>4. CASE AcceptLine
    <3>1. PICK k \in todo : DecideTarget(k)
      BY <2>4 DEF AcceptLine
    <3>2. \/ UNCHANGED ledger \/ \E why : fall_back(why)
          \/ \E p : /\ ~(Opens(k) /\ k \in Marked /\ ~KeepsMark(k, p))
                    /\ accept([m \in {k} |-> p])
      BY <3>1 DEF DecideTarget
    <3>3. ASSUME NEW p, ~(Opens(k) /\ k \in Marked /\ ~KeepsMark(k, p)), accept([m \in {k} |-> p])
          PROVE  text'[l] # "drop"
      <4>1. text' = [m \in Lines |-> IF m = k THEN p ELSE text[m]]
        BY <3>3 DEF accept
      <4>2. l = k => p # "drop"
        BY <1>3, <3>3 DEF KeepsMark, Source
      <4> QED
        BY <2>1, <4>1, <4>2
    <3> QED
      BY <2>1, <2>2, <3>2, <3>3 DEF ledger
  <2>5. CASE RoutePlan
    <3>1. PICK skip : accept([k \in skip |-> Source])
      BY <2>5 DEF RoutePlan
    <3> QED
      BY <2>1, <3>1 DEF accept, Source
  <2>6. CASE PreserveBreakChars
    BY <2>1, <2>6 DEF PreserveBreakChars, renormalise, Source
  <2>7. CASE GiveUpChunk \/ StarveSub \/ AdjacencyPass \/ LossPolicyPass
    <3>1. \E why : fall_back(why)
      BY <2>7 DEF GiveUpChunk, StarveSub, ChunkFallback, AdjacencyPass, LossPolicyPass, UnitReverts
    <3> QED
      BY <2>2, <3>1
  <2>8. CASE DomainError
    <3>1. UNCHANGED ledger \/ \E why : fall_back(why)
      BY <2>8 DEF DomainError, AbsorbError, ledger
    <3> QED
      BY <2>1, <2>2, <3>1 DEF ledger
  <2>9. CASE UNCHANGED ledger
    BY <2>1, <2>9 DEF ledger
  <2>10. \/ RoutePlan \/ AcceptLine \/ ReconcileJoin \/ GiveUpChunk \/ StarveSub \/ DomainError
         \/ AdjacencyPass \/ LossPolicyPass \/ PreserveBreakChars \/ UNCHANGED ledger
    BY DEF Next, RunStep, Abort, Terminated, StartPage, PlanStep, KeepPlan, RouteChunk,
           EndRouting, EndPage, EndPages, StartChunk, Answered, Retry, AttemptsExhausted,
           FatalError, Descend, OpenDescent, StartSub, EndChunk,
           JoinsDone, TargetsDone, DeriveDecisions, vars
  <2> QED
    BY <2>3, <2>4, <2>5, <2>6, <2>7, <2>8, <2>9, <2>10
<1> QED
  BY <1>2, <1>3 DEF MarksInv

(* A line that opens a hyphenated word never ships without its break mark  *)
(* (acceptance.py: "fall back to OCR to keep the marker"): a join keeps    *)
(* the tail's mark, and alone the orphan guard does.  Where a line carried *)
(* two words, the join it is the head of would not look at its own mark.   *)
THEOREM MarksAreKept ==
    ASSUME OneLinePerId, \A lk \in LinkChoices : LinksNear(lk) /\ Symmetric(lk) /\ InPairs(lk)
    PROVE  Spec => []MarkKept
<1>1. Init => AskedInv /\ StandsInv /\ PairsInv
  BY AskedInit, StandsInit, PairsInit
<1>2. Init => MarksInv
  BY DriverAssumption DEF Init, LedgerInit, MarksInv, NoText
<1>3. RunInv /\ AskedInv /\ StandsInv /\ PairsInv /\ MarksInv /\ [Next]_vars => MarksInv'
  BY PairsPartNext, MarksNext DEF PairsInv
<1>4. MarksInv => MarkKept
  BY DEF MarksInv, MarkKept
<1> QED
  BY <1>1, <1>2, <1>3, <1>4, PairsNext, AskedNext, StandsNext, RunInit, RunNext, PTL DEF Spec

-----------------------------------------------------------------------------
(* Routing keeps units whole (routing.py).                                 *)

(* A chunk that owns a tail owns its head. *)
KeepsWords(c) ==
    \A l \in c.targets, m \in PageLines(page) : forward_partner_ref(links, l) = m => m \in c.targets
Keeping == {c \in Chunk : KeepsWords(c)}

(* An escalated head takes its tail along. *)
TailsEscalate ==
    pc = "route" =>
        \A t, h \in PageLines(page) :
            h \in escalate /\ forward_partner_ref(links, t) = h => t \in escalate

(* Links keep the shape the linker gave them, so every page is planned     *)
(* whole, and what is planned whole is routed whole.                       *)
RouteInv ==
    /\ SeveringInv
    /\ SlotsRead(links) /\ LinksClose(links) /\ UnitsNear(links)
    /\ pc \in {"plan", "replan"} => WholeInv
    /\ pc = "route" => chunks \in Seq(Keeping)
    /\ HeadsEscalate /\ TailsEscalate
    /\ queue \in Seq(Keeping)

LEMMA KeepingStays ==
    ASSUME EndsLinks, UNCHANGED page
    PROVE  \A s \in Seq(Keeping) : s \in Seq(Keeping)'
<1>1. ASSUME NEW c \in Keeping
      PROVE  c \in Keeping'
  <2>1. ASSUME NEW l \in c.targets, NEW m \in PageLines(page), forward_partner_ref(links', l) = m
        PROVE  m \in c.targets
    <3>1. l \in Lines /\ m \in Lines /\ m # NoLine
      BY <2>1 DEF Keeping, Chunk, PageLines, Lines, NoLine
    <3>2. forward_partner_ref(links, l) = m
      BY <2>1, <3>1 DEF EndsLinks
    <3> QED
      BY <2>1, <3>2 DEF Keeping, KeepsWords
  <2>2. PageLines(page)' = PageLines(page)
    BY DEF PageLines
  <2> QED
    BY <2>1, <2>2 DEF Keeping, KeepsWords
<1>2. Keeping \subseteq Keeping'
  BY <1>1
<1> HIDE DEF Keeping
<1> QED
  BY <1>2

(* What a step does to links and to the page. *)
LEMMA ShapeNext ==
    ASSUME OneLinePerId, RunInv, RouteInv, [Next]_vars
    PROVE  /\ SeveringInv'
           /\ SlotsRead(links') /\ LinksClose(links') /\ UnitsNear(links')
<1>1. SeveringInv'
  BY RunSevers DEF RouteInv
<1>2. CASE UNCHANGED links
  BY <1>1, <1>2 DEF RouteInv, SlotsRead, LinksClose, UnitsNear
<1>3. CASE PlanStep
  <2>1. PlanTypeOK /\ PlanNext
    BY <1>3 DEF RunInv, CoverInv, PlanUnderWay, PlanStep
  <2> QED
    BY <1>1, <2>1, ShapeStays DEF RouteInv
<1>4. PlanStep \/ UNCHANGED links
  BY DEF Next, RunStep, Abort, Terminated, StartPage, KeepPlan, RoutePlan, RouteChunk, BeginPlan,
         EndRouting, EndPage, EndPages, StartChunk, Answered, Retry, AttemptsExhausted, DomainError,
         FatalError, Descend, OpenDescent, GiveUpChunk, StartSub, StarveSub, EndChunk,
         ReconcileJoin, JoinsDone, AcceptLine, TargetsDone, AdjacencyPass, PreserveBreakChars,
         LossPolicyPass, DeriveDecisions, vars, planVars
<1> QED
  BY <1>2, <1>3, <1>4

LEMMA PlanWholeNext ==
    ASSUME OneLinePerId, RunInv, AskedInv, RouteInv, [Next]_vars
    PROVE  (pc \in {"plan", "replan"} => WholeInv)'
<1>1. SlotsRead(links') /\ LinksClose(links') /\ UnitsNear(links')
  BY ShapeNext
<1>2. CASE StartPage \/ Descend
  <2>1. PICK S : /\ scope' = S /\ S \in SUBSET Lines /\ at' = 1
                 /\ windows' = <<>> /\ chunks' = <<>>
    <3>1. CASE StartPage
      BY <3>1 DEF StartPage, BeginPlan, PageLines
    <3>2. CASE Descend
      <4>1. cur.targets \in SUBSET Lines
        BY <3>2, RunSequences DEF Descend, InItem
      <4> QED
        BY <3>2, <4>1 DEF Descend, BeginPlan
    <3> QED
      BY <1>2, <3>1, <3>2
  <2>2. DOMAIN chunks' = {}
    BY <2>1
  <2>3. \A f \in S : ~(Pos(S, f) < 1)
    BY <2>1, PosBounds
  <2> QED
    BY <1>1, <2>1, <2>2, <2>3
    DEF WholeInv, WindowsWhole, PlannedWhole, SlotsRead, LinksClose, UnitsNear
<1>3. CASE PlanStep
  <2>1. /\ PlanInv /\ PartnersInv /\ SeveringInv /\ WholeInv /\ PlanNext
    BY <1>3 DEF PlanStep, AskedInv, PlanHeads, RunInv, CoverInv, PlanUnderWay, RouteInv
  <2> QED
    BY <2>1, UnitsStayWhole
<1>4. CASE UNCHANGED vars
  <2>1. UNCHANGED <<pc, links, planning, scope, at, windows, chunks>>
    BY <1>4 DEF vars, driverVars, planVars
  <2> QED
    BY <1>1, <2>1
    DEF RouteInv, WholeInv, WindowsWhole, PlannedWhole, SlotsRead, LinksClose, UnitsNear
<1>5. StartPage \/ Descend \/ PlanStep \/ UNCHANGED vars \/ pc' \notin {"plan", "replan"}
  BY DEF Next, RunStep, Abort, Terminated, KeepPlan, RoutePlan, RouteChunk, ProducerCall,
         EndRouting, EndPage, EndPages, StartChunk, Answered, Retry, AttemptsExhausted, DomainError,
         FatalError, OpenDescent, GiveUpChunk, StartSub, StarveSub, EndChunk,
         ReconcileJoin, JoinsDone, AcceptLine, TargetsDone, AdjacencyPass, PreserveBreakChars,
         LossPolicyPass, DeriveDecisions
<1> QED
  BY <1>2, <1>3, <1>4, <1>5

(* A member of a unit escalates with the line it continues. *)
LEMMA TailsEscalateNext ==
    ASSUME SeveringInv, TailsEscalate, [Next]_vars
    PROVE  TailsEscalate'
<1>1. CASE RoutePlan
  <2> DEFINE P == PageLines(page)
  <2>1. PICK lone, seeds \in SUBSET P :
            /\ \A l \in lone : links.role[l] = "NONE"
            /\ escalate' = lone \cup units_containing(links, seeds, P)
    BY <1>1 DEF RoutePlan, Escalated, Skippable
  <2>2. UNCHANGED <<links, page>>
    BY <1>1 DEF RoutePlan, planVars
  <2>3. ASSUME NEW t \in P, NEW h \in P, h \in escalate', forward_partner_ref(links, t) = h
        PROVE  t \in escalate'
    <3>1. t \in Lines /\ h \in Lines /\ h # NoLine /\ t # NoLine
      BY DEF PageLines, Lines, NoLine
    <3>2. backward_partner_ref(links, h) = t
      BY <2>3, <3>1 DEF SeveringInv, Symmetric
    <3>3. h \notin lone
      BY <2>1, <3>1, <3>2 DEF backward_partner_ref
    <3>4. PICK s \in seeds : s \in P /\ h \in Unit(links, s, P)
      <4>1. h \in seeds => h \in Unit(links, h, P)
        BY <2>1, UnitHoldsLine
      <4> QED
        BY <2>1, <2>3, <3>3, <4>1 DEF units_containing
    <3>5. t \in Linked(links, h, P)
      BY <2>3, <3>1, <3>2 DEF Linked, backward_partner_ref
    <3>6. t \in Unit(links, s, P)
      <4>1. h \in P /\ Unit(links, h, P) = Unit(links, s, P)
        BY <3>4, UnitShared
      <4> QED
        BY <3>5, <4>1, LinkedShareUnit
    <3> QED
      BY <2>1, <3>4, <3>6 DEF units_containing
  <2>4. PageLines(page)' = P
    BY <2>2 DEF PageLines
  <2> HIDE DEF P
  <2> QED
    BY <2>2, <2>3, <2>4 DEF TailsEscalate
<1>2. CASE pc = "route" /\ UNCHANGED <<links, page, escalate>>
  BY <1>2 DEF TailsEscalate, PageLines
<1>3. RoutePlan \/ pc' # "route" \/ (pc = "route" /\ UNCHANGED <<links, page, escalate>>)
  BY DEF Next, RunStep, Abort, Terminated, StartPage, PlanStep, KeepPlan, RouteChunk, ProducerCall,
         EndRouting, EndPage, EndPages, StartChunk, Answered, Retry, AttemptsExhausted, DomainError,
         FatalError, Descend, OpenDescent, GiveUpChunk, StartSub, StarveSub, EndChunk,
         ReconcileJoin, JoinsDone, AcceptLine, TargetsDone, AdjacencyPass, PreserveBreakChars,
         LossPolicyPass, DeriveDecisions, vars, driverVars, planVars, pageVars
<1> QED
  BY <1>1, <1>2, <1>3 DEF TailsEscalate

(* A finished plan of the page keeps words together. *)
LEMMA PlanKeeps ==
    ASSUME PlanTypeOK, scope = PageLines(page), PlannedWhole, Division(chunks, scope)
    PROVE  chunks \in Seq(Keeping)
<1>1. ASSUME NEW k \in DOMAIN chunks
      PROVE  chunks[k] \in Keeping
  <2>1. chunks[k] \in Chunk
    BY DEF PlanTypeOK
  <2> QED
    BY <2>1 DEF Keeping, KeepsWords, PlannedWhole
<1>2. chunks \in Seq(Chunk)
  BY DEF PlanTypeOK
<1> HIDE DEF Keeping
<1> QED
  BY <1>1, <1>2

(* The plan as routing finds it. *)
LEMMA PlanReady ==
    ASSUME RunInv, RouteInv, pc = "plan", planning = "idle"
    PROVE  chunks \in Seq(Keeping)
<1>1. PlanTypeOK /\ scope = PageLines(page) /\ Division(chunks, scope)
  BY DEF RunInv, CoverInv, PlanUnderWay, PlanInv
<1> QED
  BY <1>1, PlanKeeps DEF RouteInv, WholeInv

LEMMA RoutedNext ==
    ASSUME RunInv, RouteInv, [Next]_vars
    PROVE  (pc = "route" => chunks \in Seq(Keeping))'
<1>1. CASE RoutePlan
  <2>1. pc = "plan" /\ planning = "idle" /\ UNCHANGED <<chunks, page>>
    BY <1>1 DEF RoutePlan, planVars
  <2>2. chunks \in Seq(Keeping)
    BY <2>1, PlanReady
  <2> QED
    BY <2>1, <2>2, KeepingStays, StepsEndLinks
<1>2. CASE RouteChunk
  <2>1. pc = "route" /\ chunks # <<>> /\ chunks' = Tail(chunks) /\ UNCHANGED page
    BY <1>2 DEF RouteChunk
  <2>2. chunks' \in Seq(Keeping)
    <3>1. chunks \in Seq(Keeping)
      BY <2>1 DEF RouteInv
    <3> HIDE DEF Keeping
    <3> QED
      BY <2>1, <3>1
  <2> QED
    BY <2>1, <2>2, KeepingStays, StepsEndLinks
<1>3. CASE UNCHANGED vars
  <2>1. UNCHANGED <<pc, page, chunks>>
    BY <1>3 DEF vars, driverVars, pageVars, planVars
  <2>2. pc = "route" => chunks \in Seq(Keeping)
    BY DEF RouteInv
  <2> QED
    BY <2>1, <2>2, KeepingStays, StepsEndLinks
<1>4. RoutePlan \/ RouteChunk \/ UNCHANGED vars \/ pc' # "route"
  BY DEF Next, RunStep, Abort, Terminated, StartPage, PlanStep, KeepPlan, ProducerCall, driverVars,
         EndRouting, EndPage, EndPages, StartChunk, Answered, Retry, AttemptsExhausted, DomainError,
         FatalError, Descend, OpenDescent, GiveUpChunk, StartSub, StarveSub, EndChunk,
         ReconcileJoin, JoinsDone, AcceptLine, TargetsDone, AdjacencyPass, PreserveBreakChars,
         LossPolicyPass, DeriveDecisions
<1> QED
  BY <1>1, <1>2, <1>3, <1>4

(* Both halves of a word are dropped from a chunk, or neither is: no half  *)
(* is confirmed, and both escalate or both stay.                           *)
LEMMA RoutedWhole ==
    ASSUME RunInv, SkippedInv, RouteInv, RouteChunk
    PROVE  queue' \in Seq(Keeping)
<1> DEFINE c == Head(chunks)
           owned == c.targets \ skipped
           stays == owned \ escalate
           goes == owned \cap escalate
           one == Owning(c, stays)
           two == Owning(c, goes)
<1>1. /\ pc = "route" /\ chunks # <<>> /\ queue' = queue \o one \o two
  BY DEF RouteChunk
<1>2. c \in Keeping /\ queue \in Seq(Keeping)
  <2>1. chunks \in Seq(Keeping) /\ queue \in Seq(Keeping)
    BY <1>1 DEF RouteInv
  <2> HIDE DEF Keeping
  <2> QED
    BY <1>1, <2>1
<1>3. c.targets \subseteq PageLines(page)
  <2>1. chunks \in Seq(OnPage(page))
    BY <1>1 DEF RunInv, LocalityInv, PlanLocal
  <2>2. c \in OnPage(page)
    BY <1>1, <2>1
  <2> HIDE DEF c
  <2> QED
    BY <2>2 DEF OnPage
<1> HIDE DEF c
<1>4. ASSUME NEW l \in c.targets, NEW m \in PageLines(page), forward_partner_ref(links, l) = m
      PROVE  m \in c.targets /\ m \notin skipped /\ (m \in escalate <=> l \in escalate)
  <2>1. m \in c.targets
    BY <1>2, <1>4 DEF Keeping, KeepsWords
  <2>2. l \in PageLines(page) /\ l \in Lines /\ m \in Lines /\ m # NoLine
    BY <1>3, <1>4 DEF PageLines, Lines, NoLine
  <2>3. m \in {links.pair[l], links.forward[l]}
    BY <1>4, <2>2 DEF forward_partner_ref
  <2>4. ~Alone(m)
    BY <2>2, <2>3 DEF Alone
  <2>5. m \in escalate <=> l \in escalate
    BY <1>1, <1>4, <2>2 DEF RouteInv, HeadsEscalate, TailsEscalate
  <2> QED
    BY <2>1, <2>4, <2>5 DEF SkippedInv
<1>5. ASSUME NEW T \in {stays, goes}
      PROVE  Owning(c, T) \in Seq(Keeping)
  <2>1. T \subseteq c.targets
    OBVIOUS
  <2>2. \A l \in T, m \in PageLines(page) : forward_partner_ref(links, l) = m => m \in T
    BY <1>4
  <2>3. [c EXCEPT !.targets = T] \in Keeping
    BY <1>2, <2>1, <2>2 DEF Keeping, KeepsWords, Chunk
  <2> HIDE DEF Keeping
  <2> QED
    BY <2>3 DEF Owning
<1>6. one \in Seq(Keeping) /\ two \in Seq(Keeping)
  BY <1>5
<1> HIDE DEF Keeping, one, two
<1>7. queue \o one \in Seq(Keeping)
  BY <1>2, <1>6
<1> QED
  BY <1>1, <1>6, <1>7

LEMMA QueueKeepsNext ==
    ASSUME RunInv, SkippedInv, RouteInv, [Next]_vars
    PROVE  queue' \in Seq(Keeping)'
<1>1. CASE EndPage
  <2>1. queue' = <<>>
    BY <1>1 DEF EndPage
  <2> HIDE DEF Keeping
  <2> QED
    BY <2>1
<1> SUFFICES ASSUME UNCHANGED page
             PROVE  queue' \in Seq(Keeping)'
  BY <1>1, StepsEndLinks
<1>2. queue' \in Seq(Keeping)
  <2>1. CASE KeepPlan
    <3>1. queue' = chunks /\ pc = "plan" /\ planning = "idle"
      BY <2>1 DEF KeepPlan
    <3> QED
      BY <3>1, PlanReady
  <2>2. CASE RouteChunk
    BY <2>2, RoutedWhole
  <2>3. queue \in Seq(Keeping)
    BY DEF RouteInv
  <2>4. CASE StartChunk
    <3>1. queue # <<>> /\ queue' = Tail(queue)
      BY <2>4 DEF StartChunk
    <3> HIDE DEF Keeping
    <3> QED
      BY <2>3, <3>1
  <2>5. KeepPlan \/ RouteChunk \/ StartChunk \/ EndPage \/ UNCHANGED queue
    BY DEF Next, RunStep, Abort, Terminated, StartPage, PlanStep, RoutePlan, ProducerCall, driverVars,
           EndRouting, EndPages, Answered, Retry, AttemptsExhausted, DomainError, pageVars, vars,
           FatalError, Descend, OpenDescent, GiveUpChunk, StartSub, StarveSub, EndChunk,
           ReconcileJoin, JoinsDone, AcceptLine, TargetsDone, AdjacencyPass, PreserveBreakChars,
           LossPolicyPass, DeriveDecisions
  <2>6. CASE EndPage
    <3>1. queue' = <<>>
      BY <2>6 DEF EndPage
    <3> HIDE DEF Keeping
    <3> QED
      BY <3>1
  <2> QED
    BY <2>1, <2>2, <2>3, <2>4, <2>5, <2>6
<1> QED
  BY <1>2, KeepingStays, StepsEndLinks

LEMMA RouteNext ==
    ASSUME OneLinePerId, RunInv, AskedInv, SkippedInv, RouteInv, [Next]_vars
    PROVE  RouteInv'
<1>1. /\ SeveringInv'
      /\ SlotsRead(links') /\ LinksClose(links') /\ UnitsNear(links')
  BY ShapeNext
<1>2. HeadsEscalate' /\ TailsEscalate'
  BY HeadsEscalateNext, TailsEscalateNext DEF RouteInv
<1>3. (SlotsRead(links) /\ LinksClose(links) /\ UnitsNear(links))'
  BY <1>1 DEF SlotsRead, LinksClose, UnitsNear
<1> QED
  BY <1>1, <1>2, <1>3, PlanWholeNext, RoutedNext, QueueKeepsNext DEF RouteInv

LEMMA RouteInit ==
    ASSUME \A lk \in LinkChoices : /\ LinksNear(lk) /\ Symmetric(lk)
                                   /\ SlotsRead(lk) /\ LinksClose(lk) /\ UnitsNear(lk),
           Init
    PROVE  RouteInv
<1>1. links \in LinkChoices /\ pc = "page" /\ queue = <<>>
  BY DEF Init
<1>2. queue \in Seq(Keeping)
  <2> HIDE DEF Keeping
  <2> QED
    BY <1>1
<1>3. SeveringInv
  BY LinkChoicesAssumption DEF Init, SeveringInv
<1> QED
  BY <1>1, <1>2, <1>3 DEF RouteInv, HeadsEscalate, TailsEscalate

(* UnitsRouteWhole for every layout the linker can give: whoever owns the  *)
(* tail of a word owns its head, so no two producer calls get one half     *)
(* each (routing.py: "only as a whole unit").  The links are those of the  *)
(* parsers (LinksHaveShape), and no line id is shared.                     *)
THEOREM RoutingKeepsUnits ==
    ASSUME OneLinePerId,
           \A lk \in LinkChoices : /\ LinksNear(lk) /\ Symmetric(lk)
                                   /\ SlotsRead(lk) /\ LinksClose(lk) /\ UnitsNear(lk)
    PROVE  Spec => []UnitsRouteWhole
<1>1. RouteInv => UnitsRouteWhole
  <2> SUFFICES ASSUME queue \in Seq(Keeping), NEW k \in DOMAIN queue, NEW l \in queue[k].targets,
                      forward_partner_ref(links, l) \in PageLines(page)
               PROVE  forward_partner_ref(links, l) \in queue[k].targets
    BY DEF RouteInv, UnitsRouteWhole
  <2>1. queue[k] \in Keeping
    <3> HIDE DEF Keeping
    <3> QED
      OBVIOUS
  <2> QED
    BY <2>1 DEF Keeping, KeepsWords
<1>2. Init => SkippedInv
  BY DEF Init, SkippedInv
<1>3. Init => AskedInv
  BY AskedInit
<1>4. OneLinePerId /\ RunInv /\ AskedInv /\ SkippedInv /\ RouteInv /\ [Next]_vars => RouteInv'
  BY RouteNext
<1>5. OneLinePerId
  OBVIOUS
<1> QED
  BY <1>1, <1>2, <1>3, <1>4, <1>5, RunInit, RunNext, AskedNext, SkippedInvNext, RouteInit, PTL DEF Spec
=============================================================================
