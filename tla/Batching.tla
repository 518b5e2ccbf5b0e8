------------------------------ MODULE Batching ------------------------------
(***************************************************************************)
(* Image-cap batching (core/batching.py), composed with the planner.       *)
(*                                                                         *)
(* A vision producer is sent one crop per line, and providers cap the      *)
(* images of a call.  Once a page is planned and routed, a chunk wider     *)
(* than its producer's cap is cut into batches; the members of a hyphen    *)
(* unit ride together, and a unit wider than the cap refuses the run.      *)
(* One step is one iteration of the loop over the chunk's lines.           *)
(*                                                                         *)
(* Which producer a chunk was routed to is free, so the cap is chosen      *)
(* chunk by chunk; no cap at all is a cap no chunk exceeds.                *)
(***************************************************************************)
EXTENDS Planner

CONSTANT Caps   \* the max_images a producer may declare

ASSUME CapsAssumption == Caps \subseteq Nat

VARIABLES
    phase,      \* "plan", "next", "slice", "done" or "refused"
    calls,      \* the work items: every chunk as it will be sent
    item,       \* position in the plan
    cap,        \* the cap of the chunk being sliced
    batches,    \* its batches closed so far
    current,    \* the batch being filled
    assigned    \* its lines placed so far

sliceVars == <<cap, batches, current, assigned>>
batchVars == <<phase, calls, item, sliceVars>>
allVars == <<planVars, batchVars>>

(* Faulty: only a unit the page holds whole keeps its members together. *)
RidesTogether_WholeUnits(l, chunk) ==
    LET unit == Unit(links, l, scope)
    IN IF UnitComplete(links, l, scope) THEN (unit \cap chunk.lines) \ assigned ELSE {l}

(* The lines one target brings along: what the page and the chunk hold of  *)
(* its unit, complete or not.                                              *)
RidesTogether(l, chunk) ==
    LET unit == Unit(links, l, scope)
    IN IF Cardinality(unit) > 1 THEN (unit \cap chunk.lines) \ assigned ELSE {l}

(* Faulty: a context line that came along is owned as well. *)
Batch_OwnsAll(chunk, b) == [chunk EXCEPT !.lines = b, !.targets = b]

(* A batch owns what the chunk owned of it. *)
Batch(chunk, b) == [chunk EXCEPT !.lines = b, !.targets = b \cap chunk.targets]

-----------------------------------------------------------------------------
(* The page is planned whole; descents re-plan a batch's targets and are   *)
(* not batched again.                                                      *)
BeginBatching ==
    /\ phase = "plan" /\ planning = "idle"
    /\ \A l \in Lines, m \in scope : PageOf[l] = PageOf[m] => l \in scope
    /\ \A k \in DOMAIN chunks : chunks[k].gran # "LINE"
    /\ phase' = "next" /\ item' = 1
    /\ UNCHANGED <<planVars, calls, sliceVars>>

PassChunk ==
    /\ phase = "next" /\ item \in DOMAIN chunks
    /\ calls' = Append(calls, chunks[item])
    /\ item' = item + 1
    /\ UNCHANGED <<planVars, phase, sliceVars>>

SliceChunk ==
    /\ phase = "next" /\ item \in DOMAIN chunks
    /\ \E c \in Caps : Cardinality(chunks[item].lines) > c /\ cap' = c
    /\ phase' = "slice" /\ batches' = <<>> /\ current' = {} /\ assigned' = {}
    /\ UNCHANGED <<planVars, calls, item>>

(* Faulty: the batch is closed only once it is already too full. *)
Full_Late(members) == Cardinality(current) > cap

Full(members) == current # {} /\ Cardinality(current) + Cardinality(members) > cap

PlaceUnit ==
    /\ phase = "slice" /\ chunks[item].targets \ assigned # {}
    /\ LET l       == Min(chunks[item].targets \ assigned)
           members == RidesTogether(l, chunks[item])
       IN IF Cardinality(members) > cap
          THEN phase' = "refused" /\ UNCHANGED <<batches, current, assigned>>
          ELSE /\ batches' = IF Full(members) THEN Append(batches, current) ELSE batches
               /\ current' = IF Full(members) THEN members ELSE current \cup members
               /\ assigned' = assigned \cup members
               /\ phase' = phase
    /\ UNCHANGED <<planVars, calls, item, cap>>

(* Faulty: the last batch, never full, is forgotten. *)
Closed_FullOnly == batches

Closed == IF current = {} THEN batches ELSE Append(batches, current)

EmitBatches ==
    /\ phase = "slice" /\ chunks[item].targets \subseteq assigned
    /\ calls' = calls \o [k \in DOMAIN Closed |-> Batch(chunks[item], Closed[k])]
    /\ phase' = "next" /\ item' = item + 1
    /\ UNCHANGED <<planVars, sliceVars>>

EndBatching ==
    /\ phase = "next" /\ item \notin DOMAIN chunks
    /\ phase' = "done"
    /\ UNCHANGED <<planVars, calls, item, sliceVars>>

BatchInit ==
    /\ PlanInit
    /\ phase = "plan" /\ calls = <<>> /\ item = 1
    /\ cap = 0 /\ batches = <<>> /\ current = {} /\ assigned = {}

BatchNext ==
    \/ PlanNext /\ UNCHANGED batchVars
    \/ BeginBatching \/ PassChunk \/ SliceChunk \/ PlaceUnit \/ EmitBatches \/ EndBatching

BatchSpec == BatchInit /\ [][BatchNext]_allVars /\ WF_allVars(BatchNext)

-----------------------------------------------------------------------------
(* No chunk is above max_lines_per_request, and no batch of a chunk being  *)
(* sliced holds more lines than the producer takes images ("an error no    *)
(* retry and no granularity downgrade can heal").                          *)
CallsBounded ==
    /\ RequestsBounded
    /\ phase = "slice" => \A k \in DOMAIN Closed : Cardinality(Closed[k]) =< cap

(* Planning and slicing neither lose a line nor give it two owners: every  *)
(* line of the page is owned by exactly one call, which sends it ("Assign  *)
(* every line to exactly one target window"; an owned line that is not     *)
(* sent is "a line lost without a trace").                                 *)
CallsOwnOnce ==
    phase = "done" =>
        \A l \in scope :
            /\ Cardinality({k \in DOMAIN calls : l \in calls[k].targets}) = 1
            /\ \A k \in DOMAIN calls : l \in calls[k].targets => l \in calls[k].lines

(* Two lines still linked and sent together by the plan stay in one call:  *)
(* the call that owns either holds both ("a unit is never severed", "the   *)
(* pair still reaches one producer in one call and reconciles normally"),  *)
(* also when the rest of their unit is on another page.                    *)
UnitsShareACall ==
    phase = "done" =>
        \A l, m \in scope :
            (/\ forward_partner_ref(links, l) = m
             /\ \E k \in DOMAIN chunks : {l, m} \subseteq chunks[k].targets) =>
                \E k \in DOMAIN calls : {l, m} \subseteq calls[k].targets

=============================================================================
