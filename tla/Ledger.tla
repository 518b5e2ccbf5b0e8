------------------------------- MODULE Ledger -------------------------------
(***************************************************************************)
(* The single writer of a line's decision (core/decide.py).                *)
(*                                                                         *)
(* A line's text is abstracted to what the engine tells apart: its source  *)
(* text, a correction, a correction that respells the trailing break mark, *)
(* a correction that loses it.  NoText is corrected_text = None.           *)
(***************************************************************************)
EXTENDS HyphenUnits

VARIABLES
    status,  \* LineStatus: "pending", "corrected" or "fallback"
    text,    \* corrected_text
    reason   \* the trace's fallback_reason

ledger == <<status, text, reason>>

Source == "source"
NoText == "none"
NoReason == "none"
Texts == {Source, "fix", "glyph", "drop"}
Statuses == {"pending", "corrected", "fallback"}
Reasons == {"exhausted", "unit", "absorbed", "pair", "orphan", "partner", "rejected",
            "adjacency", "adjacency_unit", "loss", "loss_unit"}

LedgerInit ==
    /\ status = [l \in Lines |-> "pending"]
    /\ text = [l \in Lines |-> NoText]
    /\ reason = [l \in Lines |-> NoReason]

LedgerTypeOK ==
    /\ status \in [Lines -> Statuses]
    /\ text \in [Lines -> Texts \cup {NoText}]
    /\ reason \in [Lines -> Reasons \cup {NoReason}]

Changed(l) == text[l] \notin {Source, NoText}

-----------------------------------------------------------------------------
(* The text given to each line of DOMAIN final is its decision. *)
accept(final) ==
    /\ status' = [l \in Lines |-> IF l \in DOMAIN final THEN "corrected" ELSE status[l]]
    /\ text' = [l \in Lines |-> IF l \in DOMAIN final THEN final[l] ELSE text[l]]
    /\ UNCHANGED reason

(* Faulty: the correction is left in place; the last reason wins. *)
fall_back_KeepsText(why) ==
    /\ status' = [l \in Lines |-> IF l \in DOMAIN why THEN "fallback" ELSE status[l]]
    /\ text' = [l \in Lines |-> IF l \in DOMAIN why /\ text[l] = NoText THEN Source ELSE text[l]]
    /\ reason' = [l \in Lines |-> IF l \in DOMAIN why /\ reason[l] = NoReason
                                  THEN why[l] ELSE reason[l]]
fall_back_LastReason(why) ==
    /\ status' = [l \in Lines |-> IF l \in DOMAIN why THEN "fallback" ELSE status[l]]
    /\ text' = [l \in Lines |-> IF l \in DOMAIN why THEN Source ELSE text[l]]
    /\ reason' = [l \in Lines |-> IF l \in DOMAIN why THEN why[l] ELSE reason[l]]

(* Each line of DOMAIN why goes back to its source text; only a line that  *)
(* carries no reason yet is given one.                                     *)
fall_back(why) ==
    /\ status' = [l \in Lines |-> IF l \in DOMAIN why THEN "fallback" ELSE status[l]]
    /\ text' = [l \in Lines |-> IF l \in DOMAIN why THEN Source ELSE text[l]]
    /\ reason' = [l \in Lines |-> IF l \in DOMAIN why /\ reason[l] = NoReason
                                  THEN why[l] ELSE reason[l]]

(* Respell decided text: no status, no reason. *)
renormalise(respell) ==
    /\ text' = [l \in Lines |-> IF l \in DOMAIN respell THEN respell[l] ELSE text[l]]
    /\ UNCHANGED <<status, reason>>

-----------------------------------------------------------------------------
(* What the report says of a line agrees with the line: a reason is        *)
(* recorded exactly for the lines that fell back, such a line is at its    *)
(* source text, and a line has a text exactly when it is decided.  The     *)
(* report never blames a correction that stands, nor hides why one was     *)
(* taken away (decide.py, ADR-013 invariant I-1).                          *)
DecisionsCoherent ==
    \A l \in Lines :
        /\ reason[l] # NoReason <=> status[l] = "fallback"
        /\ status[l] = "fallback" => text[l] = Source
        /\ status[l] = "pending" <=> text[l] = NoText
=============================================================================
