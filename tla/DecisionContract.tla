-------------------------- MODULE DecisionContract --------------------------
(***************************************************************************)
(* What a run promises about its decisions, whatever the producer does     *)
(* (docs/adr/008, 011 and 013, core/decide.py, core/decisions.py):         *)
(*                                                                         *)
(*  - a line leaves PENDING once, and a line that fell back stays so, at   *)
(*    its source text, with the reason it fell for first;                  *)
(*  - a correction may be revoked until the decisions are sealed;          *)
(*  - decisions are sealed only when every line has one, and nothing       *)
(*    changes after that.                                                  *)
(***************************************************************************)
EXTENDS Ledger

VARIABLE sealed  \* the DecisionSet exists

contractVars == <<status, text, reason, sealed>>

ContractInit == LedgerInit /\ sealed = FALSE

(* A line of one of the three states moves on, or stays. *)
Moves(l) ==
    \/ UNCHANGED <<status[l], text[l], reason[l]>>
    \/ /\ status[l] # "fallback" /\ status'[l] = "corrected"
       /\ text'[l] \in Texts /\ reason'[l] = reason[l]
    \/ /\ status[l] # "fallback" /\ status'[l] = "fallback"
       /\ text'[l] = Source /\ reason'[l] \in Reasons

Decide ==
    /\ ~sealed
    /\ status' \in [Lines -> Statuses]
    /\ text' \in [Lines -> Texts \cup {NoText}]
    /\ reason' \in [Lines -> Reasons \cup {NoReason}]
    /\ \A l \in Lines : Moves(l)
    /\ sealed' = sealed

Seal ==
    /\ ~sealed
    /\ \A l \in Lines : status[l] # "pending"
    /\ sealed' = TRUE
    /\ UNCHANGED <<status, text, reason>>

ContractNext == Decide \/ Seal
ContractSpec == ContractInit /\ [][ContractNext]_contractVars
=============================================================================
