--------------------------- MODULE TerminalRegister ---------------------------
(***************************************************************************)
(* What PipelineRun.upsertWithStatusGuard promises to the readers of a     *)
(* run: a register whose value only moves to a status of higher rank, so   *)
(* that a terminal value is final.                                         *)
(***************************************************************************)
EXTENDS Naturals

CONSTANTS
    Values,     \* the reports the register may hold, records with a status
    Empty,      \* the register before the first report
    Rank        \* the rank of each status

VARIABLE value

Init == value = Empty

Next ==
    /\ value' \in Values
    /\ value = Empty \/ Rank[value.status] < Rank[value'.status]

Spec == Init /\ [][Next]_value
=============================================================================
