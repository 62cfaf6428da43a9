--------------------------- MODULE FindingLifecycle ---------------------------
(***************************************************************************)
(* The seven rules of the reconciliation of findings, about the identity   *)
(* keys of one scope.  A scan opens what it finds and resolves what was    *)
(* open and is gone.  What a person has acknowledged or called a false     *)
(* positive stays as it is, whether the next scans find it or not: only    *)
(* people add to what was decided about it.                                *)
(***************************************************************************)
CONSTANT Keys

VARIABLES
    status,     \* of each key
    decisions   \* of each key: what people have said of it

Decisions == {"acknowledged", "false_positive"}

Init ==
    /\ status = [k \in Keys |-> "none"]
    /\ decisions = [k \in Keys |-> {}]

\* Rules 1 and 4 and the insertion; rules 2, 3, 5 and 6; no key, no rule (7).
Scan(found) ==
    /\ status' = [k \in Keys |->
                    IF status[k] = "decided" THEN "decided"
                    ELSE IF k \in found THEN "open"
                    ELSE IF status[k] = "open" THEN "resolved" ELSE status[k]]
    /\ UNCHANGED decisions

Decide(k) ==
    /\ status[k] # "none"
    /\ status' = [status EXCEPT ![k] = "decided"]
    /\ \E d \in Decisions : decisions' = [decisions EXCEPT ![k] = @ \cup {d}]

Next == (\E found \in SUBSET Keys : Scan(found)) \/ \E k \in Keys : Decide(k)

Spec == Init /\ [][Next]_<<status, decisions>>
=============================================================================
