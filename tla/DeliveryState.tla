----------------------------- MODULE DeliveryState -----------------------------
(***************************************************************************)
(* What the page of an issue shows of security and governance:             *)
(* getIssueSecurityProjection reads the newest scan of the issue's         *)
(* pipeline runs and then the results of its gate, while the scan is       *)
(* stored, evaluated and overridden; DeliveryStateTracker makes the stages *)
(* of the page from the answer.                                            *)
(*                                                                         *)
(* The counts of the answer are left out, and so are the fields of the     *)
(* scan that are shown as they are stored.                                 *)
(***************************************************************************)
EXTENDS PolicyGate

VARIABLES
    scan,       \* status of the newest scan of the issue, "none" without one
    erring,     \* the policies whose result tells an error (evaluatedData.error)
    page        \* the page: what its last answer was, and a load under way

viewVars == <<gateVars, scan, erring, page>>

ScanStatus == {"none", "processing", "failed", "completed"}
Security == {"NOT_STARTED", "PROCESSING", "PASSED", "FAILED", "ERROR", "NOT_EVALUATED"}

\* gated: history, whether the scan had its gate status when it was read.
Answers == [security : Security, governance : States, overridden : BOOLEAN,
            fully : BOOLEAN, gated : BOOLEAN]
Answer(security) ==
    [security |-> security, governance |-> "NOT_EVALUATED", overridden |-> FALSE,
     fully |-> FALSE, gated |-> FALSE]

Idle == "idle"

ViewTypeOK ==
    /\ scan \in ScanStatus
    /\ erring \in SUBSET Policies
    /\ page \in [load : {Idle, None} \cup States, answer : Answers]

ViewInit ==
    /\ GateInit
    /\ scan = "none"
    /\ erring = {}
    /\ page = [load |-> Idle, answer |-> Answer("NOT_STARTED")]

-----------------------------------------------------------------------------
\* processSecurityScanJob stores the scan, ends it, and has it evaluated.
ScanMoves ==
    /\ \/ scan = "none" /\ scan' \in {"processing", "completed"}
       \/ scan = "processing" /\ scan' \in {"failed", "completed"}
    /\ UNCHANGED <<gateVars, erring, page>>

\* A result that could not be reached tells an error, unless there was no scan to
\* look at or nobody knows its rule.
Evaluate(e, p, verdict) ==
    /\ EvaluatePolicy(e, p, verdict)
    /\ erring' \in IF verdict = "unknown" THEN {erring \cup {p}, erring \ {p}}
                                          ELSE {erring \ {p}}

\* evaluatePolicies throws unless the scan is completed.
GateMoves ==
    /\ scan = "completed"
    /\ \/ \E e \in Evaluators, p \in Policies, v \in Verdicts : Evaluate(e, p, v)
       \/ /\ \/ \E e \in Evaluators :
                   StartEvaluation(e) \/ FinishEvaluation(e) \/ AbortEvaluation(e)
             \/ \E a \in Admins : OverrideResult(a) \/ \E p \in Policies : FindResult(a, p)
          /\ UNCHANGED erring
    /\ UNCHANGED <<scan, page>>

-----------------------------------------------------------------------------
(***************************************************************************)
(* getIssueSecurityProjection and projectScanSecurityState.                *)
(***************************************************************************)

Violated == {p \in Policies : results[p].status = "FAIL"}

\* The gate status of the scan, or the aggregate of the results there are.
Governance(gateSeen) ==
    IF gateSeen # None THEN gateSeen
    ELSE Aggregate({results[p].status : p \in {q \in Policies : Exists(q)}})

SecurityExcused(gateSeen) ==
    IF \E p \in erring : results[p].status = "NOT_EVALUATED" THEN "ERROR"
    ELSE CASE Governance(gateSeen) = "FAIL" ->
                  IF \E p \in Policies : results[p].by # None THEN "PASSED" ELSE "FAILED"
           [] Governance(gateSeen) \in {"PASS", "WARNING"} -> "PASSED"
           [] OTHER -> "NOT_EVALUATED"

SecurityStatus(gateSeen) ==
    IF \E p \in erring : results[p].status = "NOT_EVALUATED" THEN "ERROR"
    ELSE CASE Governance(gateSeen) = "FAIL" -> "FAILED"
           [] Governance(gateSeen) \in {"PASS", "WARNING"} -> "PASSED"
           [] OTHER -> "NOT_EVALUATED"

Show(answer) == page' = [load |-> Idle, answer |-> answer]

\* No pipeline run names the issue, or none that does has a scan.
Untraced == scan = "none"

\* The newest scan is read; one that is not completed is answered at once.
ReadScan ==
    /\ page.load = Idle
    /\ CASE Untraced            -> Show(Answer("NOT_STARTED"))
         [] scan = "processing" -> Show(Answer("PROCESSING"))
         [] scan = "failed"     -> Show(Answer("ERROR"))
         [] scan = "completed"  -> page' = [page EXCEPT !.load = gate]
    /\ UNCHANGED <<gateVars, scan, erring>>

\* The results are read, and judged with the gate status of the scan as it was.
ReadResults ==
    /\ page.load # Idle
    /\ Show([security   |-> SecurityStatus(page.load),
             governance |-> Governance(page.load),
             overridden |-> \E p \in Policies : results[p].by # None,
             fully      |-> Violated # {} /\ \A p \in Violated : results[p].by # None,
             gated      |-> page.load # None])
    /\ UNCHANGED <<gateVars, scan, erring>>

\* An error of a query is answered as an error of security.
ReadFails ==
    /\ Show(Answer("ERROR"))
    /\ UNCHANGED <<gateVars, scan, erring>>

-----------------------------------------------------------------------------
(***************************************************************************)
(* DeliveryStateTracker.                                                   *)
(***************************************************************************)

SecurityStage(answer) ==
    CASE answer.security = "PASSED"              -> "completed"
      [] answer.security \in {"FAILED", "ERROR"} -> "failed"
      [] answer.security = "PROCESSING"          -> "active"
      [] OTHER                                   -> "pending"

\* Any override makes the gate look approved.
GovernanceStage(answer) ==
    CASE answer.governance \in {"PASS", "WARNING"} -> "completed"
      [] answer.governance = "FAIL" -> IF answer.overridden THEN "completed" ELSE "failed"
      [] answer.governance = "NOT_EVALUATED" -> "pending"

-----------------------------------------------------------------------------
ViewNext == ScanMoves \/ GateMoves \/ ReadScan \/ ReadResults \/ ReadFails

ViewSpec == ViewInit /\ [][ViewNext]_viewVars

-----------------------------------------------------------------------------
(***************************************************************************)
(* Properties.                                                             *)
(***************************************************************************)

\* Two places judge one evaluation for two readers: the page and the deployment
\* (deployment.service.js:79-151).  Once the page was read with the gate status
\* there, they do not contradict each other: what it shows as failed blocks, or
\* was overridden; what it shows as passed is blocked by nothing but policies
\* that could not be evaluated; and what it shows as wholly overridden is.
ShownMatchesDecision ==
    LET answer == page.answer IN
    EvaluatedOnce /\ answer.gated =>
        /\ GovernanceStage(answer) = "failed" \/ answer.security = "FAILED"
              => Decide(gate) \in {"BLOCKED", "OVERRIDDEN"}
        /\ SecurityStage(answer) = "completed" =>
              \A p \in Failing : results[p].status = "NOT_EVALUATED"
        /\ answer.fully => \A p \in Failing : results[p].by # None
                                             \/ results[p].status = "NOT_EVALUATED"
=============================================================================
