------------------------------ MODULE PolicyGate ------------------------------
(***************************************************************************)
(* The policy gate of one security scan: evaluatePolicies, which writes    *)
(* one PolicyGateResult per policy and then the aggregate gateStatus of    *)
(* the scan; overridePolicyGate, which lets a person accept a result; and  *)
(* the governance decision that is read off them for a deployment.         *)
(*                                                                         *)
(* Gates of different scans share nothing.  What a rule finds when it is   *)
(* evaluated (counts of open findings, the age of a scan) is data: a       *)
(* verdict.                                                                *)
(***************************************************************************)

CONSTANTS
    Policies,       \* the active policies of the project
    Enforcement,    \* "blocking" or "warning", for each policy
    Evaluators,     \* runs of evaluatePolicies on the scan
    Admins          \* calls of overridePolicyGate, each by another person

ASSUME PolicyAssumption == Enforcement \in [Policies -> {"blocking", "warning"}]

States    == {"PASS", "WARNING", "FAIL", "NOT_EVALUATED"}

\* A rule holds, is violated, or cannot be evaluated: bad configuration,
\* unknown type, no scan to look at, or an error.
Verdicts == {"holds", "violated", "unknown"}

None == "none"

ASSUME NoneAssumption == {None, "done"} \cap Policies = {} /\ None \notin Admins

\* by: who has overridden the result, None while nobody has.
Results  == [passed : BOOLEAN, status : States, by : Admins \cup {None}]
NoResult == [passed |-> FALSE, status |-> None, by |-> None]

VARIABLES
    results,    \* the PolicyGateResult documents of the scan, by policy
    gate,       \* gateStatus of the scan, None for null
    eval,       \* the runs of evaluatePolicies
    override    \* the calls of overridePolicyGate: idle, or the policy found

gateVars == <<results, gate, eval, override>>

Evals == [pc : {"idle", "loop", "done"}, todo : SUBSET Policies, seen : SUBSET States]

TypeOK ==
    /\ results \in [Policies -> Results \cup {NoResult}]
    /\ gate \in States \cup {None}
    /\ eval \in [Evaluators -> Evals]
    /\ override \in [Admins -> Policies \cup {None, "done"}]

GateInit ==
    /\ results = [p \in Policies |-> NoResult]
    /\ gate = None
    /\ eval = [e \in Evaluators |-> [pc |-> "idle", todo |-> {}, seen |-> {}]]
    /\ override = [a \in Admins |-> None]

-----------------------------------------------------------------------------
\* What the enforcement of a policy makes of a verdict.
FinalStatus(p, verdict) ==
    CASE verdict = "unknown"             -> "NOT_EVALUATED"
      [] verdict = "holds"               -> "PASS"
      [] verdict = "violated" /\ Enforcement[p] = "warning"  -> "WARNING"
      [] verdict = "violated" /\ Enforcement[p] = "blocking" -> "FAIL"

\* FAIL > WARNING > NOT_EVALUATED > PASS; PASS when there is no policy.
Aggregate(statuses) ==
    IF "FAIL" \in statuses THEN "FAIL"
    ELSE IF "WARNING" \in statuses THEN "WARNING"
    ELSE IF "NOT_EVALUATED" \in statuses THEN "NOT_EVALUATED"
    ELSE "PASS"

Exists(p) == results[p] # NoResult

Failing == {p \in Policies : Exists(p) /\ Enforcement[p] = "blocking" /\ ~results[p].passed}

DecideIgnoringBlocks(gateSeen) ==
    IF \E p \in Policies : Exists(p)
      THEN IF \A p \in Policies : results[p].by # None THEN "OVERRIDDEN" ELSE "ALLOWED"
      ELSE "NOT_EVALUATED"

\* evaluateDeploymentGovernance, with the gateStatus of the scan as it was read
\* before the results.
Decide(gateSeen) ==
    IF \E p \in Policies : Exists(p)
      THEN IF Failing = {} THEN "ALLOWED"
           ELSE IF \A p \in Failing : results[p].by # None THEN "OVERRIDDEN"
           ELSE "BLOCKED"
      ELSE IF gateSeen \in {"PASS", "WARNING"} THEN "ALLOWED"
           ELSE IF gateSeen = "FAIL" THEN "BLOCKED"
           ELSE "NOT_EVALUATED"

-----------------------------------------------------------------------------
(***************************************************************************)
(* evaluatePolicies.                                                       *)
(***************************************************************************)

StartEvaluation(e) ==
    /\ eval[e].pc = "idle"
    /\ eval' = [eval EXCEPT ![e] = [pc |-> "loop", todo |-> Policies, seen |-> {}]]
    /\ UNCHANGED <<results, gate, override>>

Evaluated(e, p, status) ==
    eval' = [eval EXCEPT ![e] = [pc   |-> "loop",
                                 todo |-> eval[e].todo \ {p},
                                 seen |-> eval[e].seen \cup {status}]]

EvaluatePolicyAnew(e, p, verdict) ==
    /\ eval[e].pc = "loop"
    /\ p \in eval[e].todo
    /\ results' = [results EXCEPT ![p] = [passed |-> verdict = "holds",
                                          status |-> FinalStatus(p, verdict),
                                          by     |-> None]]
    /\ Evaluated(e, p, FinalStatus(p, verdict))
    /\ UNCHANGED <<gate, override>>

\* The upsert of one result: the override fields are set on insert only.
EvaluatePolicy(e, p, verdict) ==
    /\ eval[e].pc = "loop"
    /\ p \in eval[e].todo
    /\ results' = [results EXCEPT ![p] = [passed |-> verdict = "holds",
                                          status |-> FinalStatus(p, verdict),
                                          by     |-> results[p].by]]
    /\ Evaluated(e, p, FinalStatus(p, verdict))
    /\ UNCHANGED <<gate, override>>

FinishWithoutAll(e) ==
    /\ eval[e].pc = "loop"
    /\ gate' = Aggregate(eval[e].seen)
    /\ eval' = [eval EXCEPT ![e].pc = "done"]
    /\ UNCHANGED <<results, override>>

FinishEvaluation(e) ==
    /\ eval[e].pc = "loop"
    /\ eval[e].todo = {}
    /\ gate' = Aggregate(eval[e].seen)
    /\ eval' = [eval EXCEPT ![e].pc = "done"]
    /\ UNCHANGED <<results, override>>

\* A write fails and the error ends the evaluation, or the worker dies: the
\* scan is completed by then, so the job that runs again leaves it alone
\* (securityScanProcessor.js:81-104, 323-334).
AbortEvaluation(e) ==
    /\ eval[e].pc = "loop"
    /\ eval' = [eval EXCEPT ![e].pc = "done"]
    /\ UNCHANGED <<results, gate, override>>

-----------------------------------------------------------------------------
(***************************************************************************)
(* overridePolicyGate: findOne with its checks, then findByIdAndUpdate.    *)
(***************************************************************************)

FindResultUnchecked(a, p) ==
    /\ override[a] = None
    /\ results[p].by = None
    /\ override' = [override EXCEPT ![a] = p]
    /\ UNCHANGED <<results, gate, eval>>

FindResult(a, p) ==
    /\ override[a] = None
    /\ Exists(p)
    /\ results[p].by = None
    /\ override' = [override EXCEPT ![a] = p]
    /\ UNCHANGED <<results, gate, eval>>

OverrideResult(a) ==
    /\ override[a] \in Policies
    /\ results' = [results EXCEPT ![override[a]].by = a]
    /\ override' = [override EXCEPT ![a] = "done"]
    /\ UNCHANGED <<gate, eval>>

-----------------------------------------------------------------------------
GateNext ==
    \/ \E e \in Evaluators :
          \/ StartEvaluation(e)
          \/ \E p \in Policies, v \in Verdicts : EvaluatePolicy(e, p, v)
          \/ FinishEvaluation(e)
          \/ AbortEvaluation(e)
    \/ \E a \in Admins : OverrideResult(a) \/ \E p \in Policies : FindResult(a, p)

Spec == GateInit /\ [][GateNext]_gateVars

-----------------------------------------------------------------------------
(***************************************************************************)
(* Properties.                                                             *)
(***************************************************************************)

\* The scan was evaluated once at most: the scan processor does no more.
EvaluatedOnce ==
    \A e, f \in Evaluators : eval[e].pc # "idle" /\ eval[f].pc # "idle" => e = f

\* The two verdicts the platform draws from one evaluation, the aggregate from
\* the statuses and the decision from the passed flags, do not contradict each
\* other: a failed gate blocks unless it was overridden, a passed one allows.
GateAndDecisionAgree ==
    EvaluatedOnce =>
        /\ gate = "FAIL" => Decide(gate) \in {"BLOCKED", "OVERRIDDEN"}
        /\ gate = "PASS" => Decide(gate) = "ALLOWED"

\* The scan has a gate status only when every policy was evaluated, and it is
\* the aggregate of the results, whoever overrides what in the meantime.
GateCoversAllPolicies ==
    EvaluatedOnce /\ gate # None =>
        /\ \A p \in Policies : Exists(p)
        /\ gate = Aggregate({results[p].status : p \in Policies})

\* An override survives every later evaluation of the same scan
\* (policyEngine.service.js:163-169).
OverrideSurvives ==
    [][\A p \in Policies : results[p].by # None => results'[p].by # None]_gateVars

\* What could not be evaluated is not held against a deployment
\* (policyEngine.service.js:123-124).
UnknownDoesNotBlock ==
    gate = "NOT_EVALUATED" => Decide(gate) # "BLOCKED"
=============================================================================
