--------------------------- MODULE PolicyGateProofs ---------------------------
(***************************************************************************)
(* What holds of the policy gate for every set of policies, whatever their *)
(* enforcement, and every number of people who override results; and, on   *)
(* the same invariants, of its two readers, the deployment beside it and   *)
(* the page of an issue.                                                   *)
(***************************************************************************)
EXTENDS DeploymentGovernance, DeliveryState, TLAPS

(***************************************************************************)
(* The operators.                                                          *)
(***************************************************************************)

LEMMA FinalStatusType ==
    ASSUME NEW p \in Policies, NEW v \in Verdicts
    PROVE  /\ FinalStatus(p, v) \in States
           /\ v = "holds" <=> FinalStatus(p, v) = "PASS"
           /\ FinalStatus(p, v) = "FAIL" => Enforcement[p] = "blocking"
           /\ FinalStatus(p, v) = "WARNING" => Enforcement[p] = "warning"
<1>1. Enforcement[p] \in {"blocking", "warning"}
  BY PolicyAssumption
<1>2. CASE v = "unknown"
  BY <1>2 DEF FinalStatus, States
<1>3. CASE v = "holds"
  BY <1>3 DEF FinalStatus, States
<1>4. CASE v = "violated" /\ Enforcement[p] = "warning"
  <2>1. FinalStatus(p, v) = "WARNING"
    BY <1>4 DEF FinalStatus
  <2> QED BY <1>4, <2>1 DEF States
<1>5. CASE v = "violated" /\ Enforcement[p] = "blocking"
  <2>1. FinalStatus(p, v) = "FAIL"
    BY <1>5 DEF FinalStatus
  <2> QED BY <1>5, <2>1 DEF States
<1> QED BY <1>1, <1>2, <1>3, <1>4, <1>5 DEF Verdicts

LEMMA AggregateType ==
    ASSUME NEW S
    PROVE  /\ Aggregate(S) \in States
           /\ Aggregate(S) = "FAIL" <=> "FAIL" \in S
           /\ Aggregate(S) = "PASS" => S \cap {"FAIL", "WARNING", "NOT_EVALUATED"} = {}
  BY DEF Aggregate, States

-----------------------------------------------------------------------------
(***************************************************************************)
(* Any number of evaluations.                                              *)
(***************************************************************************)

\* The result a call of overridePolicyGate has found stays there.
FoundExists == \A a \in Admins : override[a] \in Policies => Exists(override[a])

\* passed, from which deployments are decided, is status = PASS, from which the
\* gate is; and only a policy that blocks can fail, only one that warns can warn.
Coherent ==
    \A p \in Policies :
        Exists(p) => /\ results[p].passed <=> results[p].status = "PASS"
                     /\ results[p].status = "FAIL" => Enforcement[p] = "blocking"
                     /\ results[p].status = "WARNING" => Enforcement[p] = "warning"

GInv == TypeOK /\ FoundExists /\ Coherent

LEMMA ResultExists ==
    ASSUME TypeOK, NEW p \in Policies
    PROVE  Exists(p) <=> results[p] \in Results
  BY DEF TypeOK, Exists, Results, NoResult, States, None

LEMMA GInvInit == GateInit => GInv
<1> SUFFICES ASSUME GateInit PROVE GInv
  OBVIOUS
<1>1. TypeOK
  BY DEF GateInit, TypeOK, Evals
<1>2. FoundExists
  BY NoneAssumption DEF GateInit, FoundExists
<1>3. Coherent
  BY DEF GateInit, Coherent, Exists
<1> QED BY <1>1, <1>2, <1>3 DEF GInv

\* One result is written, the override kept.
LEMMA EvaluatePolicyStep ==
    ASSUME GInv, NEW e \in Evaluators, NEW p \in Policies, NEW v \in Verdicts,
           EvaluatePolicy(e, p, v)
    PROVE  GInv'
<1> DEFINE new == [passed |-> v = "holds", status |-> FinalStatus(p, v), by |-> results[p].by]
<1>1. results' = [results EXCEPT ![p] = new] /\ gate' = gate /\ override' = override
  BY DEF EvaluatePolicy
<1>2. results[p].by \in Admins \cup {None}
  BY DEF GInv, TypeOK, Results, NoResult
<1>3. new \in Results
  BY <1>2, FinalStatusType DEF Results
<1>4. /\ results' \in [Policies -> Results \cup {NoResult}]
      /\ results'[p] = new
      /\ \A r \in Policies : r # p => results'[r] = results[r]
  BY <1>1, <1>3 DEF GInv, TypeOK
<1>5. TypeOK'
  <2>1. eval' \in [Evaluators -> Evals]
    BY FinalStatusType DEF EvaluatePolicy, Evaluated, GInv, TypeOK, Evals
  <2> QED BY <1>1, <1>4, <2>1 DEF GInv, TypeOK
<1>6. Exists(p)'
  BY <1>3, <1>4, <1>5, ResultExists DEF Exists, Results, NoResult, States, None
<1>7. FoundExists'
  BY <1>1, <1>4, <1>6 DEF GInv, FoundExists, Exists
<1>8. Coherent'
  <2> SUFFICES ASSUME NEW r \in Policies, Exists(r)'
               PROVE  /\ results'[r].passed <=> results'[r].status = "PASS"
                      /\ results'[r].status = "FAIL" => Enforcement[r] = "blocking"
                      /\ results'[r].status = "WARNING" => Enforcement[r] = "warning"
    BY DEF Coherent
  <2>1. CASE r = p
    <3>1. /\ results'[r].passed <=> v = "holds"
          /\ results'[r].status = FinalStatus(p, v)
      <4>1. results'[r] = new
        BY <1>4, <2>1
      <4>2. new.passed <=> v = "holds"
        OBVIOUS
      <4>3. new.status = FinalStatus(p, v)
        OBVIOUS
      <4> HIDE DEF new
      <4> QED BY <4>1, <4>2, <4>3
    <3>2. /\ v = "holds" <=> FinalStatus(p, v) = "PASS"
          /\ FinalStatus(p, v) = "FAIL" => Enforcement[p] = "blocking"
          /\ FinalStatus(p, v) = "WARNING" => Enforcement[p] = "warning"
      BY FinalStatusType
    <3> QED BY <2>1, <3>1, <3>2
  <2>2. CASE r # p
    BY <1>4, <2>2 DEF GInv, Coherent, Exists
  <2> QED BY <2>1, <2>2
<1> QED BY <1>5, <1>7, <1>8 DEF GInv

\* Only the override of one result that is there is written.
LEMMA OverrideResultStep ==
    ASSUME GInv, NEW a \in Admins, OverrideResult(a)
    PROVE  GInv'
<1> DEFINE p == override[a]
<1>1. p \in Policies /\ Exists(p) /\ results[p] \in Results
  BY ResultExists DEF OverrideResult, GInv, FoundExists
<1>2. /\ results' = [results EXCEPT ![p].by = a]
      /\ override' = [override EXCEPT ![a] = "done"]
      /\ gate' = gate /\ eval' = eval
  BY DEF OverrideResult
<1>3. /\ results'[p] \in Results
      /\ results'[p].passed = results[p].passed
      /\ results'[p].status = results[p].status
      /\ \A r \in Policies : r # p => results'[r] = results[r]
      /\ results' \in [Policies -> Results \cup {NoResult}]
  BY <1>1, <1>2 DEF GInv, TypeOK, Results
<1>4. TypeOK'
  BY <1>2, <1>3 DEF GInv, TypeOK
<1>5. results'[p] # NoResult
  BY <1>3 DEF Results, NoResult, States, None
<1>6. FoundExists'
  <2> SUFFICES ASSUME NEW b \in Admins, override'[b] \in Policies
               PROVE  results'[override'[b]] # NoResult
    BY DEF FoundExists, Exists
  <2>1. b # a /\ override'[b] = override[b]
    BY <1>2, NoneAssumption DEF GInv, TypeOK
  <2>2. override[b] \in Policies /\ results[override[b]] # NoResult
    BY <2>1 DEF GInv, FoundExists, Exists
  <2>3. CASE override[b] = p
    BY <1>5, <2>1, <2>3
  <2>4. CASE override[b] # p
    <3>1. results'[override[b]] = results[override[b]]
      BY <1>3, <2>2, <2>4
    <3> QED BY <2>1, <2>2, <3>1
  <2> QED BY <2>3, <2>4
<1>7. Coherent'
  BY <1>1, <1>3 DEF GInv, Coherent, Exists
<1> QED BY <1>4, <1>6, <1>7 DEF GInv

LEMMA GInvNext == GInv /\ [GateNext]_gateVars => GInv'
<1> SUFFICES ASSUME GInv, [GateNext]_gateVars PROVE GInv'
  OBVIOUS
<1>1. ASSUME NEW e \in Evaluators, StartEvaluation(e) PROVE GInv'
  BY <1>1 DEF StartEvaluation, GInv, TypeOK, Evals, FoundExists, Coherent, Exists
<1>2. ASSUME NEW e \in Evaluators, NEW p \in Policies, NEW v \in Verdicts,
             EvaluatePolicy(e, p, v)
      PROVE  GInv'
  BY <1>2, EvaluatePolicyStep
<1>3. ASSUME NEW e \in Evaluators, FinishEvaluation(e) PROVE GInv'
  <2>1. gate' \in States
    BY <1>3, AggregateType DEF FinishEvaluation
  <2> QED BY <1>3, <2>1 DEF FinishEvaluation, GInv, TypeOK, Evals, FoundExists, Coherent, Exists
<1>4. ASSUME NEW e \in Evaluators, AbortEvaluation(e) PROVE GInv'
  BY <1>4 DEF AbortEvaluation, GInv, TypeOK, Evals, FoundExists, Coherent, Exists
<1>5. ASSUME NEW a \in Admins, OverrideResult(a) PROVE GInv'
  BY <1>5, OverrideResultStep
<1>6. ASSUME NEW a \in Admins, NEW p \in Policies, FindResult(a, p) PROVE GInv'
  BY <1>6 DEF FindResult, GInv, TypeOK, FoundExists, Coherent, Exists
<1>7. ASSUME UNCHANGED gateVars PROVE GInv'
  BY <1>7 DEF gateVars, GInv, TypeOK, FoundExists, Coherent, Exists
<1> QED BY <1>1, <1>2, <1>3, <1>4, <1>5, <1>6, <1>7 DEF GateNext

LEMMA GInvAlways == Spec => []GInv
  BY GInvInit, GInvNext, PTL DEF Spec

\* Every variable keeps its type, with any number of overlapping evaluations.
THEOREM TypeCorrect == Spec => []TypeOK
  BY GInvAlways, PTL DEF GInv

\* No evaluation, however many there are and however they overlap, takes an
\* override away (policyEngine.service.js:163-169).
THEOREM OverridesSurvive == Spec => OverrideSurvives
<1> DEFINE Kept == \A p \in Policies : results[p].by # None => results'[p].by # None
<1>1. GInv /\ [GateNext]_gateVars => [Kept]_gateVars
  <2> SUFFICES ASSUME GInv, GateNext PROVE Kept
    BY DEF gateVars
  <2>1. ASSUME NEW e \in Evaluators, NEW p \in Policies, NEW v \in Verdicts,
               EvaluatePolicy(e, p, v)
        PROVE  Kept
    BY <2>1 DEF EvaluatePolicy, GInv, TypeOK
  <2>2. ASSUME NEW a \in Admins, OverrideResult(a) PROVE Kept
    <3> SUFFICES ASSUME NEW p \in Policies, results[p].by # None PROVE results'[p].by # None
      OBVIOUS
    <3>1. override[a] \in Policies /\ results[override[a]] \in Results
      BY <2>2, ResultExists DEF OverrideResult, GInv, FoundExists
    <3>2. CASE p = override[a]
      <4>1. results'[p].by = a
        BY <2>2, <3>1, <3>2 DEF OverrideResult, GInv, TypeOK, Results
      <4> QED BY <4>1, NoneAssumption
    <3>3. CASE p # override[a]
      BY <2>2, <3>3 DEF OverrideResult, GInv, TypeOK
    <3> QED BY <3>2, <3>3
  <2>3. ASSUME UNCHANGED results PROVE Kept
    BY <2>3
  <2> QED BY <2>1, <2>2, <2>3 DEF GateNext, StartEvaluation, FinishEvaluation,
                                  AbortEvaluation, FindResult
<1> QED BY <1>1, GInvAlways, PTL DEF OverrideSurvives, Spec

-----------------------------------------------------------------------------
(***************************************************************************)
(* One evaluation of the scan, which is what the scan processor makes.     *)
(***************************************************************************)

Statuses(P) == {results[p].status : p \in P}

\* What the only evaluation has seen is what stands in the results it has
\* written; an override in the meantime changes neither.
SeenIsWritten ==
    EvaluatedOnce =>
        /\ (\A e \in Evaluators : eval[e].pc = "idle") => gate = None
        /\ \A e \in Evaluators : eval[e].pc = "loop" =>
             /\ gate = None
             /\ \A p \in Policies \ eval[e].todo : Exists(p)
             /\ eval[e].seen = Statuses(Policies \ eval[e].todo)

OnceInv == GInv /\ SeenIsWritten /\ GateCoversAllPolicies

LEMMA StartEvaluationOnce ==
    ASSUME OnceInv, NEW e \in Evaluators, StartEvaluation(e)
    PROVE  SeenIsWritten' /\ GateCoversAllPolicies'
<1> SUFFICES ASSUME EvaluatedOnce' PROVE SeenIsWritten' /\ GateCoversAllPolicies'
  BY DEF SeenIsWritten, GateCoversAllPolicies
<1>1. /\ eval'[e] = [pc |-> "loop", todo |-> Policies, seen |-> {}]
      /\ eval[e].pc = "idle" /\ gate' = gate
      /\ \A f \in Evaluators : f # e => eval'[f] = eval[f]
  BY DEF StartEvaluation, OnceInv, GInv, TypeOK
<1>2. \A f \in Evaluators : f # e => eval'[f].pc = "idle"
  BY <1>1 DEF EvaluatedOnce
<1>3. gate = None
  BY <1>1, <1>2 DEF OnceInv, SeenIsWritten, EvaluatedOnce
<1> QED BY <1>1, <1>2, <1>3 DEF SeenIsWritten, GateCoversAllPolicies, Statuses

LEMMA EvaluatePolicyOnce ==
    ASSUME OnceInv, NEW e \in Evaluators, NEW p \in Policies, NEW v \in Verdicts,
           EvaluatePolicy(e, p, v)
    PROVE  SeenIsWritten' /\ GateCoversAllPolicies'
<1> SUFFICES ASSUME EvaluatedOnce' PROVE SeenIsWritten' /\ GateCoversAllPolicies'
  BY DEF SeenIsWritten, GateCoversAllPolicies
<1>1. /\ eval'[e] = [pc |-> "loop", todo |-> eval[e].todo \ {p},
                     seen |-> eval[e].seen \cup {FinalStatus(p, v)}]
      /\ eval[e].pc = "loop" /\ p \in eval[e].todo /\ gate' = gate
      /\ \A f \in Evaluators : f # e => eval'[f] = eval[f]
  BY DEF EvaluatePolicy, Evaluated, OnceInv, GInv, TypeOK
<1>2. \A f \in Evaluators : f # e => eval'[f].pc = "idle"
  BY <1>1 DEF EvaluatedOnce
<1>3. EvaluatedOnce
  BY <1>1, <1>2 DEF EvaluatedOnce
<1>4. /\ gate = None
      /\ \A q \in Policies \ eval[e].todo : Exists(q)
      /\ eval[e].seen = Statuses(Policies \ eval[e].todo)
  BY <1>1, <1>3 DEF OnceInv, SeenIsWritten
<1>5. /\ results'[p].status = FinalStatus(p, v)
      /\ \A q \in Policies : q # p => results'[q] = results[q]
  BY DEF EvaluatePolicy, OnceInv, GInv, TypeOK
<1>6. results'[p] # NoResult
  BY <1>5, FinalStatusType DEF NoResult, States, None
<1>7. Policies \ eval'[e].todo = (Policies \ eval[e].todo) \cup {p}
  BY <1>1
<1>8. \A q \in Policies \ eval'[e].todo : results'[q] # NoResult
  BY <1>4, <1>5, <1>6, <1>7 DEF Exists
<1>9. eval'[e].seen = {results'[q].status : q \in Policies \ eval'[e].todo}
  <2>1. {results'[q].status : q \in Policies \ eval'[e].todo}
          = {results[q].status : q \in Policies \ eval[e].todo} \cup {FinalStatus(p, v)}
    BY <1>1, <1>5, <1>7
  <2> QED BY <1>1, <1>4, <2>1 DEF Statuses
<1> QED BY <1>1, <1>2, <1>4, <1>8, <1>9
        DEF SeenIsWritten, GateCoversAllPolicies, Exists, Statuses

LEMMA FinishEvaluationOnce ==
    ASSUME OnceInv, NEW e \in Evaluators, FinishEvaluation(e)
    PROVE  SeenIsWritten' /\ GateCoversAllPolicies'
<1> SUFFICES ASSUME EvaluatedOnce' PROVE SeenIsWritten' /\ GateCoversAllPolicies'
  BY DEF SeenIsWritten, GateCoversAllPolicies
<1>1. /\ eval[e].pc = "loop" /\ eval[e].todo = {} /\ eval'[e].pc = "done"
      /\ gate' = Aggregate(eval[e].seen) /\ results' = results
      /\ \A f \in Evaluators : f # e => eval'[f] = eval[f]
  BY DEF FinishEvaluation, OnceInv, GInv, TypeOK, Evals
<1>2. \A f \in Evaluators : f # e => eval'[f].pc = "idle"
  BY <1>1 DEF EvaluatedOnce
<1>3. EvaluatedOnce
  BY <1>1, <1>2 DEF EvaluatedOnce
<1>4. (\A p \in Policies : Exists(p)) /\ eval[e].seen = Statuses(Policies)
  BY <1>1, <1>3 DEF OnceInv, SeenIsWritten
<1>5. SeenIsWritten'
  BY <1>1, <1>2 DEF SeenIsWritten
<1> QED BY <1>1, <1>4, <1>5 DEF GateCoversAllPolicies, Exists, Statuses

LEMMA AbortEvaluationOnce ==
    ASSUME OnceInv, NEW e \in Evaluators, AbortEvaluation(e)
    PROVE  SeenIsWritten' /\ GateCoversAllPolicies'
<1> SUFFICES ASSUME EvaluatedOnce' PROVE SeenIsWritten' /\ GateCoversAllPolicies'
  BY DEF SeenIsWritten, GateCoversAllPolicies
<1>1. /\ eval[e].pc = "loop" /\ eval'[e].pc = "done" /\ UNCHANGED <<results, gate>>
      /\ \A f \in Evaluators : f # e => eval'[f] = eval[f]
  BY DEF AbortEvaluation, OnceInv, GInv, TypeOK, Evals
<1>2. \A f \in Evaluators : f # e => eval'[f].pc = "idle"
  BY <1>1 DEF EvaluatedOnce
<1>3. EvaluatedOnce
  BY <1>1, <1>2 DEF EvaluatedOnce
<1> QED BY <1>1, <1>2, <1>3 DEF OnceInv, SeenIsWritten, GateCoversAllPolicies, Exists

LEMMA OverrideResultOnce ==
    ASSUME OnceInv, NEW a \in Admins, OverrideResult(a)
    PROVE  SeenIsWritten' /\ GateCoversAllPolicies'
<1> DEFINE p == override[a]
<1>1. /\ p \in Policies /\ results[p] \in Results
      /\ UNCHANGED <<gate, eval>>
  BY ResultExists DEF OverrideResult, OnceInv, GInv, FoundExists
<1>2. \A q \in Policies : /\ results'[q].status = results[q].status
                          /\ q # p => results'[q] = results[q]
  BY <1>1 DEF OverrideResult, OnceInv, GInv, TypeOK, Results
<1>3. results'[p].status \in States
  BY <1>1, <1>2 DEF Results
<1>4. \A q \in Policies : Exists(q) => results'[q] # NoResult
  BY <1>2, <1>3 DEF Exists, NoResult, States, None
<1>5. \A P \in SUBSET Policies :
        {results'[q].status : q \in P} = {results[q].status : q \in P}
  BY <1>2
<1>6. EvaluatedOnce' = EvaluatedOnce
  BY <1>1 DEF EvaluatedOnce
<1>7. SeenIsWritten'
  <2> SUFFICES ASSUME EvaluatedOnce, NEW e \in Evaluators, eval[e].pc = "loop"
               PROVE  /\ gate = None
                      /\ \A q \in Policies \ eval[e].todo : results'[q] # NoResult
                      /\ eval[e].seen = {results'[q].status : q \in Policies \ eval[e].todo}
    BY <1>1, <1>6 DEF SeenIsWritten, OnceInv, Exists, Statuses
  <2> QED BY <1>4, <1>5 DEF OnceInv, SeenIsWritten, Statuses
<1> QED BY <1>1, <1>4, <1>5, <1>6, <1>7 DEF OnceInv, GateCoversAllPolicies, Exists

LEMMA OnceInvNext == OnceInv /\ [GateNext]_gateVars => OnceInv'
<1> SUFFICES ASSUME OnceInv, [GateNext]_gateVars PROVE SeenIsWritten' /\ GateCoversAllPolicies'
  BY GInvNext DEF OnceInv
<1>1. ASSUME NEW a \in Admins, NEW p \in Policies, FindResult(a, p)
      PROVE  SeenIsWritten' /\ GateCoversAllPolicies'
  BY <1>1 DEF FindResult, OnceInv, SeenIsWritten, GateCoversAllPolicies, EvaluatedOnce,
              Exists, Statuses
<1>2. ASSUME UNCHANGED gateVars
      PROVE  SeenIsWritten' /\ GateCoversAllPolicies'
  BY <1>2 DEF gateVars, OnceInv, SeenIsWritten, GateCoversAllPolicies, EvaluatedOnce,
              Exists, Statuses
<1> QED BY <1>1, <1>2, StartEvaluationOnce, EvaluatePolicyOnce, FinishEvaluationOnce,
           AbortEvaluationOnce, OverrideResultOnce DEF GateNext

LEMMA OnceInvInit == GateInit => OnceInv
  BY GInvInit DEF OnceInv, GateInit, SeenIsWritten, GateCoversAllPolicies

LEMMA OnceInvAlways == Spec => []OnceInv
  BY OnceInvInit, OnceInvNext, PTL DEF Spec

\* While the scan was evaluated once at most its gate status covers every
\* policy and is the aggregate of their results, whoever overrides what.
THEOREM GateCovers == Spec => []GateCoversAllPolicies
  BY OnceInvAlways, PTL DEF OnceInv

LEMMA OnceInvAgrees == OnceInv => GateAndDecisionAgree
<1> SUFFICES ASSUME OnceInv, EvaluatedOnce
             PROVE  /\ gate = "FAIL" => Decide(gate) \in {"BLOCKED", "OVERRIDDEN"}
                    /\ gate = "PASS" => Decide(gate) = "ALLOWED"
  BY DEF GateAndDecisionAgree
<1> DEFINE S == {results[p].status : p \in Policies}
<1>1. gate # None => gate = Aggregate(S) /\ \A p \in Policies : Exists(p)
  BY DEF OnceInv, GateCoversAllPolicies
<1>2. ASSUME gate = "FAIL" PROVE Decide(gate) \in {"BLOCKED", "OVERRIDDEN"}
  <2>1. PICK p \in Policies : results[p].status = "FAIL"
    BY <1>1, <1>2, AggregateType DEF None
  <2>2. Exists(p) /\ p \in Failing
    BY <1>1, <1>2, <2>1 DEF OnceInv, GInv, Coherent, Failing, None
  <2> QED BY <2>2 DEF Decide
<1>3. ASSUME gate = "PASS" PROVE Decide(gate) = "ALLOWED"
  <2>1. \A p \in Policies : results[p].status \in States
    BY <1>1, <1>3, ResultExists DEF OnceInv, GInv, Results, None
  <2>2. \A p \in Policies : results[p].status = "PASS"
    <3>1. Aggregate(S) = "PASS"
      BY <1>1, <1>3 DEF None
    <3>2. S \cap {"FAIL", "WARNING", "NOT_EVALUATED"} = {}
      BY <3>1, AggregateType
    <3>3. \A p \in Policies : results[p].status \in S
      OBVIOUS
    <3> HIDE DEF S
    <3> QED BY <2>1, <3>2, <3>3 DEF States
  <2>3. Failing = {}
    BY <2>2 DEF OnceInv, GInv, Coherent, Failing
  <2> QED BY <1>3, <2>3 DEF Decide
<1> QED BY <1>2, <1>3

\* While the scan was evaluated once at most the decision about a deployment
\* never contradicts the gate: what failed blocks unless it was overridden,
\* what passed is allowed.
THEOREM GateAgrees == Spec => []GateAndDecisionAgree
  BY OnceInvAgrees, OnceInvAlways, PTL

-----------------------------------------------------------------------------
(***************************************************************************)
(* The gate under its readers: once it has its status, the only evaluation *)
(* is over, and nothing is written any more but overrides.                 *)
(***************************************************************************)

LEMMA Frozen ==
    ASSUME OnceInv, [GateNext]_gateVars, EvaluatedOnce'
    PROVE  /\ EvaluatedOnce
           /\ gate # None =>
                /\ gate' = gate
                /\ \A p \in Policies : /\ results'[p].status = results[p].status
                                       /\ results[p].by # None => results'[p].by # None
<1>1. \A e \in Evaluators : eval[e].pc # "idle" => eval'[e].pc # "idle"
  <2>1. CASE \E e \in Evaluators : \/ StartEvaluation(e) \/ FinishEvaluation(e)
                                   \/ AbortEvaluation(e)
    BY <2>1 DEF StartEvaluation, FinishEvaluation, AbortEvaluation, OnceInv, GInv, TypeOK, Evals
  <2>2. CASE \E e \in Evaluators, p \in Policies, v \in Verdicts : EvaluatePolicy(e, p, v)
    BY <2>2 DEF EvaluatePolicy, Evaluated, OnceInv, GInv, TypeOK
  <2>3. CASE UNCHANGED eval
    BY <2>3
  <2> QED BY <2>1, <2>2, <2>3 DEF GateNext, FindResult, OverrideResult, gateVars
<1>2. EvaluatedOnce
  BY <1>1 DEF EvaluatedOnce
<1>4. gate # None => \A e \in Evaluators : eval[e].pc # "loop"
  BY <1>2 DEF OnceInv, SeenIsWritten
<1>5. gate # None => gate' = gate
  BY <1>4 DEF GateNext, StartEvaluation, EvaluatePolicy, FinishEvaluation, AbortEvaluation,
              FindResult, OverrideResult, gateVars
<1>6. ASSUME gate # None, NEW p \in Policies
      PROVE  /\ results'[p].status = results[p].status
             /\ results[p].by # None => results'[p].by # None
  <2>1. CASE \E a \in Admins : OverrideResult(a)
    <3>1. PICK a \in Admins : /\ override[a] \in Policies /\ results[override[a]] \in Results
                              /\ results' = [results EXCEPT ![override[a]].by = a]
      BY <2>1, ResultExists DEF OverrideResult, OnceInv, GInv, FoundExists
    <3>2. a # None
      BY NoneAssumption
    <3>3. CASE p = override[a]
      BY <3>1, <3>2, <3>3 DEF OnceInv, GInv, TypeOK, Results
    <3>4. CASE p # override[a]
      BY <3>1, <3>4 DEF OnceInv, GInv, TypeOK
    <3> QED BY <3>3, <3>4
  <2>2. CASE UNCHANGED results
    BY <2>2
  <2> QED BY <1>4, <1>6, <2>1, <2>2
      DEF GateNext, StartEvaluation, EvaluatePolicy, FinishEvaluation, AbortEvaluation,
          FindResult, gateVars
<1> QED BY <1>2, <1>5, <1>6

-----------------------------------------------------------------------------
(***************************************************************************)
(* DeploymentGovernance: a writer that has read the gate with its status   *)
(* holds that status for good, and decides in agreement with it.           *)
(***************************************************************************)

Agrees(decision) ==
    /\ gate = "FAIL" => decision \in {"BLOCKED", "OVERRIDDEN"}
    /\ gate = "PASS" => decision = "ALLOWED"
    /\ decision = "OVERRIDDEN" => \E p \in Policies : results[p].by # None

\* What an execution has by the time it is where it is.
Has(x) ==
    /\ x.pc \in {"called", "scanned", "decided", "changed"} => x.status \in DocStatus
    /\ x.pc \in {"decided", "changed"} => x.decision \in Decisions
    /\ x.pc \in {"idle", "called", "done"} => x.gate = None

Reads(x) ==
    x.gate # None => /\ x.gate = gate
                     /\ x.pc \in {"decided", "changed"} => Agrees(x.decision)

WritersOK ==
    \A w \in Writers : Has(writer[w]) /\ (EvaluatedOnce => Reads(writer[w]))

DocAgrees == EvaluatedOnce /\ doc.settled => gate # None /\ Agrees(doc.decision)

GovInv == OnceInv /\ GovernanceTypeOK /\ WritersOK /\ DocAgrees

Executions == [pc : WriterPc, status : DocStatus \cup {None},
               gate : States \cup {None}, decision : Decisions \cup {None}]

LEMMA DecideType ==
    /\ \A g \in States \cup {None} : Decide(g) \in Decisions
    /\ OnceInv /\ EvaluatedOnce => Agrees(Decide(gate))
<1>1. \A g \in States \cup {None} : Decide(g) \in Decisions
  BY DEF Decide, Decisions
<1>2. ASSUME OnceInv, EvaluatedOnce PROVE Agrees(Decide(gate))
  <2>1. Decide(gate) = "OVERRIDDEN" => \E p \in Policies : results[p].by # None
    BY DEF Decide, Failing
  <2>2. /\ gate = "FAIL" => Decide(gate) \in {"BLOCKED", "OVERRIDDEN"}
        /\ gate = "PASS" => Decide(gate) = "ALLOWED"
    BY <1>2, OnceInvAgrees DEF GateAndDecisionAgree
  <2> QED BY <2>1, <2>2 DEF Agrees
<1> QED BY <1>1, <1>2

LEMMA ReadyIsExecution ==
    /\ Ready \in Executions /\ [Ready EXCEPT !.pc = "done"] \in Executions
    /\ [Ready EXCEPT !.pc = "idle"] \in Executions
    /\ Has(Ready) /\ Has([Ready EXCEPT !.pc = "done"]) /\ Has([Ready EXCEPT !.pc = "idle"])
    /\ Ready.gate = None /\ [Ready EXCEPT !.pc = "done"].gate = None
    /\ [Ready EXCEPT !.pc = "idle"].gate = None
  BY DEF Ready, Executions, WriterPc, Has

LEMMA GovInvInit == Init => GovInv
<1> SUFFICES ASSUME Init PROVE GovInv
  OBVIOUS
<1>1. OnceInv
  BY OnceInvInit DEF Init
<1>2. GovernanceTypeOK
  BY <1>1, ReadyIsExecution, GovernanceAssumption
     DEF Init, GovernanceTypeOK, OnceInv, GInv, Executions, DocStatus
<1>3. WritersOK
  BY ReadyIsExecution DEF Init, WritersOK, Reads
<1>4. DocAgrees
  BY DEF Init, NoDoc, DocAgrees
<1> QED BY <1>1, <1>2, <1>3, <1>4 DEF GovInv

\* A step of the gate: what a writer has read, and what is stored, still holds.
LEMMA GateStepGoverned ==
    ASSUME GovInv, [GateNext]_gateVars, UNCHANGED deployVars
    PROVE  GovInv'
<1> USE DEF GovInv
<1>1. OnceInv'
  BY OnceInvNext
<1>2. UNCHANGED <<traced, shown, doc, writer, shows, faults>>
  BY DEF deployVars
<1>3. GovernanceTypeOK'
  BY <1>1, <1>2 DEF GovernanceTypeOK, OnceInv, GInv
<1>4. ASSUME EvaluatedOnce', gate # None
      PROVE  gate' = gate /\ \A d : Agrees(d) => Agrees(d)'
  BY <1>4, Frozen DEF Agrees
<1>5. WritersOK'
  <2> SUFFICES ASSUME NEW w \in Writers
               PROVE  Has(writer[w])' /\ (EvaluatedOnce' => Reads(writer[w])')
    BY DEF WritersOK
  <2>1. Has(writer[w])'
    BY <1>2 DEF WritersOK, Has
  <2>2. ASSUME EvaluatedOnce', writer[w].gate # None PROVE Reads(writer[w])'
    <3>1. Reads(writer[w])
      BY <2>2, Frozen DEF WritersOK
    <3>2. gate # None /\ writer[w].gate = gate
      BY <2>2, <3>1 DEF Reads
    <3> QED BY <1>2, <1>4, <2>2, <3>1, <3>2 DEF Reads, Agrees
  <2> QED BY <1>2, <2>1, <2>2 DEF Reads
<1>6. DocAgrees'
  BY <1>2, <1>4, Frozen DEF DocAgrees, Agrees
<1> QED BY <1>1, <1>3, <1>5, <1>6

\* A step of a writer changes its own execution, and perhaps the document.
LEMMA WriterStep ==
    ASSUME GovInv, UNCHANGED <<gateVars, traced, shown, shows>>,
           faults' \in 0..MaxFaults,
           NEW w \in Writers, NEW x \in Executions, writer' = [writer EXCEPT ![w] = x],
           Has(x), EvaluatedOnce => Reads(x),
           \/ doc' = doc
           \/ doc' \in Docs /\ (EvaluatedOnce /\ doc'.settled => gate # None /\ Agrees(doc'.decision))
    PROVE  GovInv'
<1> USE DEF GovInv
<1>1. UNCHANGED <<results, gate, eval, override>>
  BY DEF gateVars
<1>2. OnceInv'
  BY <1>1, OnceInvNext DEF gateVars
<1>3. GovernanceTypeOK'
  BY <1>1, <1>2 DEF GovernanceTypeOK, OnceInv, GInv, Executions
<1>4. \A v \in Writers : writer'[v] = IF v = w THEN x ELSE writer[v]
  BY DEF GovernanceTypeOK
<1>5. WritersOK'
  BY <1>1, <1>4 DEF WritersOK, Has, Reads, EvaluatedOnce, Agrees
<1>6. DocAgrees'
  BY <1>1 DEF DocAgrees, EvaluatedOnce, Agrees
<1> QED BY <1>2, <1>3, <1>5, <1>6

LEMMA GovInvNext == GovInv /\ [Next]_vars => GovInv'
<1> SUFFICES ASSUME GovInv, [Next]_vars PROVE GovInv'
  OBVIOUS
<1> USE DEF GovInv
<1>1. CASE ClusterMoves
  <2>1. OnceInv'
    BY <1>1, OnceInvNext DEF ClusterMoves, gateVars
  <2>2. GovernanceTypeOK'
    BY <1>1, <2>1, GovernanceAssumption DEF ClusterMoves, GovernanceTypeOK, OnceInv, GInv
  <2> QED BY <1>1, <2>1, <2>2 DEF ClusterMoves, gateVars, WritersOK, Has, Reads, EvaluatedOnce,
                                   Agrees, DocAgrees
<1>2. ASSUME NEW w \in Writers, Call(w) \/ Observe(w) \/ Step(w) \/ QueryFails(w) \/ Dies(w)
      PROVE  GovInv'
  <2> DEFINE x == writer[w]
  <2>1. x \in Executions /\ Has(x) /\ (EvaluatedOnce => Reads(x)) /\ faults \in 0..MaxFaults
    BY DEF GovernanceTypeOK, Executions, WritersOK
  <2>2. UNCHANGED <<gateVars, traced, shown, shows>> /\ faults' \in 0..MaxFaults
    BY <1>2, <2>1, GovernanceAssumption
       DEF Call, Observe, Step, FindScan, FindResults, CompareDeployment, Upsert, QueryFails, Dies
  <2>3. CASE Call(w) \/ Observe(w)
    <3>1. PICK status \in DocStatus :
             writer' = [writer EXCEPT ![w] = [x EXCEPT !.pc = "called", !.status = status]]
      BY <2>3 DEF Call, Observe, GovernanceTypeOK
    <3>2. x.pc = "idle" /\ UNCHANGED doc
      BY <2>3 DEF Call, Observe
    <3> DEFINE y == [x EXCEPT !.pc = "called", !.status = status]
    <3>3. y \in Executions /\ Has(y) /\ y.gate = None
      BY <2>1, <3>2 DEF Executions, Has, WriterPc
    <3>4. Reads(y)
      BY <3>3 DEF Reads
    <3> QED BY <2>2, <3>1, <3>2, <3>3, <3>4, WriterStep
  <2>4. CASE FindScan(w)
    <3> DEFINE y == [x EXCEPT !.pc = IF traced THEN "scanned" ELSE "decided",
                              !.gate = IF traced THEN gate ELSE None,
                              !.decision = IF traced THEN None ELSE "NOT_EVALUATED"]
    <3>1. writer' = [writer EXCEPT ![w] = y] /\ x.pc = "called" /\ UNCHANGED doc
      BY <2>4 DEF FindScan, GovernanceTypeOK
    <3>2. y \in Executions /\ Has(y)
      BY <2>1, <3>1 DEF Executions, Has, WriterPc, Decisions, GovernanceTypeOK, TypeOK
    <3>3. Reads(y)
      BY <2>1, <3>1 DEF Reads, Executions
    <3> QED BY <2>2, <3>1, <3>2, <3>3, WriterStep
  <2>5. CASE FindResults(w)
    <3> DEFINE y == [x EXCEPT !.pc = "decided", !.decision = Decide(x.gate)]
    <3>1. writer' = [writer EXCEPT ![w] = y] /\ x.pc = "scanned" /\ UNCHANGED doc
      BY <2>5 DEF FindResults, GovernanceTypeOK
    <3>2. y \in Executions /\ Has(y) /\ y.gate = x.gate /\ y.decision = Decide(x.gate)
      <4>1. x.gate \in States \cup {None}
        BY <2>1 DEF Executions
      <4>2. Decide(x.gate) \in Decisions
        BY <4>1, DecideType
      <4> QED BY <2>1, <3>1, <4>2 DEF Executions, Has, WriterPc
    <3>3. EvaluatedOnce => Reads(y)
      <4>1. EvaluatedOnce => Agrees(Decide(gate))
        BY DecideType
      <4> QED BY <2>1, <3>2, <4>1 DEF Reads
    <3> HIDE DEF y
    <3> QED BY <2>2, <3>1, <3>2, <3>3, WriterStep
  <2>6. CASE QueryFails(w)
    <3> DEFINE y == [x EXCEPT !.pc = "decided", !.decision = "NOT_EVALUATED", !.gate = None]
    <3>1. /\ writer' = [writer EXCEPT ![w] = y]
          /\ x.pc \in {"called", "scanned"} /\ UNCHANGED doc
      BY <2>6 DEF QueryFails, GovernanceTypeOK
    <3>2. y \in Executions /\ Has(y) /\ y.gate = None
      BY <2>1, <3>1 DEF Executions, Has, WriterPc, Decisions
    <3>3. Reads(y)
      BY <3>2 DEF Reads
    <3> QED BY <2>2, <3>1, <3>2, <3>3, WriterStep
  <2>7. CASE CompareDeployment(w)
    <3> DEFINE y == [x EXCEPT !.pc = "changed"]
    <3>1. \/ writer' = [writer EXCEPT ![w] = Ready]
          \/ writer' = [writer EXCEPT ![w] = y]
      BY <2>7 DEF CompareDeployment, GovernanceTypeOK
    <3>2. x.pc = "decided" /\ UNCHANGED doc
      BY <2>7 DEF CompareDeployment
    <3>3. y \in Executions /\ Has(y) /\ (EvaluatedOnce => Reads(y))
      BY <2>1, <3>2 DEF Executions, Has, WriterPc, Reads
    <3>4. Ready \in Executions /\ Has(Ready) /\ Reads(Ready)
      BY ReadyIsExecution DEF Reads
    <3> QED BY <2>2, <3>1, <3>2, <3>3, <3>4, WriterStep
  <2>8. CASE Upsert(w)
    <3>1. PICK y \in {[Ready EXCEPT !.pc = "done"], [Ready EXCEPT !.pc = "idle"]} :
             writer' = [writer EXCEPT ![w] = y]
      BY <2>8 DEF Upsert
    <3>2. y \in Executions /\ Has(y) /\ Reads(y)
      BY <3>1, ReadyIsExecution DEF Reads
    <3>3. doc' = Projected(w) /\ x.pc \in {"decided", "changed"}
      BY <2>8 DEF Upsert
    <3>4. /\ Projected(w) \in Docs /\ Projected(w).settled = (x.gate # None)
          /\ Projected(w).decision = x.decision
      BY <2>1, <3>3 DEF Projected, Docs, Has
    <3>5. EvaluatedOnce /\ doc'.settled => gate # None /\ Agrees(doc'.decision)
      BY <2>1, <3>3, <3>4 DEF Reads
    <3> QED BY <2>2, <3>1, <3>2, <3>3, <3>4, <3>5, WriterStep
  <2>9. CASE Dies(w)
    <3>1. PICK y \in {[Ready EXCEPT !.pc = "done"], [Ready EXCEPT !.pc = "idle"]} :
             writer' = [writer EXCEPT ![w] = y]
      BY <2>9 DEF Dies
    <3>2. y \in Executions /\ Has(y) /\ Reads(y) /\ UNCHANGED doc
      BY <2>9, <3>1, ReadyIsExecution DEF Reads, Dies
    <3> QED BY <2>2, <3>1, <3>2, WriterStep
  <2> QED BY <1>2, <2>3, <2>4, <2>5, <2>6, <2>7, <2>8, <2>9 DEF Step
<1>3. CASE GateNext /\ UNCHANGED deployVars
  BY <1>3, GateStepGoverned
<1>4. CASE UNCHANGED vars
  BY <1>4, GateStepGoverned DEF vars
<1> QED BY <1>1, <1>2, <1>3, <1>4 DEF Next

LEMMA GovInvAlways == GovernedSpec => []GovInv
  BY GovInvInit, GovInvNext, PTL DEF GovernedSpec

\* The document and the executions of both services keep their types, whatever
\* interleaves and fails: a stored decision was made, never left empty.
THEOREM GovernedTypeCorrect == GovernedSpec => []GovernanceTypeOK
<1>1. GovInv => GovernanceTypeOK
  BY DEF GovInv
<1> QED BY <1>1, GovInvAlways, PTL

\* What is stored of a deployment after the gate had its status agrees with the
\* gate, however many writers there are and whoever overrides what meanwhile.
THEOREM GovernedByGate == GovernedSpec => []DecidedByGate
<1>1. GovInv => DecidedByGate
  BY DEF GovInv, DocAgrees, Agrees, DecidedByGate
<1> QED BY <1>1, GovInvAlways, PTL

-----------------------------------------------------------------------------
(***************************************************************************)
(* DeliveryState: what the page was last told of a gate that had its       *)
(* status still holds of the gate.                                         *)
(***************************************************************************)

LoadOK == EvaluatedOnce /\ page.load \notin {Idle, None} => page.load = gate

\* An answer that was given with the gate status there.
Holds(answer) ==
    /\ gate # None /\ answer.governance = gate
    /\ answer.security = "FAILED" => gate = "FAIL"
    /\ answer.security = "PASSED" => gate \in {"PASS", "WARNING"}
    /\ answer.fully => \A p \in Violated : results[p].by # None

AnswerOK == EvaluatedOnce /\ page.answer.gated => Holds(page.answer)

ViewInv == OnceInv /\ ViewTypeOK /\ LoadOK /\ AnswerOK

LEMMA AnswerType ==
    ASSUME NEW s \in Security PROVE Answer(s) \in Answers /\ Answer(s).gated = FALSE
  BY DEF Answer, Answers, States

LEMMA GovernanceType ==
    ASSUME NEW g \in States \cup {None}
    PROVE  /\ Governance(g) \in States /\ SecurityStatus(g) \in Security
           /\ g # None => Governance(g) = g
           /\ SecurityStatus(g) = "FAILED" => Governance(g) = "FAIL"
           /\ SecurityStatus(g) = "PASSED" => Governance(g) \in {"PASS", "WARNING"}
<1>1. Governance(g) \in States /\ (g # None => Governance(g) = g)
  BY AggregateType DEF Governance
<1> QED BY <1>1 DEF SecurityStatus, Security

LEMMA ViewInvInit == ViewInit => ViewInv
<1> SUFFICES ASSUME ViewInit PROVE ViewInv
  OBVIOUS
<1>1. OnceInv
  BY OnceInvInit DEF ViewInit
<1>2. Answer("NOT_STARTED") \in Answers /\ Answer("NOT_STARTED").gated = FALSE
  BY AnswerType DEF Security
<1> QED BY <1>1, <1>2 DEF ViewInit, ViewInv, ViewTypeOK, ScanStatus, LoadOK, AnswerOK

\* A step of the gate, or of the scan, or none, with the page as it is.
LEMMA GateStepShown ==
    ASSUME ViewInv, [GateNext]_gateVars, UNCHANGED page,
           scan' \in ScanStatus, erring' \in SUBSET Policies
    PROVE  ViewInv'
<1> USE DEF ViewInv
<1>1. OnceInv' /\ ViewTypeOK'
  BY OnceInvNext DEF ViewTypeOK
<1>2. ASSUME EvaluatedOnce', page.load \notin {Idle, None} PROVE page.load = gate'
  <2>1. page.load = gate
    BY <1>2, Frozen DEF LoadOK
  <2> QED BY <1>2, <2>1, Frozen
<1>3. ASSUME EvaluatedOnce', page.answer.gated PROVE Holds(page.answer)'
  <2>1. Holds(page.answer)
    BY <1>3, Frozen DEF AnswerOK
  <2>2. /\ gate # None /\ gate' = gate
        /\ \A p \in Policies : /\ results'[p].status = results[p].status
                               /\ results[p].by # None => results'[p].by # None
    BY <1>3, <2>1, Frozen DEF Holds
  <2> QED BY <2>1, <2>2 DEF Holds, Violated
<1> QED BY <1>1, <1>2, <1>3 DEF LoadOK, AnswerOK

\* A step of the page.
LEMMA PageStep ==
    ASSUME ViewInv, UNCHANGED <<gateVars, scan, erring>>, ViewTypeOK',
           EvaluatedOnce => \/ page'.load \in {Idle, None}
                            \/ page'.load = gate,
           EvaluatedOnce /\ page'.answer.gated => Holds(page'.answer)
    PROVE  ViewInv'
<1>1. UNCHANGED <<results, gate, eval, override>>
  BY DEF gateVars
<1>2. OnceInv'
  BY OnceInvNext DEF ViewInv
<1> QED BY <1>1, <1>2 DEF ViewInv, LoadOK, AnswerOK, Holds, Violated, EvaluatedOnce

LEMMA ViewInvNext == ViewInv /\ [ViewNext]_viewVars => ViewInv'
<1> SUFFICES ASSUME ViewInv, [ViewNext]_viewVars PROVE ViewInv'
  OBVIOUS
<1>0. ViewTypeOK
  BY DEF ViewInv
<1>1. CASE ScanMoves
  BY <1>0, <1>1, GateStepShown DEF ScanMoves, ViewTypeOK, ScanStatus
<1>2. CASE GateMoves
  <2>1. [GateNext]_gateVars /\ UNCHANGED <<scan, page>>
    BY <1>2 DEF GateMoves, Evaluate, GateNext
  <2>2. erring' \in SUBSET Policies
    BY <1>0, <1>2 DEF GateMoves, Evaluate, ViewTypeOK
  <2> QED BY <1>0, <2>1, <2>2, GateStepShown DEF ViewTypeOK
<1>3. CASE ReadScan
  <2>1. gate \in States \cup {None}
    BY DEF ViewInv, OnceInv, GInv, TypeOK
  <2>2. CASE \E s \in Security : page' = [load |-> Idle, answer |-> Answer(s)]
    <3>1. PICK a \in Answers : page' = [load |-> Idle, answer |-> a] /\ a.gated = FALSE
      BY <2>2, AnswerType
    <3>2. UNCHANGED <<gateVars, scan, erring>>
      BY <1>3 DEF ReadScan
    <3> QED BY <1>0, <3>1, <3>2, PageStep DEF ViewTypeOK
  <2>3. CASE page' = [page EXCEPT !.load = gate]
    BY <1>0, <1>3, <2>1, <2>3, PageStep DEF ReadScan, ViewTypeOK, ViewInv, AnswerOK
  <2> QED BY <1>0, <1>3, <2>2, <2>3 DEF ReadScan, Show, ViewTypeOK, ScanStatus, Security, Untraced
<1>4. CASE ReadResults
  <2> DEFINE g == page.load
             answer == [security |-> SecurityStatus(g), governance |-> Governance(g),
                        overridden |-> \E p \in Policies : results[p].by # None,
                        fully |-> Violated # {} /\ \A p \in Violated : results[p].by # None,
                        gated |-> g # None]
  <2>1. page' = [load |-> Idle, answer |-> answer] /\ g # Idle
    BY <1>4 DEF ReadResults, Show
  <2>2. g \in States \cup {None}
    BY <1>0, <2>1 DEF ViewTypeOK
  <2>3. answer \in Answers
    BY <2>2, GovernanceType DEF Answers
  <2>4. EvaluatedOnce /\ answer.gated => Holds(answer)
    <3>1. EvaluatedOnce /\ g # None => g = gate /\ Governance(g) = g
      BY <2>1, <2>2, GovernanceType DEF ViewInv, LoadOK
    <3> QED BY <2>2, <3>1, GovernanceType DEF Holds
  <2> HIDE DEF answer
  <2> QED BY <1>0, <1>4, <2>1, <2>3, <2>4, PageStep DEF ReadResults, ViewTypeOK
<1>5. CASE ReadFails
  <2>1. Answer("ERROR") \in Answers /\ Answer("ERROR").gated = FALSE
    BY AnswerType DEF Security
  <2> QED BY <1>0, <1>5, <2>1, PageStep DEF ReadFails, Show, ViewTypeOK
<1>6. CASE UNCHANGED viewVars
  BY <1>0, <1>6, GateStepShown DEF viewVars, ViewTypeOK
<1> QED BY <1>1, <1>2, <1>3, <1>4, <1>5, <1>6 DEF ViewNext

LEMMA ViewInvAlways == ViewSpec => []ViewInv
  BY ViewInvInit, ViewInvNext, PTL DEF ViewSpec

\* The page, the scan and the errors of the results keep their types.
THEOREM ViewTypeCorrect == ViewSpec => []ViewTypeOK
<1>1. ViewInv => ViewTypeOK
  BY DEF ViewInv
<1> QED BY <1>1, ViewInvAlways, PTL

\* What the page shows of a gate it read with its status, and what a deployment
\* is decided by, do not contradict each other.
THEOREM PageAgrees == ViewSpec => []ShownMatchesDecision
<1>1. ViewInv => ShownMatchesDecision
  <2> SUFFICES ASSUME ViewInv, EvaluatedOnce, page.answer.gated
               PROVE  /\ GovernanceStage(page.answer) = "failed" \/ page.answer.security = "FAILED"
                            => Decide(gate) \in {"BLOCKED", "OVERRIDDEN"}
                      /\ SecurityStage(page.answer) = "completed" =>
                            \A p \in Failing : results[p].status = "NOT_EVALUATED"
                      /\ page.answer.fully => \A p \in Failing : results[p].by # None
                                                         \/ results[p].status = "NOT_EVALUATED"
    BY DEF ShownMatchesDecision
  <2> DEFINE answer == page.answer
  <2>1. Holds(answer) /\ answer \in Answers
    BY DEF ViewInv, AnswerOK, ViewTypeOK
  <2>2. gate # None /\ gate = Aggregate({results[p].status : p \in Policies})
    BY <2>1 DEF Holds, ViewInv, OnceInv, GateCoversAllPolicies
  <2>3. \A p \in Failing : results[p].status \in {"FAIL", "NOT_EVALUATED"}
    <3> SUFFICES ASSUME NEW p \in Failing PROVE results[p].status \in {"FAIL", "NOT_EVALUATED"}
      OBVIOUS
    <3>1. p \in Policies /\ Exists(p) /\ Enforcement[p] = "blocking" /\ ~results[p].passed
      BY DEF Failing
    <3>2. results[p].status \in States
      BY <3>1, ResultExists DEF ViewInv, OnceInv, GInv, Results
    <3> QED BY <3>1, <3>2 DEF ViewInv, OnceInv, GInv, Coherent, States
  <2>4. GovernanceStage(answer) = "failed" \/ answer.security = "FAILED" => gate = "FAIL"
    <3>1. GovernanceStage(answer) = "failed" => answer.governance = "FAIL"
      BY <2>1 DEF GovernanceStage, Answers, States
    <3> QED BY <2>1, <3>1 DEF Holds
  <2>5. gate = "FAIL" => Decide(gate) \in {"BLOCKED", "OVERRIDDEN"}
    BY OnceInvAgrees DEF ViewInv, GateAndDecisionAgree
  <2>6. SecurityStage(answer) = "completed" => gate \in {"PASS", "WARNING"}
    <3>1. SecurityStage(answer) = "completed" => answer.security = "PASSED"
      BY <2>1 DEF SecurityStage, Answers, Security
    <3> QED BY <2>1, <3>1 DEF Holds
  <2>7. gate \in {"PASS", "WARNING"} => \A p \in Policies : results[p].status # "FAIL"
    BY <2>2, AggregateType
  <2>8. answer.fully => \A p \in Policies : results[p].status = "FAIL" => results[p].by # None
    BY <2>1 DEF Holds, Violated
  <2>9. Failing \subseteq Policies
    BY DEF Failing
  <2> QED BY <2>3, <2>4, <2>5, <2>6, <2>7, <2>8, <2>9
<1> QED BY <1>1, ViewInvAlways, PTL
=============================================================================
