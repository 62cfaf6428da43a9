-------------------------- MODULE DeploymentGovernance --------------------------
(***************************************************************************)
(* A Deployment document beside the policy gate of the scan of its commit. *)
(* recordDeployment writes it when the API is told of a deployment, and    *)
(* ingestOrchestrationObservation when the cluster is observed, again and  *)
(* again; the API takes deployments of every provider, so both may write   *)
(* the same one.  Both store a governance decision that is read off the    *)
(* gate while it is evaluated and overridden.                              *)
(*                                                                         *)
(* The decision is two queries: the scan, with its gateStatus, and then    *)
(* the results.                                                            *)
(***************************************************************************)
EXTENDS PolicyGate, Naturals

CONSTANTS
    Calls,          \* calls of recordDeployment
    Slots,          \* concurrency of the orchestration worker
    MaxShown,       \* bound: how often what the cluster shows changes
    MaxFaults       \* bound: queries that fail and executions that die

ASSUME GovernanceAssumption ==
    Calls \cap Slots = {} /\ MaxShown \in Nat /\ MaxFaults \in Nat

VARIABLES
    traced,     \* a scan is found by the pipeline run or the commit
    shown,      \* the status that a fresh observation maps to
    doc,        \* the Deployment document
    writer,     \* the executions of the two services
    shows, faults

deployVars == <<traced, shown, doc, writer, shows, faults>>
vars == <<gateVars, deployVars>>

Writers == Calls \cup Slots

DocStatus == {"queued", "in_progress", "success", "failed"}
Decisions == {"ALLOWED", "OVERRIDDEN", "BLOCKED", "NOT_EVALUATED"}

\* settled: history, whether the gate had its status when the decision was taken.
Docs  == [status : DocStatus, decision : Decisions, violation : BOOLEAN, settled : BOOLEAN]
NoDoc == [status |-> None, decision |-> None, violation |-> FALSE, settled |-> FALSE]

WriterPc == {"idle", "called", "scanned", "decided", "changed", "done"}
Ready == [pc |-> "idle", status |-> None, gate |-> None, decision |-> None]

GovernanceTypeOK ==
    /\ TypeOK
    /\ traced \in BOOLEAN
    /\ shown \in DocStatus
    /\ doc \in Docs \cup {NoDoc}
    /\ writer \in [Writers -> [pc : WriterPc, status : DocStatus \cup {None},
                               gate : States \cup {None}, decision : Decisions \cup {None}]]
    /\ shows \in 0..MaxShown
    /\ faults \in 0..MaxFaults

Init ==
    /\ GateInit
    /\ traced \in BOOLEAN
    /\ shown = "in_progress"
    /\ doc = NoDoc
    /\ writer = [w \in Writers |-> Ready]
    /\ shows = 0
    /\ faults = 0

-----------------------------------------------------------------------------
GoTo(w, pc) == writer' = [writer EXCEPT ![w].pc = pc]

\* The rollout goes on (external).
ClusterMoves ==
    /\ shows < MaxShown
    /\ shows' = shows + 1
    /\ shown' \in DocStatus \ {shown, "queued"}
    /\ UNCHANGED <<gateVars, traced, doc, writer, faults>>

\* The API is told of the deployment, with any status and in any order.
Call(w) ==
    /\ w \in Calls
    /\ writer[w].pc = "idle"
    /\ \E status \in DocStatus \ {"queued"} :
          writer' = [writer EXCEPT ![w].pc = "called", ![w].status = status]
    /\ UNCHANGED <<gateVars, traced, shown, doc, shows, faults>>

\* A slot of the worker has an observation.
Observe(w) ==
    /\ w \in Slots
    /\ writer[w].pc = "idle"
    /\ writer' = [writer EXCEPT ![w].pc = "called", ![w].status = shown]
    /\ UNCHANGED <<gateVars, traced, shown, doc, shows, faults>>

\* evaluateDeploymentGovernance: the newest scan; without one it is over.
FindScan(w) ==
    /\ writer[w].pc = "called"
    /\ writer' = [writer EXCEPT ![w].pc = IF traced THEN "scanned" ELSE "decided",
                                ![w].gate = IF traced THEN gate ELSE None,
                                ![w].decision = IF traced THEN None ELSE "NOT_EVALUATED"]
    /\ UNCHANGED <<gateVars, traced, shown, doc, shows, faults>>

FindResults(w) ==
    /\ writer[w].pc = "scanned"
    /\ writer' = [writer EXCEPT ![w].pc = "decided", ![w].decision = Decide(writer[w].gate)]
    /\ UNCHANGED <<gateVars, traced, shown, doc, shows, faults>>

\* An error of either query is caught: NOT_EVALUATED.
QueryFails(w) ==
    /\ writer[w].pc \in {"called", "scanned"}
    /\ faults < MaxFaults
    /\ faults' = faults + 1
    /\ writer' = [writer EXCEPT ![w].pc = "decided", ![w].decision = "NOT_EVALUATED",
                                ![w].gate = None]
    /\ UNCHANGED <<gateVars, traced, shown, doc, shows>>

\* The fields of the update: a success of what is blocked is a violation.
Projected(w) ==
    [status    |-> writer[w].status,
     decision  |-> writer[w].decision,
     violation |-> writer[w].status = "success" /\ writer[w].decision = "BLOCKED",
     settled   |-> writer[w].gate # None]

UnchangedStatus(d, e) == d.status = e.status

\* hasChanged, as far as this module tells.
Unchanged(d, e) ==
    /\ d.status = e.status
    /\ d.decision = e.decision
    /\ d.violation = e.violation

\* ingestOrchestrationObservation: findOne, and nothing more if nothing changed.
CompareDeployment(w) ==
    /\ w \in Slots
    /\ writer[w].pc = "decided"
    /\ writer' = IF Unchanged(doc, Projected(w))
                   THEN [writer EXCEPT ![w] = Ready]
                   ELSE [writer EXCEPT ![w].pc = "changed"]
    /\ UNCHANGED <<gateVars, traced, shown, doc, shows, faults>>

\* findOneAndUpdate with upsert, no condition on what the document shows.
Upsert(w) ==
    /\ writer[w].pc = IF w \in Calls THEN "decided" ELSE "changed"
    /\ doc' = Projected(w)
    /\ writer' = [writer EXCEPT ![w] = [Ready EXCEPT !.pc = IF w \in Calls THEN "done" ELSE "idle"]]
    /\ UNCHANGED <<gateVars, traced, shown, shows, faults>>

\* The process dies, or a write fails.
Dies(w) ==
    /\ writer[w].pc \notin {"idle", "done"}
    /\ faults < MaxFaults
    /\ faults' = faults + 1
    /\ writer' = [writer EXCEPT ![w] = [Ready EXCEPT !.pc = IF w \in Calls THEN "done" ELSE "idle"]]
    /\ UNCHANGED <<gateVars, traced, shown, doc, shows>>

Step(w) == FindScan(w) \/ FindResults(w) \/ CompareDeployment(w) \/ Upsert(w)

Next ==
    \/ GateNext /\ UNCHANGED deployVars
    \/ ClusterMoves
    \/ \E w \in Writers : Call(w) \/ Observe(w) \/ Step(w) \/ QueryFails(w) \/ Dies(w)

\* Scheduled reconciliation observes for ever, and every execution goes on.
Fairness ==
    /\ \A w \in Slots : WF_vars(Step(w))
    /\ WF_vars(\E w \in Slots : Observe(w))

GovernedSpec == Init /\ [][Next]_vars /\ Fairness

-----------------------------------------------------------------------------
(***************************************************************************)
(* Properties.                                                             *)
(***************************************************************************)

\* A decision taken when the gate had its status agrees with the gate, however
\* the two queries, an override and the other writers interleave: a failed gate
\* is never stored as allowed, and a passed one as nothing else.
DecidedByGate ==
    EvaluatedOnce /\ doc.settled =>
        /\ gate = "FAIL" => doc.decision \in {"BLOCKED", "OVERRIDDEN"}
        /\ gate = "PASS" => doc.decision = "ALLOWED"
        /\ doc.decision = "OVERRIDDEN" => \E p \in Policies : results[p].by # None

\* An observed deployment ends up showing what the cluster shows, with the
\* decision that the results and overrides then stand for and the violation that
\* follows, whatever was stored while they changed.
EventuallyGoverned ==
    <>[](/\ doc.status = shown
         /\ doc.decision = (IF traced THEN Decide(gate) ELSE "NOT_EVALUATED")
         /\ doc.violation = (shown = "success" /\ doc.decision = "BLOCKED"))
=============================================================================
