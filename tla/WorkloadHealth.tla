---------------------------- MODULE WorkloadHealth ----------------------------
(***************************************************************************)
(* What the orchestration providers make of the answers of Kubernetes and  *)
(* Argo CD: the health of a workload, its drift, and the deployment status *)
(* it is mapped to.  Pure functions of one answer.                         *)
(*                                                                         *)
(* An answer of Kubernetes is a record of the counts in it; a field that   *)
(* is absent is 0, as normalizeWorkloadStatus reads it, and so is an       *)
(* observedGeneration that is absent.                                      *)
(***************************************************************************)
EXTENDS Naturals

Health == {"healthy", "progressing", "degraded", "missing", "suspended", "unknown"}
Sync   == {"synced", "out_of_sync", "unknown"}
DeploymentStatus == {"queued", "in_progress", "success", "failed", "cancelled", "unknown"}

\* An observedGeneration that is not there is not compared.
Lagging(w) == w.observed # 0 /\ w.observed < w.generation

\* stuck: ProgressDeadlineExceeded or ReplicaFailure.
DeploymentHealth(w) ==
    IF w.stuck THEN "degraded"
    ELSE IF Lagging(w) THEN "progressing"
    ELSE IF w.desired = 0
      THEN (IF w.available = 0 /\ w.ready = 0 THEN "healthy" ELSE "progressing")
    ELSE IF w.available >= w.desired /\ w.updated >= w.desired THEN "healthy"
    ELSE "progressing"

StatefulSetHealth(w) ==
    IF Lagging(w) THEN "progressing"
    ELSE IF w.desired = 0 THEN (IF w.ready = 0 THEN "healthy" ELSE "progressing")
    ELSE IF w.ready >= w.desired /\ ~w.mismatch /\ w.updated >= w.desired THEN "healthy"
    ELSE "progressing"

\* The generation is not looked at; desired is desiredNumberScheduled.
DaemonSetHealth(w) ==
    IF w.unavailable > 0 THEN "degraded"
    ELSE IF w.desired = 0 \/ w.ready >= w.desired THEN "healthy"
    ELSE "progressing"

\* containers: what the containers of the pod are doing.
PodHealth(p) ==
    IF p.containers \cap {"backing off", "exited with an error"} # {} \/ p.phase = "Failed"
      THEN "degraded"
    ELSE IF p.phase = "Pending" THEN "progressing"
    ELSE IF p.phase = "Succeeded" THEN "healthy"
    ELSE IF p.phase = "Running"
      THEN (IF p.containers = {"ready"} THEN "healthy" ELSE "progressing")
    ELSE "unknown"

-----------------------------------------------------------------------------
(***************************************************************************)
(* An observation: [health, sync, drift, phase].                           *)
(***************************************************************************)

DriftsByGeneration(w, health) ==
    \/ w.observed # 0 /\ w.generation # w.observed
    \/ w.desired > 0 /\ (w.ready < w.desired \/ w.available < w.desired)
    \/ health = "degraded"

\* detectDrift: generations apart, fewer replicas than desired, or degraded.
Drifts(w, health) ==
    \/ w.observed # 0 /\ w.generation # w.observed
    \/ w.desired > 0 /\ (w.ready < w.desired \/ w.available < w.desired
                           \/ w.updated < w.desired)
    \/ health = "degraded"

\* The worker's reading of a provider that names no sync status.
Observed(health, drift) ==
    [health |-> health, sync |-> IF health = "healthy" THEN "synced" ELSE "unknown",
     drift |-> drift, phase |-> "none"]

ObserveWorkload(kind, w) ==
    LET health == CASE kind = "deployment"  -> DeploymentHealth(w)
                    [] kind = "statefulset" -> StatefulSetHealth(w)
                    [] kind = "daemonset"   -> DaemonSetHealth(w)
    IN  Observed(health, Drifts(w, health))

\* One replica, ready if the pod is healthy; no generation.
ObservePod(p) == Observed(PodHealth(p), PodHealth(p) # "healthy")

LowerCase(phase) ==
    CASE phase = "Running" -> "running"  [] phase = "Succeeded" -> "succeeded"
      [] phase = "Failed"  -> "failed"   [] phase = "Error"     -> "error"
      [] phase = "none"    -> "none"

\* unsynced: resources of the application that are not Synced.
ObserveApp(a) ==
    [health |-> a.health, sync |-> a.sync,
     drift |-> a.sync = "out_of_sync" \/ a.unsynced > 0,
     phase |-> LowerCase(a.phase)]

-----------------------------------------------------------------------------
\* mapObservationToDeploymentStatus, rule after rule.
MapStatus(o) ==
    IF o.phase \in {"Failed", "Error"} THEN "failed"
    ELSE IF o.phase = "Running" \/ o.health = "progressing" THEN "in_progress"
    ELSE IF o.health = "healthy" THEN "success"
    ELSE IF o.health \in {"degraded", "missing"} THEN "failed"
    ELSE IF o.health = "suspended" THEN "cancelled"
    ELSE IF o.phase \in {"Initiated", "Queued"} THEN "queued"
    ELSE "unknown"
=============================================================================
