-------------------------------- MODULE Rollout --------------------------------
(***************************************************************************)
(* A workload that is rolled out while the orchestration worker looks at   *)
(* it: the slots of the worker fetch its state, store the observation and  *)
(* project it into the Deployment document, and overlap.  The cluster and  *)
(* Argo CD are external: they move on their own, and serve a status that   *)
(* lags behind.                                                            *)
(*                                                                         *)
(* The governance decision that goes with the status is                    *)
(* DeploymentGovernance; deliveries and jobs are OrchestrationDelivery.    *)
(***************************************************************************)
EXTENDS WorkloadHealth, FiniteSets

CONSTANTS
    Slots,          \* concurrency of the orchestration worker
    MaxReplicas,    \* bound: replicas of the workload
    Surge,          \* pods a Deployment may have above its replicas
    MaxChanges,     \* bound: changes of the workload by its owner, and crashes of pods
    MaxFaults       \* bound: executions that die

ASSUME RolloutAssumption ==
    MaxReplicas \in Nat \ {0} /\ Surge \in Nat /\ MaxChanges \in Nat /\ MaxFaults \in Nat

VARIABLES
    env,            \* kind of the workload; named: its name is the integration's
    spec,           \* generation and replicas, as the owner set them last
    pods,           \* those of earlier templates (all ready), of the newest one,
                    \* and how many of the latter are ready
    status,         \* what the controller wrote last of generation and pods
    app, pod,       \* an Argo CD application, or a pod, where that is the kind
    observation,    \* the OrchestrationObservation
    deployment,     \* the Deployment document
    slot,           \* the executions of processOrchestrationJob
    changes, faults

world == <<spec, pods, status, app, pod>>
rolloutVars == <<env, world, observation, deployment, slot, changes, faults>>

Workloads == {"deployment", "statefulset", "daemonset"}
Kinds     == Workloads \cup {"pod", "application"}

Apps == [sync : {"synced", "out_of_sync"}, health : {"healthy", "progressing", "degraded"},
         phase : {"none", "Running", "Succeeded", "Failed"}, unsynced : 0..1]
PodStates == [phase : {"Pending", "Running", "Succeeded", "Failed"},
              containers : SUBSET {"ready", "starting", "backing off", "exited with an error"}]

\* What was so when an answer was given: the workload runs what its owner wants,
\* or does not; or it does not run it and has pods to spare, or its controller
\* has not looked at it.
Truths == {"converged", "partial", "surplus", "unseen"}

NoneSeen == [health |-> "none", sync |-> "none", drift |-> FALSE, phase |-> "none"]
Observations == [health : Health, sync : Sync, drift : BOOLEAN,
                 phase : {"none", "running", "succeeded", "failed", "error"}]
NoDeployment == [status |-> "none", health |-> "none", sync |-> "none", drift |-> FALSE,
                 truth |-> "none"]
Deployments  == [status : DeploymentStatus, health : Health, sync : Sync,
                 drift : BOOLEAN, truth : Truths]

Idle == [pc |-> "idle", seen |-> NoneSeen, truth |-> "none"]

MostPods == MaxReplicas + Surge

RolloutTypeOK ==
    /\ env \in [kind : Kinds, named : BOOLEAN]
    /\ spec \in [generation : 1..(MaxChanges + 1), desired : 0..MaxReplicas]
    /\ pods \in [old : 0..MostPods, new : 0..MostPods, ready : 0..MostPods]
    /\ status \in [observed : 0..(MaxChanges + 1), desired : 0..MaxReplicas,
                   old : 0..MostPods, new : 0..MostPods, ready : 0..MostPods,
                   stuck : BOOLEAN, mismatch : BOOLEAN]
    /\ app \in Apps
    /\ pod \in PodStates
    /\ observation \in Observations \cup {NoneSeen}
    /\ deployment \in Deployments \cup {NoDeployment}
    /\ slot \in [Slots -> [pc : {"idle", "fetched", "stored", "changed"},
                           seen : Observations \cup {NoneSeen},
                           truth : Truths \cup {"none"}]]
    /\ changes \in 0..MaxChanges
    /\ faults \in 0..MaxFaults

\* A workload that was just created, or an application that is in sync.
RolloutInit ==
    /\ env \in [kind : Kinds, named : BOOLEAN]
    /\ env.named => env.kind \in {"deployment", "application"}
    /\ spec = [generation |-> 1, desired |-> MaxReplicas]
    /\ pods = [old |-> 0, new |-> 0, ready |-> 0]
    /\ status = [observed |-> 0, desired |-> 0, old |-> 0, new |-> 0, ready |-> 0,
                 stuck |-> FALSE, mismatch |-> FALSE]
    /\ app = [sync |-> "synced", health |-> "healthy", phase |-> "none", unsynced |-> 0]
    /\ pod = [phase |-> "Pending", containers |-> {"starting"}]
    /\ observation = NoneSeen
    /\ deployment = NoDeployment
    /\ slot = [j \in Slots |-> Idle]
    /\ changes = 0
    /\ faults = 0

-----------------------------------------------------------------------------
(***************************************************************************)
(* The workload (external).                                                *)
(***************************************************************************)

IsWorkload == env.kind \in Workloads
Stays == UNCHANGED <<env, observation, deployment, slot, faults>>

Change ==
    /\ changes < MaxChanges
    /\ changes' = changes + 1
    /\ Stays

\* The owner sets a new template, or scales.
NewTemplate ==
    /\ IsWorkload
    /\ spec' = [spec EXCEPT !.generation = @ + 1]
    /\ pods' = [old |-> pods.old + pods.ready, new |-> 0, ready |-> 0]
    /\ Change
    /\ UNCHANGED <<status, app, pod>>

Scale ==
    /\ IsWorkload
    /\ \E n \in 0..MaxReplicas \ {spec.desired} :
          spec' = [generation |-> spec.generation + 1, desired |-> n]
    /\ Change
    /\ UNCHANGED <<pods, status, app, pod>>

Crash ==
    /\ IsWorkload
    /\ pods.ready > 0
    /\ pods' = [pods EXCEPT !.ready = @ - 1]
    /\ Change
    /\ UNCHANGED <<spec, status, app, pod>>

Allowed == spec.desired + (IF env.kind = "deployment" THEN Surge ELSE 0)

CreatePod ==
    /\ IsWorkload
    /\ pods.old + pods.new < Allowed
    /\ pods.new < spec.desired
    /\ pods' = [pods EXCEPT !.new = @ + 1]
    /\ UNCHANGED <<spec, status, app, pod, changes>> /\ Stays

PodReady ==
    /\ IsWorkload
    /\ pods.ready < pods.new
    /\ pods' = [pods EXCEPT !.ready = @ + 1]
    /\ UNCHANGED <<spec, status, app, pod, changes>> /\ Stays

\* With a surge an old pod goes when a new one can take over, else to make room.
DeletePod ==
    /\ IsWorkload
    /\ \/ /\ pods.old > 0
          /\ pods.old + pods.ready > spec.desired \/ Allowed = spec.desired
          /\ pods' = [pods EXCEPT !.old = @ - 1]
       \/ /\ pods.new > spec.desired
          /\ pods' = [pods EXCEPT !.new = @ - 1,
                                  !.ready = IF @ = pods.new THEN @ - 1 ELSE @]
    /\ UNCHANGED <<spec, status, app, pod, changes>> /\ Stays

\* The controller writes generation and counts together.
WriteStatus ==
    /\ IsWorkload
    /\ status' \in [observed : {spec.generation}, desired : {spec.desired}, old : {pods.old},
                   new : {pods.new}, ready : {pods.ready}, stuck : {FALSE, status.stuck},
                   mismatch : {pods.old > 0 \/ (status.mismatch /\ pods.ready < pods.new)}]
    /\ UNCHANGED <<spec, pods, app, pod, changes>> /\ Stays

\* ProgressDeadlineExceeded, or a replica cannot be created.
GetStuck ==
    /\ env.kind = "deployment"
    /\ status.ready < status.desired
    /\ ~status.stuck
    /\ status' = [status EXCEPT !.stuck = TRUE]
    /\ Change
    /\ UNCHANGED <<spec, pods, app, pod>>

\* A pod of its own moves on as it likes.
PodMoves ==
    /\ env.kind = "pod"
    /\ pod' \in PodStates
    /\ Change
    /\ UNCHANGED <<spec, pods, status, app>>

\* A commit is pushed; or a resource is changed by hand.
AppDrifts ==
    /\ env.kind = "application"
    /\ app' \in {[app EXCEPT !.sync = "out_of_sync"], [app EXCEPT !.unsynced = 1]}
    /\ Change
    /\ UNCHANGED <<spec, pods, status, pod>>

\* A sync starts; succeeds, and the resources come up again; or fails.
AppSyncs ==
    /\ env.kind = "application"
    /\ \/ /\ app.phase # "Running"
          /\ app.sync = "out_of_sync" \/ app.unsynced > 0
          /\ app' = [app EXCEPT !.phase = "Running"]
       \/ /\ app.phase = "Running"
          /\ app' \in {[sync |-> "synced", health |-> "progressing",
                        phase |-> "Succeeded", unsynced |-> 0],
                       [app EXCEPT !.phase = "Failed"]}
    /\ UNCHANGED <<spec, pods, status, pod, changes>> /\ Stays

AppHealth ==
    /\ env.kind = "application"
    /\ app.health = "progressing"
    /\ app' = [app EXCEPT !.health = "healthy"]
    /\ UNCHANGED <<spec, pods, status, pod, changes>> /\ Stays


-----------------------------------------------------------------------------
(***************************************************************************)
(* processOrchestrationJob.                                                *)
(***************************************************************************)

Converged ==
    CASE IsWorkload -> /\ pods = [old |-> 0, new |-> spec.desired, ready |-> spec.desired]
                       /\ status.observed = spec.generation /\ ~status.stuck
                       /\ status.old = 0 /\ status.ready = status.desired /\ ~status.mismatch
      [] env.kind = "pod" -> \/ pod.phase = "Succeeded" \/ pod.containers = {"ready"}
      [] env.kind = "application" -> /\ app.sync = "synced" /\ app.unsynced = 0
                                     /\ app.health = "healthy"

\* The answer of the API: what the controller wrote, beside the spec.
Served ==
    LET ready == status.old + status.ready
        total == status.old + status.new IN
    [generation |-> spec.generation, observed |-> status.observed,
     desired |-> IF env.kind = "daemonset" THEN status.desired ELSE spec.desired,
     ready |-> ready, available |-> ready, updated |-> status.new,
     unavailable |-> IF ready < status.desired THEN status.desired - ready ELSE 0,
     stuck |-> status.stuck, mismatch |-> status.mismatch]

Truth ==
    IF IsWorkload
      THEN IF status.observed = 0 THEN "unseen"
           ELSE IF status.observed = spec.generation /\ status.ready >= spec.desired THEN "converged"
           ELSE IF status.old + status.new > spec.desired THEN "surplus" ELSE "partial"
      ELSE IF Converged THEN "converged" ELSE "partial"

Observation ==
    CASE IsWorkload -> ObserveWorkload(env.kind, Served)
      [] env.kind = "pod" -> ObservePod(pod)
      [] env.kind = "application" -> ObserveApp(app)

\* Scheduled jobs look for a Deployment, or an application, with the name of the
\* integration; a webhook of Argo CD names its application.
Scheduled == env.named /\ env.kind \in {"deployment", "application"}

Look(j) ==
    /\ slot[j].pc = "idle"
    /\ slot' = [slot EXCEPT ![j] = [pc |-> "fetched", seen |-> Observation, truth |-> Truth]]
    /\ UNCHANGED <<env, world, observation, deployment, changes, faults>>

\* fetchWorkloadStatus.
FetchScheduled(j) == Scheduled /\ Look(j)
FetchOnEvent(j)   == ~Scheduled /\ Look(j)

\* findOneAndUpdate of the observation: whoever comes last.
SaveObservation(j) ==
    /\ slot[j].pc = "fetched"
    /\ observation' = slot[j].seen
    /\ slot' = [slot EXCEPT ![j].pc = "stored"]
    /\ UNCHANGED <<env, world, deployment, changes, faults>>

UnchangedByDrift(o) == deployment # NoDeployment /\ deployment.drift = o.drift

\* ~hasChanged, as far as this module tells: status, drift, health and sync.
Unchanged(o) ==
    /\ deployment # NoDeployment
    /\ deployment.status = MapStatus(o)
    /\ deployment.drift = o.drift /\ deployment.health = o.health /\ deployment.sync = o.sync

\* ingestOrchestrationObservation: Deployment.findOne, and all is done if it
\* shows what was observed ...
FindDeployment(j) ==
    /\ slot[j].pc = "stored"
    /\ slot' = [slot EXCEPT ![j] = IF Unchanged(@.seen) THEN Idle ELSE [@ EXCEPT !.pc = "changed"]]
    /\ UNCHANGED <<env, world, observation, deployment, changes, faults>>

\* ... else findOneAndUpdate, whatever it shows by now.
ProjectObservation(j) ==
    /\ slot[j].pc = "changed"
    /\ LET o == slot[j].seen IN
       deployment' = [status |-> MapStatus(o), health |-> o.health, sync |-> o.sync,
                      drift |-> o.drift, truth |-> slot[j].truth]
    /\ slot' = [slot EXCEPT ![j] = Idle]
    /\ UNCHANGED <<env, world, observation, changes, faults>>

\* The process dies, or a write fails; an error of the projection is logged only.
Dies(j) ==
    /\ slot[j].pc # "idle"
    /\ faults < MaxFaults
    /\ faults' = faults + 1
    /\ slot' = [slot EXCEPT ![j] = Idle]
    /\ UNCHANGED <<env, world, observation, deployment, changes>>

Step(j) == SaveObservation(j) \/ FindDeployment(j) \/ ProjectObservation(j)

RolloutNext ==
    \/ NewTemplate \/ Scale \/ Crash \/ CreatePod \/ PodReady \/ DeletePod
    \/ WriteStatus \/ GetStuck \/ PodMoves \/ AppDrifts \/ AppSyncs \/ AppHealth
    \/ \E j \in Slots : FetchScheduled(j) \/ FetchOnEvent(j) \/ Step(j) \/ Dies(j)

\* The repeatable job comes back for ever, and every slot goes on.
RolloutFairness ==
    /\ \A j \in Slots : WF_rolloutVars(Step(j))
    /\ WF_rolloutVars(\E j \in Slots : FetchScheduled(j))

RolloutSpec == RolloutInit /\ [][RolloutNext]_rolloutVars /\ RolloutFairness

-----------------------------------------------------------------------------
(***************************************************************************)
(* Properties.                                                             *)
(***************************************************************************)

\* A deployment shown as a success without drift runs what its owner wants,
\* unless there are pods to spare or the controller has not seen it yet.
CleanSuccessIsReal ==
    deployment.status = "success" /\ ~deployment.drift
        => deployment.truth \in {"converged", "surplus", "unseen"}

\* Once the rollout is over and stays so, reconciliation makes the deployment
\* show it, whatever overlapping and dying executions wrote before.
EventuallyShown ==
    Scheduled => (<>[]Converged =>
        <>[](deployment.status = "success" /\ ~deployment.drift))

\* All pods of a successful rollout are the newest and ready ("All replicas are
\* ready and available", kubernetesProvider.js:87).
SuccessIsRolledOut ==
    deployment.status = "success" /\ ~deployment.drift
        => deployment.truth \in {"converged", "unseen"}

\* "Explicit operation failures take precedence" (deploymentStatusMapper.js:24).
FailedOperationIsFailed ==
    observation.phase = "failed" => MapStatus(observation) = "failed"
=============================================================================
