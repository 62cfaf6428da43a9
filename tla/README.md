# Unified DevOps Platform: TLA+ models and proofs

The platform collects what CI (GitHub Actions, Jenkins), security scanners (Trivy) and orchestrators
(Argo CD, Kubernetes) report about a project, stores it in MongoDB, and shows one delivery state per issue.
An API process takes webhooks and requests, BullMQ queues in Redis carry jobs to worker processes, Redis
Pub/Sub and Socket.io carry events to browsers. The hard part is not any one function but what webhooks,
retries, crashes and overlapping workers do to shared documents. That is what is modelled here.

All paths below are relative to `src/server/src/modules/` unless they start otherwise.

## 1. Inventory

| Component | State it keeps | Operations | Talks to |
|---|---|---|---|
| CI pipeline runs (`cicd/pipelineRun.model.js`, `cicd/cicd.service.js`) | `PipelineRun` documents | `upsertWithStatusGuard` (findOne, merge, findOneAndUpdate), manual sync (plain findOneAndUpdate) | called by CI worker, reconciliation, API |
| CI reconciliation (`cicd/reconciliation.service.js`) | none | fetch the runs of the lookback window and upsert them | GitHub, Jenkins; repeatable job |
| CI webhook ingestion (`cicd/cicd.controller.js`, `webhookDelivery.model.js`, `queue/ciQueue.js`) | `WebhookDelivery` | claim (unique insert), enqueue or in-process fallback, mark queued | BullMQ `ci-events` |
| CI worker (`cicd/queue/ciWorker.js`) | `WebhookDelivery`, `PipelineRun` | validate, upsert, mark processed / ignored / failed, publish | Redis Pub/Sub |
| Orchestration ingestion (`orchestration/orchestration.controller.js`, `orchestrationDelivery.model.js`, `orchestrationQueue.js`) | `OrchestrationDelivery`, `OrchestrationIntegration` | claim, claim again after a failure, enqueue, mark queued, release; CRUD of integrations | BullMQ `orchestration-events` |
| Orchestration worker (`orchestration/orchestrationWorker.js`) | `OrchestrationObservation`, `OrchestrationDelivery` | observe a workload, store the latest observation, project it into deployments, scheduled fan-out | Argo CD, Kubernetes |
| Security ingestion (`security/security.controller.js`, `securityDelivery.model.js`, `securityQueue.js`, `securityScanProcessor.js`) | `SecurityDelivery`, `SecurityScan`, `SecurityFinding` | claim, enqueue, store scan and findings in a transaction (or without), evaluate policies | BullMQ `ci-events`, policy engine |
| Finding reconciliation (`security/securityReconciliation.service.js`) | status of `SecurityFinding` | resolve, reopen, preserve across scans of a scope | scan processor |
| Policy engine (`security/policyEngine.service.js`) | `PolicyGateResult`, `SecurityScan.gateStatus` | evaluate every active policy, aggregate, override a result | scan processor, people |
| Deployment governance (`deployment/deployment.service.js`) | `Deployment` | decide from the gate, record a deployment, ingest an observation | worker, API |
| Integrations (`orchestration/`, `security/`, `cicd/` controllers) | `OrchestrationIntegration`, `SecurityIntegration`, `JenkinsIntegration` | create, update, rotate a secret, delete; a job notes how its observation went | people, orchestration worker |
| Event bridge and sockets (`cicd/events/ciEventBridge.js`, `../socket/index.js`) | connected clients and rooms | publish, relay, join and leave rooms | Redis, browsers |
| Audit log (`audit/`) | append-only `AuditLog` | log, list | everything |
| Issues, projects, members (`issues/`, `projects/`) | `Issue`, `Comment`, `Project`, `ProjectCounter`, `ProjectMember` | CRUD, next issue number | event bus |
| VCS (`vcs/`) | `Repository`, `Commit`, `PullRequest` | connect, sync, disconnect | GitHub GraphQL |
| Delivery state, dashboard | none | read-only projections | client |
| Orchestration providers (`orchestration/providers/`, `deploymentStatusMapper.js`) | none | health, drift and deployment status of one answer | orchestration worker |
| Web client (`src/client/src`): the page of an issue | what it shows, its room, its fetches | load, join, fetch again on an event | API, sockets |
| CI and security providers, auth, users, middleware, start-up | credentials, users | I/O, parsing, wiring | |

What makes each correct:

* **Pipeline runs**: the document is what the provider really reported, never goes back, and ends at the truth.
* **Deliveries**: one claim gets through; who is told "accepted" is not forgotten; what a delivery or a job says
  of the work is true; every job ends.
* **Policy gate**: a gate covers every policy; gate and deployment decision do not contradict; overrides stay.
* **Deployments**: allowed means evaluated; no violation goes unseen.
* **Findings**: a decision (acknowledged, false positive) stays on the document it was made on, whatever is scanned
  later; the newest document of a finding tells what the last scan found (so a key that is found again is open there,
  whatever was decided about it); a scan is judged by its own report.
* **Rollouts**: a deployment shown as a clean success is one; what is shown catches up with the cluster.
* **Issues**: a number is given once, a link names the issue it was made for, a status can be explained from the log.
* **Repositories**: a successful sync is complete, an item is shown once, no repository stays `syncing` while
  its syncs can write.
* **Integrations**: a replaced credential is never back in force; the one in force is known to somebody.
* **Events**: an open page comes to show the newest state.

Where it is hard: findOne followed by findOneAndUpdate (three places, two of them guards); updates that follow
`queue.add` unconditionally; job ids derived from documents that outlive the job; a processor that may run twice at
once when its lock expires; a loop of writes whose aggregate comes last; errors swallowed so that "persistence stays
authoritative"; lists read before a loop that writes them; one query for a scan and another for its results; links,
comments and rooms that outlive what they belong to. The places that a property watches are listed with their lines under
`hazards` in `PROJECT.json`; the others at the end of section 3.

## 2. Modules

| Module | Models |
|---|---|
| `TerminalRegister` | abstract: a register whose value changes only to one of higher rank |
| `PipelineRun` | one `PipelineRun` document and all its writers |
| `PipelineRunProofs` | theorems about it |
| `JobQueue` | the life of one BullMQ job: attempts, stalls, ids (external, and `enqueueWebhookEvent`'s use of it) |
| `JobQueueProofs` | lemmas about its operations, which the proofs on the three queues share |
| `CiDelivery` | a CI delivery: handler, `WebhookDelivery`, job, processor |
| `CiDeliveryProofs` | theorems about it |
| `OrchestrationDelivery` | an Argo CD delivery: the same, with claims that may be repeated |
| `OrchestrationDeliveryProofs` | theorems about it and about `Rollout` |
| `SecurityIngest` | a scan report: handler, `SecurityDelivery`, job, the writes of `processSecurityScanJob` |
| `SecurityIngestProofs` | theorems about it |
| `FindingLifecycle` | abstract: the seven rules of reconciliation, about each finding of a scope and what was decided on it |
| `FindingReconciliation` | the scans of a scope and what they do to each other's findings; implements `FindingLifecycle` |
| `FindingReconciliationProofs` | theorems about it, the refinement among them |
| `PolicyGate` | the gate of one scan: evaluation, aggregate, override, decision |
| `PolicyGateProofs` | theorems about it, `DeploymentGovernance` and `DeliveryState` |
| `DeploymentGovernance` | a `Deployment` document beside the gate it is decided by (extends `PolicyGate`) |
| `DeliveryState` | the stages of the issue page, read from that gate (extends `PolicyGate`) |
| `WorkloadHealth` | pure: health, drift and deployment status of an answer of Kubernetes or Argo CD |
| `Rollout` | a workload, its controller, and the worker that observes it (extends `WorkloadHealth`) |
| `IssueTracking` | a project, its counter, its issues, and the requests on them |
| `VcsSync` | its repository: connect, sync, disconnect (extends `IssueTracking`) |
| `LiveView` | a browser on the page of an issue, and the way of an event to it |
| `Integrations` | the integrations of a project, requests on them, jobs that use them |
| `Workspace` | composes `VcsSync`, `LiveView` and `Integrations` |
| `WorkspaceProofs` | theorems about issues, repository and integrations |
| `MC*` | values for TLC: timelines, kinds, enforcement, symmetry |

`CiDelivery`, `OrchestrationDelivery` and `SecurityIngest` extend `JobQueue`. In every module the operators named `...Unchecked`,
`...Early`, `...OffByOne` and the like, which stand before the definition
they vary, are not part of `Next`: they are
bugs one could make there, used to see that each property notices one.

### PipelineRun
`store` is the document, cut down to `status`, `conclusion` and `completedAt` (the fields the guard treats specially);
`Timeline` is the sequence of reports of the provider, `reported` how far it is; `queue` and `attempts` are the webhook
jobs; `slot[w]` is a job slot of the worker with the document it found; `sync[r]` a manual sync with the report it
fetched. `FindExisting` and `GuardedUpsert` are the two halves of `upsertWithStatusGuard` (pipelineRun.model.js:172,
194), with `Merge` for lines 174-192; between them any other process may write. `SyncUpsert` is the plain update of
cicd.service.js:162. `FailJob` is an exception or a dead worker at any point. `LeaveWindow` is time passing the
lookback of reconciliation. Documents are written independently, so one stands for all. `newest` is a history
variable. Two things in the runs of the provider are deliberate: a run that is run again keeps its id and goes back
from completed to in_progress (`RunAgain`), and a status outside the weight table weighs 0.

### JobQueue, CiDelivery, OrchestrationDelivery
A request is a pair of delivery and send number; its handler's position is in `request`. `job[d]` is the BullMQ job,
whose id is derived from the delivery: `Add` on a job that exists, even a finished one, changes nothing (the queues keep
completed and failed jobs). `exec[e]` is an execution of the processor: by a job slot, or, in development, by
the request itself. `lock` says whether it still owns its job; `JobStalls` takes the lock away from a dead or slow
execution, which in the second case runs on beside its successor. `stored`, `told`, `observed` say what work was done.
Every database write is a step of its own and may fail (`Throws`, `RequestDies`, `PublishFails`...).
`OrchestrationDelivery` adds `Reclaim`, the compare-and-set from failed to claimed, with the history
variables `ran`, `claims` and `failures`.

### PolicyGate
`results[p]` is the `PolicyGateResult` of a policy, `gate` the scan's `gateStatus`, `eval[e]` an evaluation with the
policies still to do and the statuses seen, `override[a]` a call of `overridePolicyGate` between its `findOne` and its
`findByIdAndUpdate`. What a rule counts is a verdict (holds, violated, unknown); `FinalStatus`, `Aggregate` and `Decide`
translate the code's decisions on it. `AbortEvaluation` is an error or a crash in mid-loop: the scan processor swallows
it and a job that runs again returns early, so the evaluation does not resume. The loop goes over the policies in any
order, which includes the order of the database. `Decide` is evaluated on one state here: it reads the results with
one query, and the gate is used only when there are none; `DeploymentGovernance` splits it. `evaluatePolicies` is called
once per scan by the program; the tests call it again, so a second evaluation is allowed
in the run, where overrides must survive it.

### DeploymentGovernance, DeliveryState
Both put a reader beside the gate. `writer[w]` is a call of `recordDeployment` or an execution of
`ingestOrchestrationObservation` (deployment.service.js) between its queries: `FindScan`, `FindResults`,
`CompareDeployment`, `Upsert`; `QueryFails` is the error that becomes `NOT_EVALUATED`. `traced` says whether the scan is
found at all; `shown` is what the cluster shows, which may move. `DeliveryState` reads the newest scan and then its
results (`ReadScan`, `ReadResults`: `getIssueSecurityProjection`), and `SecurityStage` and `GovernanceStage` are what
`DeliveryStateTracker.jsx` makes of the answer. `settled` and `gated` are history: whether the gate had its status when
it was read. Every property that relates two readers begins there, because before it the readers do disagree.

### SecurityIngest
The same chain as the other two deliveries as far as the job; then the writes of `processSecurityScanJob`.
`env.transactions` is chosen at the start: with it, scan, findings and `processed` are one step, without it they are
steps a crash may separate. `scans[d]` counts the scans of a report by how far they got. `'processing'` is a status
that the code writes although the schema does not list it; an update does not validate, so it is a status.

### FindingReconciliation, FindingLifecycle
`finding[<<s, k>>]` is the `SecurityFinding` of scan `s` for identity key `k`: each scan inserts a document of its own,
and reconciliation updates the newest earlier one. With transactions (`BeginTransaction`, `Commit`,
`RetryTransaction`) a scan reads a snapshot and is aborted by a conflicting write; without, `ReadPrevious` takes a list
and `UpdateFinding` writes it one by one, and `Dies` may come between. `env.serial` restricts to scans that do not
overlap. `order[s]` is the set of scans whose findings those of `s` are newer than: `createdAt`, as far as the sort of
`reconcileFindings` looks at it. `Evaluate` is the rule `max_severity_count`, after the transaction. `Decide` is
external: the schema, the policies and the rules know decisions, the tests write them, no code of the program does yet.

`FindingLifecycle` states the seven rules as the service's comment does, about keys: what is decided stays decided,
found again or not (rules 2, 3, 5 and 6). The code keeps them only of documents, and a key has many. The refinement
therefore reads a key as somebody who looks at all its documents: it is decided when any of them is (`KeyView`, with
`DecisionView` for which decisions those are), and what the newest says otherwise. Who reads the newest document alone
sees a decided key open again with the next scan that finds it; `RedetectedStaysDecided` states that this does not
happen, and is refuted (section 3). The test of rule 5 (securityScanProcessor.test.js:534) looks at the old document
and does not notice. The mapping holds on behaviours that are serial and have transactions; on others it shows nothing, and
`DecisionsStay` and `JudgedByItsReport` say what remains.

### WorkloadHealth, Rollout
`WorkloadHealth` has the decision tables of `kubernetesProvider.js`, `argoCDProvider.js` and `deploymentStatusMapper.js`
over counts instead of answers. `Rollout` makes the answers come from a cluster: the owner changes template and replicas
(`NewTemplate`, `Scale`), the controller replaces pods (at most `Surge` more than asked for) and writes `status` in a
step of its own, so that an answer lags; an application drifts and syncs; a pod moves through its phases. `slot[j]` is
an execution that has fetched, then stores, then projects. `truth` is a history variable that travels with an answer: it
says what was so in the cluster when the answer was given. `Scheduled` is the condition on which the fan-out finds the
workload again.

### IssueTracking, VcsSync
`setup` is `createProject` in three writes; `req[r]` a request between its database calls; `trail` the audit entries
about statuses; `lost` remembers the issues whose request died after its save. `VcsSync` adds the repository: a sync
takes the list of items (`todo`), looks up for one after the other which of the keys it mentions are issues
(`ValidateKeys`), writes its row with those links in a step of its own (`UpsertItem`), and
sets its status at the end; `cut` remembers that a sync was left without writing one; `drop` is a disconnect in three deletions. `github[x].about` remembers which issue an item
was really written for: `NoBorrowedHistory` compares it with the issue the link leads to today.

### LiveView
`server.version` counts the changes, `channel` is Redis, `wire` the socket, `load` and `asks` are fetches under way.
An event from the API goes both over the local bus and over Redis, one from a worker over Redis only. What the code has
no answer to (a lost message, a dropped socket, a failed fetch, an answer overtaken by an older one, leaving the page)
is counted by `harm`.

### Integrations
One collection per behaviour (`kind`). `call[c]` is a request between reading and saving, with what it assigned (`set`):
mongoose saves only assigned fields, and everything about lost updates rests on that. `observer[o]` is a job that read
the integration and will note the outcome on it. Here a token is the only reason why an observation fails.

### Workspace
The composition of `IssueTracking` with `VcsSync` is a real one: they share the counter, the issues and the links.
`LiveView` and `Integrations` share no variable with them and are composed to be checked in one run; `focus` picks the
part that moves in a behaviour, since their product would only repeat each part's states.

## 3. Runs

| Run | Bounds | Shows |
|---|---|---|
| `pipeline_serial` | 1 slot, 3 attempts, 3 reports, no sync | types; the document is the newest report written; it implements `TerminalRegister` |
| `pipeline_converges` | 1 slot, 1 sync, 2 attempts, a run that is run again (4 reports) | the document is always one report as a whole; liveness: it ends at the final report |
| `ci_production` | 1 delivery sent twice, 2 slots, 2 attempts, 1 stall | one claim; processed and completed are true; accepted is durable; settled unless late |
| `ci_development` | a run and an ignored delivery, fallback, 1 slot | liveness with the in-process fallback: every job ends |
| `orch_resend` | 1 key sent 3 times, 2 slots, 2 attempts, 1 stall; slots and sends symmetric | claims are earned by failures; succeeded is true; accepted runs; answered is not lost |
| `gate_pass` | 3 policies (two block, one warns), 2 evaluations, 1 override, a page | the gate covers every policy and agrees with the decision and with the page; overrides survive |
| `security_ingest` | 1 report sent twice, 2 slots, 2 attempts, 1 stall, production and development, with and without transactions; slots and sends symmetric | processed and completed have a scan; one scan per report; answered is not lost |
| `findings` | 1 key, 3 scans, threshold 0, serial or overlapping, with and without transactions | no scan changes a decided document; a scan is judged by its own report; all documents of a key together implement `FindingLifecycle` (the newest alone does not: `RedetectedStaysDecided` below) |
| `rollout` | 2 slots, 2 replicas, surge 1, 1 change, 1 execution that dies; a Deployment, StatefulSet, DaemonSet, pod and application | a clean success is real; liveness: the deployment comes to show what the cluster is |
| `deployment` | 2 policies, 1 evaluation, 1 override, 1 call, 1 slot, 1 move of the cluster, 1 fault | a decision on a settled gate is the gate's; liveness: decision, status and violation catch up |
| `workspace` | 2 requests, 2 issues, 3 calls, 1 fault; 1 commit and 1 pull request, 2 syncs, 2 connections; 2 changes, 1 harm, 1 visit; 2 integrations of one name, 2 callers, 2 jobs, 2 credentials, one of them bad | numbers and links, log, syncs, credentials; liveness of syncs, page and error of an integration |

One run finds a disagreement between the code and what it says of itself (`findings` in `PROJECT.json`):
`rollout_phase`. `argoCDProvider.js:274` stores the phase of an operation in lower case and
`deploymentStatusMapper.js:25` compares it with `'Failed'`; an application whose last operation failed is
projected as if it had none.

The modules also state claims that the comments, messages or tests of the code make and that these models refute. No
configuration lists them, because each would stop its run; to see the counterexample, add the name to the configuration
on the right.

| Claim | Where the code says it | What happens | Configuration |
|---|---|---|---|
| `TerminalProtected` | `cicd/pipelineRun.model.js:175` | two slots find the same old document; the older report is written last and a completed run is running again | `PipelineRun_serial.cfg`, `Workers = {w1, w2}` |
| `TerminalProtectedFromSync` | the same | a sync that fetched the run before it ended writes it afterwards, without the guard | `PipelineRun_serial.cfg`, `Requests = {r1}` |
| `Settled` | `cicd/queue/ciWorker.js:235` | the job ends before the handler's `queued` is written; the delivery stays queued | `CiDelivery_production.cfg` |
| `DuplicateIsSafe` | `cicd/cicd.controller.js:69` | the claim outlives a failed enqueue; the redelivery is acknowledged and nothing processes it | `CiDelivery_production.cfg` |
| `RetryRuns` | `orchestration/orchestrationDelivery.model.js:75` | a failed delivery is claimed again, its job id is taken by the finished job, nothing runs | `OrchestrationDelivery_resend.cfg` |
| `UnknownDoesNotBlock` | `security/policyEngine.service.js:123` | a blocking policy that could not be evaluated blocks deployments | `DeliveryState_gate.cfg` |
| `NoStaleOpen` | `security/securityReconciliation.service.js:17` | only the newest document of a key is resolved; older ones stay open for ever | `FindingReconciliation_scans.cfg` |
| `RedetectedStaysDecided` | `security/securityReconciliation.service.js:21` | a key that was acknowledged or called a false positive and is found again gets a new document, which is open and counts for the policies; only the old one stays decided | `FindingReconciliation_scans.cfg`, under `PROPERTIES` |
| `SuccessIsRolledOut` | `orchestration/providers/kubernetesProvider.js:87` | old pods that are still available make up for new ones that are not ready | `Rollout_watch.cfg` |

More disagreements are visible in the models: a delayed report of a first attempt that
replaces the conclusion of the second, the late `queued` in the other two handlers, two overrides that both pass
the check, a re-claim while the old job still runs.

Hazards that no property of a run speaks of, because the code does nothing about them or the models leave them out:
a process that dies between a claim and its enqueue (nothing sweeps claimed deliveries); an Argo CD event whose state
recurs and counts as a duplicate; the fan-out that asks for a Deployment with the name of the integration, and never
looks at other kinds or names again; a deployment event lost between the upsert and its publication; deployments of an
issue sorted so that one in progress comes last; a required scan looked up without its commit; Redis messages lost while
disconnected, a socket that reconnects into no room, membership that is checked only on joining; a project whose counter or
owner was not written; comments that outlive their issue; a secret that is stored and whose answer is never sent.

The type invariants of `OrchestrationDelivery`, `SecurityIngest`, `FindingReconciliation`, `DeploymentGovernance`,
`DeliveryState` and `Rollout` are proved (section 5) and stand in no configuration; the `TypeOK` of `Workspace` holds on its
configuration.

Why the bounds are enough. Documents and deliveries do not interact except through slots, so one of each shows every
conflict over a document; a second delivery is there only where slots are shared and for the kinds of a delivery. Every
race here is between two parties, so two slots, callers, syncs or requests and two or three sends. Two attempts give a retry, and three
a retry of a retry; one stall gives two executions of one job at once. Three policies give every mix of blocking and
warning that `Aggregate` and `Decide` tell apart. Keys of findings do not interact, and three scans are what it takes
for a document to be open, passed over and counted. Two replicas with a surge of one are the least with pods to spare.
Two issues and one deletion are what it takes for a number to be used again; two connections, for rows of an earlier
one. A second harm could only hide what the first allows.

The bounds that stand in guards are named constants: `MaxStalls`, `MaxScans`, `MaxReplicas`, `MaxChanges`, `MaxFaults`,
`MaxShown`, `MaxIssues`, `MaxCalls`, `MaxRepos`, `MaxHarms`, `MaxVisits`, `MaxSecrets`. `Surge` and `MaxCount` are
parameters of the cluster and of a policy, `MaxAttempts` of the queue. The reports, sends, evaluations and overrides end with the sets the
configuration names. `EventuallyShown`, `EventuallyGoverned` and `ErrorIsCurrent` speak of what holds once changes have
stopped, which the bounds bring about; they say nothing of a system that never rests.

That two slots never tear a document is proved (`NeverTorn`), so no run spends two slots on it. Symmetry is used for
job slots, sends of a key, and evaluations with policies of the same kind; a run with symmetry has no liveness property.
`CHECK_DEADLOCK FALSE` stands where a system that got its last webhook or request rightly stops.

The largest runs are `gate_pass` (3.9 million distinct states), `deployment` (1.5), `rollout` (1.2) and `findings`
(0.9); with temporal properties, `workspace` (0.5) takes as long as any, two to three minutes.

## 4. Fairness

Invariants and action properties do not depend on fairness. `Converges` assumes that reconciliation is started again and again (repeatable job,
cicd/queue/ciQueue.js:153-178), weakly fair; that a started job takes its next step; and that a database step that is
possible again and again succeeds in the end (strong, since any attempt may fail and start over). It assumes
`LookbackCovers`: without it a run may leave the window before it was repaired, and stays wrong. Nothing is assumed of webhooks,
of jobs from the queue or of sync requests, which may be lost or come at any time; that only finitely many reports
exist is the provider's. `EveryJobEnds` assumes that a running worker takes waiting jobs (strong: another job may be
taken first), that an execution takes its steps, and that BullMQ checks for stalled jobs. Crashes may happen at any
step; `MaxStalls` bounds how often they bring a job back. Nothing is assumed of requests or of success.

* `EventuallyShown`: an execution that has begun takes its next step, and the scheduled job comes again and again
  (a repeatable job, orchestration/orchestrationQueue.js:126-150). Webhooks are not needed.
* `EventuallyGoverned`: the same of observations. Nothing is assumed of calls of `recordDeployment`, of evaluations or of people.
* `SyncEnds`: a sync that has begun takes its next step; the process that runs it may still die, and the write that
  reports its failure may itself fail; the property excepts both (`cut`).
* `ViewCatchesUp`: messages and answers that are on their way arrive, in the order of their connection, unless one is
  lost, which is counted. Nothing is assumed of people or of changes.
* `ErrorIsCurrent`: the scheduled fan-out comes to each active integration again and again (strong, since it may be
  switched off in between), and a job ends.

## 5. Proofs

All theorems hold for every value of the constants that satisfies the named `ASSUME`s of the modules: a number of
attempts of at least one, bounds that are numbers, well-formed reports, kinds and enforcements that are functions, names
that do not clash, a finite set of finding keys, at least one request and one sync. Every safety invariant and every
action property a run checks, and both refinements, are theorems.

* **PipelineRunProofs.** `TypeCorrect` and `NeverTorn` for any timeline and any number of slots and syncs. The
  invariant `IInv` adds that the queue, what slots hold and what syncs fetched are reports the provider has made
  (`QueueOK`, `SlotsKnown`, `SyncKnown`); the heart is a lemma that merging two reports of the provider gives one of
  them: the merge keeps fields one by one, and only because a run has a conclusion exactly when it is completed does
  that never mix two reports. `SerialReflectsNewest` and `SerialImplements` assume one slot, no sync and a run that
  moves forward (`ForwardTimeline`); they add that what a slot found is still stored when it writes. The refuted claims of
  section 3 show that one slot and no sync are needed.
* **JobQueueProofs.** What `Add`, `Take`, `Complete`, `Fail` and `Stall` keep (`JobOK`: a waiting or active job has an
  attempt left) and where they lead.
* **CiDeliveryProofs.** `TypeCorrect`, `ClaimIsExclusive`, `ProcessedMeansStored`, `CompletedMeansDone`. `TypeOK` is not
  inductive by itself: that a job is tried at most `MaxAttempts` times needs `JobsOK` and `LockOK` (one execution at
  most holds the lock, and its job is active), or two overlapping executions could both count. `ExecOK` says what an
  execution has done by each step, `ClaimOK` that a request past the claim leaves a claimed delivery. Two more
  invariants stand on top of that one. `AcceptedStays`: a request past the queue has its job, and an execution that is
  through has left an outcome (`QueueOK`, `ReturnsDurable`). `SettledShown`: while a job never stalled, whoever runs it
  holds its lock (`HoldsLock`), so the outcome it wrote is not overwritten by a predecessor, only by the handler's
  late `queued`, which the property excepts.
* **OrchestrationDeliveryProofs.** The claim can be made again here, so the invariant counts: a delivery that is failed
  has one failure more than claims (`FailureInHand`), which gives `ReclaimsEarned`. `AnsweredNotLost` rests on
  `SomebodyHasIt` (a recorded delivery without a job has a request that will enqueue or release it, or that died) and
  `AcceptedHasRun` on `FirstClaimWaits` (the job of a first claim waits until it is run for it). `CleanSuccessReal` is
  about `Rollout`: the status is of a generation there has been, and has the replicas of the present one if it says it is
  of the present one (`StatusOK`); an observation that maps to a clean success is then of a real one, by cases over
  the kinds of workload, and slots only carry it. `RolloutTypeCorrect` needs that pods never exceed replicas and surge
  (`PodsOK`), that a generation is one more than the changes at most (`GenerationOK`), and that a busy slot has an
  observation (`SeenOK`).
* **SecurityIngestProofs.** Four invariants, one on top of the other. The first is that of the queues (types, locks,
  jobs). The second counts scans: those that are begun are at least as many as the executions that have one in hand
  (`Counted`, a cardinality), which gives `ProcessedHasScan`. The third says that, where the hypothesis of
  `OneScanPerReport` holds, whoever is about to write the scan is alone, as a slot that never lost its lock (`Solo`) or as the
  request that holds the claim (`HolderOK`). The fourth is `NotLost`: a report neither failed, scanned nor queued is in the
  hands of a request, or one ended in an error.
* **PolicyGateProofs.** `TypeCorrect` and `OverridesSurvive` for any number of evaluations, with `FoundExists` (a
  result that was found stays). `GateCovers` and `GateAgrees` speak of a scan that was evaluated once (`EvaluatedOnce`), which is what
  the program does: `SeenIsWritten` ties the statuses the loop has collected to the documents, through overrides in
  between; `Coherent` ties `passed`, which the decision reads, to `evaluationStatus`, which the gate reads. For the two
  modules that put a reader beside the gate, the lemma `Frozen` says what may change once the gate has its status: only
  that results get overridden. So what a writer (`Reads`) or the page (`LoadOK`, `Holds`) read then stays true of the gate,
  though it was read in two queries: `GovernedByGate` and `PageAgrees`.
* **FindingReconciliationProofs.** `DecisionsAreKept` needs that a scan updates nothing a person decided about, and that
  what it commits was not changed since it was read. `JudgedByReport` needs that findings of a scan are among those it
  found (`OnlyFound`) and, for the other direction, that between its commit and its evaluation nobody resolves them
  (`CompletedOK`). `ReconciliationImplements`: initial states map to initial states and each step to a step of
  `FindingLifecycle` or a stutter, on which what was decided about a key does not change: a commit neither takes a
  decision nor makes one (`CommitMaps`), and `Decide` only adds one. It needs that among the documents of a key one is newest (`NewestExists`; `order`
  is not linear by construction) and that a transaction has read what is there, but for decisions made since (`SeenOK`).
* **WorkspaceProofs.** `NothingBorrowed`: the counter is never behind a number that is in use (`Counted`), and a number
  stands for one issue for ever, deleted ones and those being created included (`OneNumber`); a link, whether it is
  written or only looked up by a sync, is the number its item mentions (`LinksOK`). `SuccessComplete` and
  `ItemsShownOnce`: what a sync has fetched and is not about to write it has written (`FetchedOK`), and rows no
  overlap left behind belong to the repository there is (`RowsOK`). The runs move issues, links or repository, never all;
  `Together` is the specification in which all move, the invariants hold of it as well (`NothingBorrowedTogether`,
  `SyncsTogether`), and `SpecMoves` shows that `Workspace` is part of it: the split hides nothing. `NoSecretComesBack` and
  `SecretInForceKnown`: credentials under way are new and each is of one request (`NewSecrets`), and a request writes
  only the credential it was given, because `save` writes the assigned fields only.

Only model-checked: all liveness properties (fairness and leads-to are outside the prover's reach): `Converges`,
`EveryJobEnds`, `EventuallyShown`, `EventuallyGoverned`, `SyncEnds`, `ViewCatchesUp`, `ErrorIsCurrent`; and the type
invariant of `Workspace`. `LiveView` has no safety property beyond its types. What a recursive definition
computes for every input could not be proved either; no module has one. For the provers' sake `IssueTracking` and
`VcsSync` write records whole, and `FindingReconciliation` keeps `order` as sets of scans.

## 6. Not modelled, and the plan

Left out for good:

* HTTP clients, the parsing and normalisation of provider answers, Trivy reports: I/O and data, pure functions of one document.
* Authentication and user CRUD (one document, one writer), the checks of signatures, roles and input (a rejected request
  touches no state), middleware, start-up.
* Projections that only read one state: lists, the dashboard, the counts and the CI and deployment stages of the issue
  page. The pages of the client that load once and show what they got.
* The rule `required_scan`: it depends on time and branches; for the gate it is a verdict.
* The upsert of pipeline definitions, `updateProject`, the manual reconciliation request: single writes nothing else races with.

Not modelled yet: the reconciliation of Jenkins (the upsert it ends in is `PipelineRun`'s, its loop over integrations is
not), several scans of one issue on its page, several deployments of one issue.

Next, in this order:

1. The type invariants of `IssueTracking`, `VcsSync`, `Integrations` and `LiveView`.
2. What `CiDelivery`, `OrchestrationDelivery` and `SecurityIngest` promise alike (a delivery claimed, queued, run, shown), as
   one abstract specification that each implements.
3. Safety of `LiveView`: a page never shows a version the server has not had.
4. The reconciliation of Jenkins, and several deployments of one issue.
