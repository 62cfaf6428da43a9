------------------------------ MODULE CiDelivery ------------------------------
(***************************************************************************)
(* The way of a CI webhook delivery from the HTTP handler (GitHub or       *)
(* Jenkins) through the claim record and the ci-events queue to the        *)
(* processor, with duplicates, crashes, failed writes, retries and stalled *)
(* jobs.                                                                   *)
(*                                                                         *)
(* The upsert of the run itself is one step here; PipelineRun takes it     *)
(* apart.  The handler rejects what fails authentication or is malformed   *)
(* before it touches any state, so a request starts at the claim.          *)
(***************************************************************************)
EXTENDS JobQueue

CONSTANTS
    Deliveries,     \* delivery ids
    Sends,          \* how often a delivery may be sent: 1..n
    Workers,        \* job slots of the CI worker
    Kind,           \* what a delivery is about, see Kinds
    Production      \* config.env = 'production'

\* run: a workflow run of a connected repository; unconnected: repository,
\* project or Jenkins integration unknown; other: an event type that is not
\* processed.
Kinds == {"run", "unconnected", "other"}

Requests  == Deliveries \X Sends
Executors == Workers \cup Requests   \* a request processes the job itself
                                     \* when it falls back, never in production
ASSUME CiAssumption ==
    /\ Kind \in [Deliveries -> Kinds]
    /\ Production \in BOOLEAN
    /\ Workers \cap Requests = {}

Of(q) == q[1]   \* the delivery request q carries

VARIABLES
    delivery,   \* the status of the WebhookDelivery document, "none" without
    job,        \* the BullMQ job of the delivery (its id is the delivery id)
    request,    \* where the handler of each request is
    exec,       \* the running executions of processWebhookJob
    stored,     \* the deliveries whose run was upserted
    told,       \* the deliveries whose events were published to Redis
    late        \* history: the 'queued' write came after the job was taken

vars == <<delivery, job, request, exec, stored, told, late>>

DeliveryStatus == {"none", "claimed", "queued", "processed", "ignored", "failed"}
RequestPc == {"unsent", "claimed", "enqueued", "fallback",
              "accepted", "duplicate", "error"}
ExecPc == {"idle", "start", "upserted", "processed", "caught", "return", "throw"}

\* lock: the execution still owns its job; FALSE once the job has stalled.
Execs  == [pc : ExecPc, d : Deliveries \cup {"none"}, lock : BOOLEAN]
NoExec == [pc |-> "idle", d |-> "none", lock |-> FALSE]
Begin(d) == [pc |-> "start", d |-> d, lock |-> TRUE]

TypeOK ==
    /\ delivery \in [Deliveries -> DeliveryStatus]
    /\ job \in [Deliveries -> Jobs]
    /\ request \in [Requests -> RequestPc]
    /\ exec \in [Executors -> Execs]
    /\ stored \in SUBSET Deliveries
    /\ told \in SUBSET Deliveries
    /\ late \in SUBSET Deliveries

Init ==
    /\ delivery = [d \in Deliveries |-> "none"]
    /\ job = [d \in Deliveries |-> NoJob]
    /\ request = [q \in Requests |-> "unsent"]
    /\ exec = [e \in Executors |-> NoExec]
    /\ stored = {}
    /\ told = {}
    /\ late = {}

-----------------------------------------------------------------------------
(***************************************************************************)
(* The handler (handleGitHubWebhook, handleJenkinsWebhook).                *)
(***************************************************************************)

ClaimWithoutIndex(q) ==
    /\ request[q] = "unsent"
    /\ delivery' = [delivery EXCEPT ![Of(q)] = "claimed"]
    /\ request' = [request EXCEPT ![q] = "claimed"]
    /\ UNCHANGED <<job, exec, stored, told, late>>

\* claimDelivery: the insert succeeds for one request per delivery id; any
\* other is answered 202 as a duplicate, whatever became of the first.
Claim(q) ==
    /\ request[q] = "unsent"
    /\ IF delivery[Of(q)] = "none"
         THEN /\ delivery' = [delivery EXCEPT ![Of(q)] = "claimed"]
              /\ request' = [request EXCEPT ![q] = "claimed"]
         ELSE /\ request' = [request EXCEPT ![q] = "duplicate"]
              /\ UNCHANGED delivery
    /\ UNCHANGED <<job, exec, stored, told, late>>

Enqueue(q) ==
    /\ request[q] = "claimed"
    /\ job' = [job EXCEPT ![Of(q)] = Add(@)]
    /\ request' = [request EXCEPT ![q] = "enqueued"]
    /\ UNCHANGED <<delivery, exec, stored, told, late>>

EnqueueFailsQuietly(q) ==
    /\ request[q] = "claimed"
    /\ request' = [request EXCEPT ![q] = "accepted"]
    /\ UNCHANGED <<delivery, job, exec, stored, told, late>>

\* queue.add fails: in production the error goes to the client and nothing
\* else happens; elsewhere the request processes the event itself.
EnqueueFails(q) ==
    /\ request[q] = "claimed"
    /\ IF Production
         THEN /\ request' = [request EXCEPT ![q] = "error"]
              /\ UNCHANGED exec
         ELSE /\ request' = [request EXCEPT ![q] = "fallback"]
              /\ exec' = [exec EXCEPT ![q] = Begin(Of(q))]
    /\ UNCHANGED <<delivery, job, stored, told, late>>

\* The unconditional update to 'queued' after the job was added.
MarkQueued(q) ==
    /\ request[q] = "enqueued"
    /\ delivery' = [delivery EXCEPT ![Of(q)] = "queued"]
    /\ request' = [request EXCEPT ![q] = "accepted"]
    /\ late' = IF job[Of(q)] = NewJob THEN late ELSE late \cup {Of(q)}
    /\ UNCHANGED <<job, exec, stored, told>>

\* The API process dies, or the 'queued' update fails, in mid-request.
RequestDies(q) ==
    /\ request[q] \in {"claimed", "enqueued", "fallback"}
    /\ request' = [request EXCEPT ![q] = "error"]
    /\ exec' = [exec EXCEPT ![q] = NoExec]
    /\ UNCHANGED <<delivery, job, stored, told, late>>

-----------------------------------------------------------------------------
(***************************************************************************)
(* processWebhookJob, run by a job slot or by a request that fell back.    *)
(***************************************************************************)

GoTo(e, pc) == exec' = [exec EXCEPT ![e].pc = pc]

\* Event type, integration, repository or project make it a no-op.
Ignore(e) ==
    /\ exec[e].pc = "start"
    /\ Kind[exec[e].d] # "run"
    /\ delivery' = [delivery EXCEPT ![exec[e].d] = "ignored"]
    /\ GoTo(e, "return")
    /\ UNCHANGED <<job, request, stored, told, late>>

UpsertRun(e) ==
    /\ exec[e].pc = "start"
    /\ Kind[exec[e].d] = "run"
    /\ stored' = stored \cup {exec[e].d}
    /\ GoTo(e, "upserted")
    /\ UNCHANGED <<delivery, job, request, told, late>>

MarkProcessedFirst(e) ==
    /\ exec[e].pc \in {"start", "upserted"}
    /\ Kind[exec[e].d] = "run"
    /\ delivery' = [delivery EXCEPT ![exec[e].d] = "processed"]
    /\ GoTo(e, "processed")
    /\ UNCHANGED <<job, request, stored, told, late>>

MarkProcessed(e) ==
    /\ exec[e].pc = "upserted"
    /\ delivery' = [delivery EXCEPT ![exec[e].d] = "processed"]
    /\ GoTo(e, "processed")
    /\ UNCHANGED <<job, request, stored, told, late>>

Publish(e) ==
    /\ exec[e].pc = "processed"
    /\ told' = told \cup {exec[e].d}
    /\ GoTo(e, "return")
    /\ UNCHANGED <<delivery, job, request, stored, late>>

PublishFailsQuietly(e) ==
    /\ exec[e].pc = "processed"
    /\ GoTo(e, "return")
    /\ UNCHANGED <<delivery, job, request, stored, told, late>>

\* Redis refuses the events: publishPipelineEvent throws in production and
\* carries on elsewhere (ciEventBridge.js).
PublishFails(e) ==
    /\ exec[e].pc = "processed"
    /\ GoTo(e, IF Production THEN "caught" ELSE "return")
    /\ UNCHANGED <<delivery, job, request, stored, told, late>>

\* A read or a write of the database fails.  The update for an unhandled event
\* type lies outside the try block.
Throws(e) ==
    /\ exec[e].pc \in {"start", "upserted"}
    /\ GoTo(e, IF Kind[exec[e].d] = "other" THEN "throw" ELSE "caught")
    /\ UNCHANGED <<delivery, job, request, stored, told, late>>

MarkFailedNoRethrow(e) ==
    /\ exec[e].pc = "caught"
    /\ delivery' = [delivery EXCEPT ![exec[e].d] = "failed"]
    /\ GoTo(e, "return")
    /\ UNCHANGED <<job, request, stored, told, late>>

\* The catch block: status 'failed', or that write fails as well; rethrow.
MarkFailed(e) ==
    /\ exec[e].pc = "caught"
    /\ delivery' \in {delivery, [delivery EXCEPT ![exec[e].d] = "failed"]}
    /\ GoTo(e, "throw")
    /\ UNCHANGED <<job, request, stored, told, late>>

-----------------------------------------------------------------------------
(***************************************************************************)
(* Around the processor: the BullMQ worker, and the handler that fell back.*)
(***************************************************************************)

TakeJob(w, d) ==
    /\ exec[w].pc = "idle"
    /\ job[d].state = "waiting"
    /\ job' = [job EXCEPT ![d] = Take(@)]
    /\ exec' = [exec EXCEPT ![w] = Begin(d)]
    /\ UNCHANGED <<delivery, request, stored, told, late>>

\* The processor is done.  Without the lock BullMQ ignores the result.
WorkerDone(w) ==
    /\ exec[w].pc \in {"return", "throw"}
    /\ job' = IF exec[w].lock
                THEN [job EXCEPT ![exec[w].d] =
                        IF exec[w].pc = "return" THEN Complete(@) ELSE Fail(@, FALSE)]
                ELSE job
    /\ exec' = [exec EXCEPT ![w] = NoExec]
    /\ UNCHANGED <<delivery, request, stored, told, late>>

FallbackDone(q) ==
    /\ exec[q].pc \in {"return", "throw"}
    /\ request' = [request EXCEPT ![q] =
                     IF exec[q].pc = "return" THEN "accepted" ELSE "error"]
    /\ exec' = [exec EXCEPT ![q] = NoExec]
    /\ UNCHANGED <<delivery, job, stored, told, late>>

\* The worker process dies in mid-job.
WorkerDies(w) ==
    /\ exec[w].pc # "idle"
    /\ exec' = [exec EXCEPT ![w] = NoExec]
    /\ UNCHANGED <<delivery, job, request, stored, told, late>>

Stuck(w, d) == exec[w].d = d /\ exec[w].lock

\* The lock of an active job expires: its slot died, or is alive but too slow
\* to renew it and keeps running without the lock.
JobStalls(d) ==
    /\ job[d].state = "active"
    /\ job' = [job EXCEPT ![d] = Stall(@)]
    /\ exec' = [e \in Executors |->
                  IF e \in Workers /\ Stuck(e, d) THEN [exec[e] EXCEPT !.lock = FALSE]
                                                  ELSE exec[e]]
    /\ UNCHANGED <<delivery, request, stored, told, late>>

-----------------------------------------------------------------------------
Handle(q) == Claim(q) \/ Enqueue(q) \/ EnqueueFails(q) \/ MarkQueued(q)
                \/ RequestDies(q) \/ FallbackDone(q)

Process(e) == Ignore(e) \/ UpsertRun(e) \/ MarkProcessed(e) \/ Publish(e)
                \/ PublishFails(e) \/ Throws(e) \/ MarkFailed(e)

Work(w) == WorkerDone(w) \/ WorkerDies(w) \/ \E d \in Deliveries : TakeJob(w, d)

Next ==
    \/ \E q \in Requests : Handle(q)
    \/ \E e \in Executors : Process(e)
    \/ \E w \in Workers : Work(w)
    \/ \E d \in Deliveries : JobStalls(d)

Spec == Init /\ [][Next]_vars

(***************************************************************************)
(* A running worker takes jobs and runs them on, and BullMQ checks for     *)
(* stalled jobs.  Nothing is assumed of the requests, of failures or of    *)
(* crashes.                                                                *)
(***************************************************************************)
Fairness ==
    /\ \A d \in Deliveries : /\ SF_vars(\E w \in Workers : TakeJob(w, d))
                             /\ WF_vars(JobStalls(d))
    /\ \A w \in Workers : WF_vars(Process(w)) /\ WF_vars(WorkerDone(w))

FairSpec == Spec /\ Fairness

-----------------------------------------------------------------------------
(***************************************************************************)
(* Properties.                                                             *)
(***************************************************************************)

\* However often a delivery is sent, one request at most gets past the claim
\* (README.md:68).
AcceptedOnce ==
    \A q, r \in Requests :
        /\ Of(q) = Of(r)
        /\ request[q] \notin {"unsent", "duplicate"}
        /\ request[r] \notin {"unsent", "duplicate"}
        => q = r

\* A delivery shown as processed has its run in the database, also while
\* retries and stalled executions overlap.
ProcessedIsStored ==
    \A d \in Deliveries : delivery[d] = "processed" => d \in stored

\* A job BullMQ lists as completed has done its work: the run is stored and in
\* production the events went out.
CompletedIsDone ==
    \A d \in Deliveries :
        job[d].state = "completed" /\ Kind[d] = "run"
        => d \in stored /\ (Production => d \in told)

\* A request that was told "accepted" left a job behind, or did the work.
AcceptedIsDurable ==
    \A q \in Requests :
        request[q] = "accepted"
        => job[Of(q)] # NoJob \/ delivery[Of(q)] \in {"processed", "ignored", "failed"}

InFlight(d) ==
    \/ \E q \in Requests : Of(q) = d /\ request[q] \in {"claimed", "enqueued", "fallback"}
    \/ \E e \in Executors : exec[e].d = d
    \/ job[d].state \in {"waiting", "active"}

\* When all is quiet and the job completed, the delivery says so, unless the
\* handler's 'queued' came late or an execution outlived its lock.
SettledUnlessLate ==
    \A d \in Deliveries :
        ~InFlight(d) /\ job[d].state = "completed" /\ job[d].stalls = 0 /\ d \notin late
        => delivery[d] \in {"processed", "ignored"}

\* When all is quiet and the job completed, the delivery says so
\* (ciWorker.js:235, cicd.test.js:268-270).
Settled ==
    \A d \in Deliveries :
        ~InFlight(d) /\ job[d].state = "completed" /\ job[d].stalls = 0
        => delivery[d] \in {"processed", "ignored"}

\* A sender that is answered 202 as a duplicate may forget the delivery: it
\* has a job or an outcome (cicd.controller.js:69).
DuplicateIsSafe ==
    \A q \in Requests :
        request[q] = "duplicate" /\ ~InFlight(Of(q))
        => job[Of(q)] # NoJob \/ delivery[Of(q)] \in {"processed", "ignored", "failed"}

\* Every job ends, completed or failed, through all retries and crashes.
EveryJobEnds ==
    \A d \in Deliveries : job[d].state = "waiting" ~> Finished(job[d])
=============================================================================
