------------------------ MODULE OrchestrationDelivery ------------------------
(***************************************************************************)
(* The way of an Argo CD webhook through handleOrchestrationWebhook, the   *)
(* delivery record (which, unlike the CI one, may be claimed again once it *)
(* failed), the orchestration-events queue and processOrchestrationJob.    *)
(*                                                                         *)
(* What is observed and what becomes of it is not told apart here: an      *)
(* execution stores an observation or it does not.                         *)
(***************************************************************************)
EXTENDS JobQueue

CONSTANTS
    Deliveries,     \* delivery keys
    Sends,          \* the times the webhook of a key may be sent
    Workers         \* job slots of the orchestration worker

Requests == Deliveries \X Sends

Of(q) == q[1]   \* the delivery request q carries

VARIABLES
    delivery,   \* the status of the OrchestrationDelivery document, "none" without
    job,        \* the BullMQ job of the delivery, 'orch-del-<delivery>'
    request,    \* where the handler of each request is
    exec,       \* what each job slot is doing
    observed,   \* the deliveries whose observation was stored
    ran,        \* history: the requests since whose claim the job has run
    claims,     \* history: how often each delivery was claimed again
    failures    \* history: how often it became 'failed'

vars == <<delivery, job, request, exec, observed, ran, claims, failures>>

DeliveryStatus == {"none", "claimed", "queued", "processing", "succeeded", "failed"}
RequestPc == {"unsent", "reclaiming", "claimed", "enqueued", "refused",
              "accepted", "duplicate", "unavailable", "dead"}
ExecPc == {"idle", "start", "processing", "observed", "stored",
           "caught", "caught for good", "return", "throw", "give up"}

\* lock: the execution still owns its job; FALSE once the job has stalled.
Execs  == [pc : ExecPc, d : Deliveries \cup {"none"}, lock : BOOLEAN]
NoExec == [pc |-> "idle", d |-> "none", lock |-> FALSE]
Begin(d) == [pc |-> "start", d |-> d, lock |-> TRUE]

TypeOK ==
    /\ delivery \in [Deliveries -> DeliveryStatus]
    /\ job \in [Deliveries -> Jobs]
    /\ request \in [Requests -> RequestPc]
    /\ exec \in [Workers -> Execs]
    /\ observed \in SUBSET Deliveries
    /\ ran \in SUBSET Requests
    /\ claims \in [Deliveries -> Nat]
    /\ failures \in [Deliveries -> Nat]

Init ==
    /\ delivery = [d \in Deliveries |-> "none"]
    /\ job = [d \in Deliveries |-> NoJob]
    /\ request = [q \in Requests |-> "unsent"]
    /\ exec = [w \in Workers |-> NoExec]
    /\ observed = {}
    /\ ran = {}
    /\ claims = [d \in Deliveries |-> 0]
    /\ failures = [d \in Deliveries |-> 0]

SetStatus(d, status) ==
    /\ delivery' = [delivery EXCEPT ![d] = status]
    /\ failures' = IF status = "failed" /\ delivery[d] # "failed"
                     THEN [failures EXCEPT ![d] = @ + 1]
                     ELSE failures

Answer(q, pc) == request' = [request EXCEPT ![q] = pc]

-----------------------------------------------------------------------------
(***************************************************************************)
(* The handler (handleOrchestrationWebhook).                               *)
(***************************************************************************)

\* claimDelivery: the insert, or the look at the document that was there.
Claim(q) ==
    /\ request[q] = "unsent"
    /\ \/ /\ delivery[Of(q)] = "none"
          /\ SetStatus(Of(q), "claimed")
          /\ Answer(q, "claimed")
       \/ /\ delivery[Of(q)] # "none"
          /\ Answer(q, IF delivery[Of(q)] = "failed" THEN "reclaiming" ELSE "duplicate")
          /\ UNCHANGED <<delivery, failures>>
    /\ UNCHANGED <<job, exec, observed, ran, claims>>

ReclaimUnchecked(q) ==
    /\ request[q] = "reclaiming"
    /\ SetStatus(Of(q), "claimed")
    /\ claims' = [claims EXCEPT ![Of(q)] = @ + 1]
    /\ Answer(q, "claimed")
    /\ UNCHANGED <<job, exec, observed, ran>>

\* The compare-and-set from 'failed' to 'claimed'.
Reclaim(q) ==
    /\ request[q] = "reclaiming"
    /\ \/ /\ delivery[Of(q)] = "failed"
          /\ SetStatus(Of(q), "claimed")
          /\ claims' = [claims EXCEPT ![Of(q)] = @ + 1]
          /\ Answer(q, "claimed")
          /\ ran' = IF job[Of(q)].state = "active" THEN ran \cup {q} ELSE ran
       \/ /\ delivery[Of(q)] # "failed"
          /\ Answer(q, "duplicate")
          /\ UNCHANGED <<delivery, failures, claims, ran>>
    /\ UNCHANGED <<job, exec, observed>>

Enqueue(q) ==
    /\ request[q] = "claimed"
    /\ job' = [job EXCEPT ![Of(q)] = Add(@)]
    /\ Answer(q, "enqueued")
    /\ UNCHANGED <<delivery, exec, observed, ran, claims, failures>>

EnqueueFailsQuietly(q) ==
    /\ request[q] = "claimed"
    /\ Answer(q, "accepted")
    /\ UNCHANGED <<delivery, job, exec, observed, ran, claims, failures>>

\* queue.add fails, or its answer is lost.
EnqueueFails(q) ==
    /\ request[q] = "claimed"
    /\ job' \in {job, [job EXCEPT ![Of(q)] = Add(@)]}
    /\ Answer(q, "refused")
    /\ UNCHANGED <<delivery, exec, observed, ran, claims, failures>>

\* The unconditional update to 'queued'.
MarkQueued(q) ==
    /\ request[q] = "enqueued"
    /\ SetStatus(Of(q), "queued")
    /\ Answer(q, "accepted")
    /\ UNCHANGED <<job, exec, observed, ran, claims>>

\* That update fails: the same catch block as for the queue.
MarkQueuedFails(q) ==
    /\ request[q] = "enqueued"
    /\ Answer(q, "refused")
    /\ UNCHANGED <<delivery, job, exec, observed, ran, claims, failures>>

RefuseWithoutRelease(q) ==
    /\ request[q] = "refused"
    /\ Answer(q, "unavailable")
    /\ UNCHANGED <<delivery, job, exec, observed, ran, claims, failures>>

\* The catch block: status 'failed', whatever it is by now, and 503.
Refuse(q) ==
    /\ request[q] = "refused"
    /\ SetStatus(Of(q), "failed")
    /\ Answer(q, "unavailable")
    /\ UNCHANGED <<job, exec, observed, ran, claims>>

\* The API process dies in mid-request, or the catch block's write fails.
RequestDies(q) ==
    /\ request[q] \in {"reclaiming", "claimed", "enqueued", "refused"}
    /\ Answer(q, "dead")
    /\ UNCHANGED <<delivery, job, exec, observed, ran, claims, failures>>

-----------------------------------------------------------------------------
(***************************************************************************)
(* processOrchestrationJob.                                                *)
(***************************************************************************)

GoTo(w, pc) == exec' = [exec EXCEPT ![w].pc = pc]

MarkProcessing(w) ==
    /\ exec[w].pc = "start"
    /\ SetStatus(exec[w].d, "processing")
    /\ GoTo(w, "processing")
    /\ UNCHANGED <<job, request, observed, ran, claims>>

\* The integration is gone, deleted or of an unknown provider by now: failed
\* for good, no retry.
RejectIntegration(w) ==
    /\ exec[w].pc = "processing"
    /\ SetStatus(exec[w].d, "failed")
    /\ GoTo(w, "give up")
    /\ UNCHANGED <<job, request, observed, ran, claims>>

\* fetchWorkloadStatus of the provider.
Observe(w) ==
    /\ exec[w].pc = "processing"
    /\ GoTo(w, "observed")
    /\ UNCHANGED <<delivery, job, request, observed, ran, claims, failures>>

StoreObservation(w) ==
    /\ exec[w].pc = "observed"
    /\ observed' = observed \cup {exec[w].d}
    /\ GoTo(w, "stored")
    /\ UNCHANGED <<delivery, job, request, ran, claims, failures>>

MarkSucceededEarly(w) ==
    /\ exec[w].pc \in {"observed", "stored"}
    /\ SetStatus(exec[w].d, "succeeded")
    /\ GoTo(w, "return")
    /\ UNCHANGED <<job, request, observed, ran, claims>>

\* The integration is marked connected first; a failed projection into the
\* deployments is logged and forgotten.
MarkSucceeded(w) ==
    /\ exec[w].pc = "stored"
    /\ SetStatus(exec[w].d, "succeeded")
    /\ GoTo(w, "return")
    /\ UNCHANGED <<job, request, observed, ran, claims>>

\* MongoDB fails before the try block (plain error), or the provider or a
\* write within it; isTransientError sorts the latter by its message.
Throws(w) ==
    /\ \/ exec[w].pc \in {"start", "processing"} /\ GoTo(w, "throw")
       \/ /\ exec[w].pc \in {"processing", "observed", "stored"}
          /\ \E pc \in {"caught", "caught for good"} : GoTo(w, pc)
    /\ UNCHANGED <<delivery, job, request, observed, ran, claims, failures>>

\* The catch block: 'failed', then the error message of the integration, then
\* rethrow.  When one of these writes fails the plain error of that write goes
\* out instead.
MarkFailed(w) ==
    /\ exec[w].pc \in {"caught", "caught for good"}
    /\ \/ /\ SetStatus(exec[w].d, "failed")
          /\ GoTo(w, IF exec[w].pc = "caught" THEN "throw" ELSE "give up")
       \/ SetStatus(exec[w].d, "failed") /\ GoTo(w, "throw")
       \/ GoTo(w, "throw") /\ UNCHANGED <<delivery, failures>>
    /\ UNCHANGED <<job, request, observed, ran, claims>>

-----------------------------------------------------------------------------
(***************************************************************************)
(* The BullMQ worker around it.                                            *)
(***************************************************************************)

TakeJob(w, d) ==
    /\ exec[w].pc = "idle"
    /\ job[d].state = "waiting"
    /\ job' = [job EXCEPT ![d] = Take(@)]
    /\ exec' = [exec EXCEPT ![w] = Begin(d)]
    /\ ran' = ran \cup {q \in Requests : /\ Of(q) = d
                                         /\ request[q] \in {"claimed", "enqueued", "accepted"}}
    /\ UNCHANGED <<delivery, request, observed, claims, failures>>

\* The processor is done.  Without the lock BullMQ ignores the result.
WorkerDone(w) ==
    /\ exec[w].pc \in {"return", "throw", "give up"}
    /\ job' = IF exec[w].lock
                THEN [job EXCEPT ![exec[w].d] =
                        IF exec[w].pc = "return" THEN Complete(@)
                                                 ELSE Fail(@, exec[w].pc = "give up")]
                ELSE job
    /\ exec' = [exec EXCEPT ![w] = NoExec]
    /\ UNCHANGED <<delivery, request, observed, ran, claims, failures>>

WorkerDies(w) ==
    /\ exec[w].pc # "idle"
    /\ exec' = [exec EXCEPT ![w] = NoExec]
    /\ UNCHANGED <<delivery, job, request, observed, ran, claims, failures>>

Stuck(w, d) == exec[w].d = d /\ exec[w].lock

\* The lock of an active job expires: its slot died, or is too slow to renew it
\* and runs on without it.
JobStalls(d) ==
    /\ job[d].state = "active"
    /\ job' = [job EXCEPT ![d] = Stall(@)]
    /\ exec' = [w \in Workers |->
                  IF Stuck(w, d) THEN [exec[w] EXCEPT !.lock = FALSE] ELSE exec[w]]
    /\ UNCHANGED <<delivery, request, observed, ran, claims, failures>>

-----------------------------------------------------------------------------
Handle(q) == Claim(q) \/ Reclaim(q) \/ Enqueue(q) \/ EnqueueFails(q) \/ MarkQueued(q)
                \/ MarkQueuedFails(q) \/ Refuse(q) \/ RequestDies(q)

Process(w) == MarkProcessing(w) \/ RejectIntegration(w) \/ Observe(w) \/ StoreObservation(w)
                \/ MarkSucceeded(w) \/ Throws(w) \/ MarkFailed(w)

Work(w) == WorkerDone(w) \/ WorkerDies(w) \/ \E d \in Deliveries : TakeJob(w, d)

Next ==
    \/ \E q \in Requests : Handle(q)
    \/ \E w \in Workers : Process(w) \/ Work(w)
    \/ \E d \in Deliveries : JobStalls(d)

Spec == Init /\ [][Next]_vars

-----------------------------------------------------------------------------
(***************************************************************************)
(* Properties.                                                             *)
(***************************************************************************)

InFlight(d) ==
    \/ \E q \in Requests :
          /\ Of(q) = d
          /\ request[q] \in {"reclaiming", "claimed", "enqueued", "refused"}
    \/ \E w \in Workers : exec[w].d = d
    \/ job[d].state \in {"waiting", "active"}

\* Every claim after the first is paid for by a failure of its own: of two
\* resends that both read 'failed', one gets through.
ReclaimsAreEarned ==
    \A d \in Deliveries : claims[d] <= failures[d]

\* A delivery shown as succeeded has its observation stored, also while
\* retries, resends and stalled executions overlap.
SucceededIsObserved ==
    \A d \in Deliveries : delivery[d] = "succeeded" => d \in observed

\* Unless the API process died on it, an event that was answered, with 202 or
\* with 503, has a job, or its key can be claimed again by the next resend.
AnsweredIsNotLost ==
    \A q \in Requests :
        /\ request[q] \in {"accepted", "duplicate", "unavailable"}
        /\ ~InFlight(Of(q))
        /\ \A r \in Requests : Of(r) = Of(q) => request[r] # "dead"
        => job[Of(q)] # NoJob \/ delivery[Of(q)] = "failed"

\* An accepted webhook is processed: when all is quiet its job has run.
AcceptedRuns ==
    \A q \in Requests :
        request[q] = "accepted" /\ ~InFlight(Of(q)) /\ claims[Of(q)] = 0 => q \in ran

\* The same of a resend that claimed the delivery again after a failure: the
\* job has run since (orchestrationDelivery.model.js:75).
RetryRuns ==
    \A q \in Requests : request[q] = "accepted" /\ ~InFlight(Of(q)) => q \in ran
=============================================================================
