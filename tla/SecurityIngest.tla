---------------------------- MODULE SecurityIngest ----------------------------
(***************************************************************************)
(* The way of a scan report from the webhook (handleSecurityWebhook)       *)
(* through SecurityDelivery and the shared ci-events queue to              *)
(* processSecurityScanJob, which stores a SecurityScan with its findings   *)
(* in a transaction, or step by step where MongoDB has none, and has the   *)
(* policies evaluated.                                                     *)
(*                                                                         *)
(* Scans of a report are told apart only by how far they got, so they are  *)
(* counted.  What a scan does to the findings of its scope is              *)
(* FindingReconciliation, what an evaluation does is PolicyGate.           *)
(***************************************************************************)
EXTENDS JobQueue

CONSTANTS
    Reports,        \* delivery keys: integration and digest of the report
    Sends,          \* the times a report may be sent
    Workers         \* job slots of the CI worker

Requests  == Reports \X Sends
Executors == Workers \cup Requests  \* a request that falls back runs the job

ASSUME IngestAssumption == Workers \cap Requests = {}

Of(q) == q[1]

VARIABLES
    env,        \* production: config.env; transactions: MongoDB has them
    delivery,   \* status of the SecurityDelivery, "none" without
    job,        \* the BullMQ job of the report
    request,    \* where the handler of each request is
    exec,       \* the executions of processSecurityScanJob
    scans       \* how many SecurityScans of the report: started and not
                \* completed, completed, completed and with a gateStatus

vars == <<env, delivery, job, request, exec, scans>>

\* 'processing' is written although the schema does not list it.
DeliveryStatus == {"none", "claimed", "queued", "processing", "processed", "failed"}
RequestPc == {"unsent", "reclaiming", "claimed", "enqueued", "fallback",
              "accepted", "duplicate", "error"}
ExecPc == {"idle", "start", "marked", "duplicate", "parse", "created", "stored",
           "processed", "caught", "return", "throw"}

Execs  == [pc : ExecPc, d : Reports \cup {"none"}, lock : BOOLEAN]
NoExec == [pc |-> "idle", d |-> "none", lock |-> FALSE]
Begin(d) == [pc |-> "start", d |-> d, lock |-> TRUE]

TypeOK ==
    /\ env \in [production : BOOLEAN, transactions : BOOLEAN]
    /\ delivery \in [Reports -> DeliveryStatus]
    /\ job \in [Reports -> Jobs]
    /\ request \in [Requests -> RequestPc]
    /\ exec \in [Executors -> Execs]
    /\ scans \in [Reports -> [processing : Nat, completed : Nat, gated : Nat]]

Init ==
    /\ env \in [production : BOOLEAN, transactions : BOOLEAN]
    /\ delivery = [d \in Reports |-> "none"]
    /\ job = [d \in Reports |-> NoJob]
    /\ request = [q \in Requests |-> "unsent"]
    /\ exec = [e \in Executors |-> NoExec]
    /\ scans = [d \in Reports |-> [processing |-> 0, completed |-> 0, gated |-> 0]]

-----------------------------------------------------------------------------
(***************************************************************************)
(* handleSecurityWebhook, once the token and the report were accepted.     *)
(***************************************************************************)

Answer(q, pc) == request' = [request EXCEPT ![q] = pc]

\* claimDelivery: the insert under the unique deliveryKey; a key that exists is
\* a duplicate, unless the delivery is read as failed.
Claim(q) ==
    /\ request[q] = "unsent"
    /\ \/ /\ delivery[Of(q)] = "none"
          /\ delivery' = [delivery EXCEPT ![Of(q)] = "claimed"]
          /\ Answer(q, "claimed")
       \/ /\ delivery[Of(q)] # "none"
          /\ Answer(q, IF delivery[Of(q)] = "failed" THEN "reclaiming" ELSE "duplicate")
          /\ UNCHANGED delivery
    /\ UNCHANGED <<env, job, exec, scans>>

\* The second half: findOneAndUpdate on {deliveryKey, status: 'failed'}.
Reclaim(q) ==
    /\ request[q] = "reclaiming"
    /\ IF delivery[Of(q)] = "failed"
         THEN /\ delivery' = [delivery EXCEPT ![Of(q)] = "claimed"]
              /\ Answer(q, "claimed")
         ELSE /\ Answer(q, "duplicate")
              /\ UNCHANGED delivery
    /\ UNCHANGED <<env, job, exec, scans>>

Enqueue(q) ==
    /\ request[q] = "claimed"
    /\ job' = [job EXCEPT ![Of(q)] = Add(@)]
    /\ Answer(q, "enqueued")
    /\ UNCHANGED <<env, delivery, exec, scans>>

EnqueueFailsQuietly(q) ==
    /\ request[q] = "claimed"
    /\ Answer(q, "enqueued")
    /\ UNCHANGED <<env, delivery, job, exec, scans>>

\* queue.add fails: in production the request fails and the claim stays; else
\* the request processes the report itself.
EnqueueFails(q) ==
    /\ request[q] = "claimed"
    /\ IF env.production
         THEN Answer(q, "error") /\ UNCHANGED exec
         ELSE Answer(q, "fallback") /\ exec' = [exec EXCEPT ![q] = Begin(Of(q))]
    /\ UNCHANGED <<env, delivery, job, scans>>

\* Status 'queued', after queue.add and after the fallback alike, and 202.
MarkQueued(q) ==
    /\ request[q] = "enqueued"
    /\ delivery' = [delivery EXCEPT ![Of(q)] = "queued"]
    /\ Answer(q, "accepted")
    /\ UNCHANGED <<env, job, exec, scans>>

\* The API process dies in mid-request, or the 'queued' update fails.
RequestDies(q) ==
    /\ request[q] \in {"claimed", "enqueued", "fallback"}
    /\ Answer(q, "error")
    /\ exec' = [exec EXCEPT ![q] = NoExec]
    /\ UNCHANGED <<env, delivery, job, scans>>

-----------------------------------------------------------------------------
(***************************************************************************)
(* processSecurityScanJob.                                                 *)
(***************************************************************************)

GoTo(e, pc) == exec' = [exec EXCEPT ![e].pc = pc]
Mark(e, status) == delivery' = [delivery EXCEPT ![exec[e].d] = status]

MarkProcessing(e) ==
    /\ exec[e].pc = "start"
    /\ IF delivery[exec[e].d] \in {"claimed", "queued"}
         THEN Mark(e, "processing")
         ELSE UNCHANGED delivery
    /\ GoTo(e, "marked")
    /\ UNCHANGED <<env, job, request, scans>>

FindScanSkipped(e) ==
    /\ exec[e].pc = "marked"
    /\ GoTo(e, "parse")
    /\ UNCHANGED <<env, delivery, job, request, scans>>

\* Is there a scan of this report, completed or processing?
FindScan(e) ==
    /\ exec[e].pc = "marked"
    /\ LET found == scans[exec[e].d] IN
       GoTo(e, IF found.processing + found.completed > 0 THEN "duplicate" ELSE "parse")
    /\ UNCHANGED <<env, delivery, job, request, scans>>

\* A scan was found: processed, and nothing more is done, no evaluation either.
SkipDuplicate(e) ==
    /\ exec[e].pc = "duplicate"
    /\ Mark(e, "processed")
    /\ GoTo(e, "return")
    /\ UNCHANGED <<env, job, request, scans>>

\* The transaction: scan, findings, reconciliation and summary at once.
CommitScan(e) ==
    /\ exec[e].pc = "parse"
    /\ env.transactions
    /\ scans' = [scans EXCEPT ![exec[e].d].completed = @ + 1]
    /\ GoTo(e, "stored")
    /\ UNCHANGED <<env, delivery, job, request>>

\* Without transactions: first the scan alone, in status processing.
CreateScan(e) ==
    /\ exec[e].pc = "parse"
    /\ ~env.transactions
    /\ scans' = [scans EXCEPT ![exec[e].d].processing = @ + 1]
    /\ GoTo(e, "created")
    /\ UNCHANGED <<env, delivery, job, request>>

\* Then its findings, the reconciliation, and the scan completed.
CompleteScan(e) ==
    /\ exec[e].pc = "created"
    /\ scans' = [scans EXCEPT ![exec[e].d].processing = @ - 1,
                              ![exec[e].d].completed = @ + 1]
    /\ GoTo(e, "stored")
    /\ UNCHANGED <<env, delivery, job, request>>

MarkProcessedEarly(e) ==
    /\ exec[e].pc \in {"parse", "stored"}
    /\ Mark(e, "processed")
    /\ GoTo(e, "processed")
    /\ UNCHANGED <<env, job, request, scans>>

MarkProcessed(e) ==
    /\ exec[e].pc = "stored"
    /\ Mark(e, "processed")
    /\ GoTo(e, "processed")
    /\ UNCHANGED <<env, job, request, scans>>

Evaluate(e) ==
    /\ exec[e].pc = "processed"
    /\ scans' = [scans EXCEPT ![exec[e].d].gated = @ + 1]
    /\ GoTo(e, "return")
    /\ UNCHANGED <<env, delivery, job, request>>

\* An error of the evaluation is logged and forgotten.
EvaluateFails(e) ==
    /\ exec[e].pc = "processed"
    /\ GoTo(e, "return")
    /\ UNCHANGED <<env, delivery, job, request, scans>>

\* The report does not parse, or a read, a write or the transaction fails.  The
\* first update lies outside the try block.
Throws(e) ==
    /\ exec[e].pc \in {"start", "marked", "duplicate", "parse", "created", "stored"}
    /\ GoTo(e, IF exec[e].pc = "start" THEN "throw" ELSE "caught")
    /\ UNCHANGED <<env, delivery, job, request, scans>>

\* The catch block: 'failed', or that update fails too; then rethrow.
MarkFailed(e) ==
    /\ exec[e].pc = "caught"
    /\ Mark(e, "failed") \/ UNCHANGED delivery
    /\ GoTo(e, "throw")
    /\ UNCHANGED <<env, job, request, scans>>

-----------------------------------------------------------------------------
TakeJob(w, d) ==
    /\ exec[w].pc = "idle"
    /\ job[d].state = "waiting"
    /\ job' = [job EXCEPT ![d] = Take(@)]
    /\ exec' = [exec EXCEPT ![w] = Begin(d)]
    /\ UNCHANGED <<env, delivery, request, scans>>

WorkerDone(w) ==
    /\ exec[w].pc \in {"return", "throw"}
    /\ job' = IF exec[w].lock
                THEN [job EXCEPT ![exec[w].d] =
                        IF exec[w].pc = "return" THEN Complete(@) ELSE Fail(@, FALSE)]
                ELSE job
    /\ exec' = [exec EXCEPT ![w] = NoExec]
    /\ UNCHANGED <<env, delivery, request, scans>>

\* The fallback is over: its result is handled as that of queue.add.
FallbackDone(q) ==
    /\ exec[q].pc \in {"return", "throw"}
    /\ Answer(q, IF exec[q].pc = "return" THEN "enqueued" ELSE "error")
    /\ exec' = [exec EXCEPT ![q] = NoExec]
    /\ UNCHANGED <<env, delivery, job, scans>>

WorkerDies(w) ==
    /\ exec[w].pc # "idle"
    /\ exec' = [exec EXCEPT ![w] = NoExec]
    /\ UNCHANGED <<env, delivery, job, request, scans>>

\* The lock of an active job expires under a dead or a slow execution.
JobStalls(d) ==
    /\ job[d].state = "active"
    /\ job' = [job EXCEPT ![d] = Stall(@)]
    /\ exec' = [e \in Executors |->
                  IF e \in Workers /\ exec[e].d = d THEN [exec[e] EXCEPT !.lock = FALSE]
                                                    ELSE exec[e]]
    /\ UNCHANGED <<env, delivery, request, scans>>

-----------------------------------------------------------------------------
Handle(q) == Claim(q) \/ Reclaim(q) \/ Enqueue(q) \/ EnqueueFails(q)
                \/ MarkQueued(q) \/ RequestDies(q) \/ FallbackDone(q)

Process(e) == MarkProcessing(e) \/ FindScan(e) \/ SkipDuplicate(e) \/ CommitScan(e)
                \/ CreateScan(e) \/ CompleteScan(e) \/ MarkProcessed(e)
                \/ Evaluate(e) \/ EvaluateFails(e) \/ Throws(e) \/ MarkFailed(e)

Next ==
    \/ \E q \in Requests : Handle(q)
    \/ \E e \in Executors : Process(e)
    \/ \E w \in Workers : WorkerDone(w) \/ WorkerDies(w) \/ \E d \in Reports : TakeJob(w, d)
    \/ \E d \in Reports : JobStalls(d)

Spec == Init /\ [][Next]_vars

-----------------------------------------------------------------------------
(***************************************************************************)
(* Properties.                                                             *)
(***************************************************************************)

\* A delivery shown as processed has a completed scan, and so has a job BullMQ
\* lists as completed; without transactions, at least one that was begun.
ProcessedIsScanned ==
    \A d \in Reports : delivery[d] = "processed" \/ job[d].state = "completed" =>
        \/ scans[d].completed > 0
        \/ ~env.transactions /\ scans[d].processing > 0

\* A report becomes one scan, through retries, resends and claims made again:
\* only a job that lost its lock, or a fallback beside a job, makes a second.
OneScanPerReport ==
    \A d \in Reports :
        job[d].stalls = 0 /\ (env.production \/ job[d] = NoJob)
        => scans[d].processing + scans[d].completed <= 1

InFlight(d) ==
    \/ \E q \in Requests :
          Of(q) = d /\ request[q] \in {"reclaiming", "claimed", "enqueued", "fallback"}
    \/ \E e \in Executors : exec[e].d = d

\* An answered sender has a scan, a job or a delivery it may send again, if no
\* other send of the report ended in an error.
AnsweredIsNotLost ==
    \A q \in Requests :
        /\ request[q] \in {"accepted", "duplicate"}
        /\ ~InFlight(Of(q))
        /\ \A r \in Requests : Of(r) = Of(q) => request[r] # "error"
        => \/ scans[Of(q)].completed + scans[Of(q)].processing > 0
           \/ job[Of(q)] # NoJob
           \/ delivery[Of(q)] = "failed"
=============================================================================
