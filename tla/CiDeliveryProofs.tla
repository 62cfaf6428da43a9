--------------------------- MODULE CiDeliveryProofs ---------------------------
(***************************************************************************)
(* What holds of CiDelivery for every number of deliveries, sends and job  *)
(* slots, every number of attempts and stalls, in production and outside.  *)
(***************************************************************************)
EXTENDS CiDelivery, JobQueueProofs

(***************************************************************************)
(* The inductive invariant.                                                *)
(***************************************************************************)

JobsOK == \A d \in Deliveries : JobOK(job[d])

\* A request past the claim leaves a claimed delivery, and is the only one.
Claimed(q) == request[q] \notin {"unsent", "duplicate"}
ClaimOK == \A q \in Requests : Claimed(q) => delivery[Of(q)] # "none"

\* What an execution has done by the time it is at a given step.
ExecOK ==
    \A e \in Executors :
        /\ exec[e].pc # "idle" => exec[e].d \in Deliveries
        /\ exec[e].pc \in {"upserted", "processed"} => exec[e].d \in stored
        /\ exec[e].pc = "return" /\ Kind[exec[e].d] = "run"
             => exec[e].d \in stored /\ (Production => exec[e].d \in told)

\* Only a request that fell back processes the job itself.
FallbackOK == \A q \in Requests : exec[q].pc # "idle" => request[q] = "fallback"

\* One slot at most holds the lock of a job, and that job is active.
LockOK ==
    \A v, w \in Workers :
        exec[v].lock /\ exec[v].pc # "idle"
        => /\ job[exec[v].d].state = "active"
           /\ exec[w].lock /\ exec[w].pc # "idle" /\ exec[v].d = exec[w].d => v = w

IInv == TypeOK /\ JobsOK /\ ClaimOK /\ AcceptedOnce
          /\ ExecOK /\ FallbackOK /\ LockOK /\ ProcessedIsStored /\ CompletedIsDone

LEMMA IInvInit == Init => IInv
<1> SUFFICES ASSUME Init PROVE IInv
  OBVIOUS
<1> USE DEF Init
<1>1. JobsOK
  BY JobQueueAssumption DEF JobsOK, JobOK, HasAttempt, NoJob, Jobs, JobStates
<1>2. NoExec \in Execs
  BY DEF NoExec, Execs, ExecPc
<1>3. TypeOK
  BY <1>1, <1>2 DEF TypeOK, JobsOK, JobOK, DeliveryStatus, RequestPc
<1>4. ClaimOK /\ AcceptedOnce
  BY DEF ClaimOK, Claimed, AcceptedOnce
<1>5. ExecOK /\ LockOK /\ FallbackOK
  BY DEF ExecOK, LockOK, FallbackOK, NoExec, Executors
<1>6. ProcessedIsStored /\ CompletedIsDone
  BY DEF ProcessedIsStored, CompletedIsDone, NoJob
<1> QED BY <1>1, <1>3, <1>4, <1>5, <1>6 DEF IInv

LEMMA RequestOf == ASSUME NEW q \in Requests PROVE Of(q) \in Deliveries
  BY DEF Requests, Of

LEMMA Kept ==
    ASSUME IInv, UNCHANGED <<delivery, job, request, exec, stored, told>>,
           late' \in SUBSET Deliveries
    PROVE  IInv'
  BY DEF IInv, TypeOK, JobsOK, ClaimOK, Claimed, AcceptedOnce, ExecOK, LockOK,
         FallbackOK, ProcessedIsStored, CompletedIsDone

(***************************************************************************)
(* The handler.                                                            *)
(***************************************************************************)
LEMMA ClaimStep == ASSUME IInv, NEW q \in Requests, Claim(q) PROVE IInv'
<1> USE DEF IInv
<1>1. Of(q) \in Deliveries
  BY RequestOf
<1>2. TypeOK'
  BY <1>1 DEF Claim, TypeOK, DeliveryStatus, RequestPc
<1>3. ClaimOK'
  BY <1>1, RequestOf DEF Claim, TypeOK, ClaimOK, Claimed
<1>4. AcceptedOnce'
  BY <1>1, RequestOf DEF Claim, TypeOK, ClaimOK, Claimed, AcceptedOnce
<1>5. ProcessedIsStored'
  BY <1>1 DEF Claim, TypeOK, ProcessedIsStored
<1> QED BY <1>2, <1>3, <1>4, <1>5
        DEF Claim, TypeOK, JobsOK, ExecOK, LockOK, FallbackOK, Executors, CompletedIsDone

\* A request that goes on after its claim disturbs neither claim condition.
LEMMA RequestGoesOn ==
    ASSUME IInv, NEW q \in Requests, Claimed(q),
           NEW pc \in RequestPc \ {"unsent", "duplicate"},
           request' = [request EXCEPT ![q] = pc],
           NEW s \in DeliveryStatus \ {"none"},
           delivery' = delivery \/ delivery' = [delivery EXCEPT ![Of(q)] = s]
    PROVE  request' \in [Requests -> RequestPc] /\ ClaimOK' /\ AcceptedOnce'
<1> USE DEF IInv
<1>1. request' \in [Requests -> RequestPc]
  BY DEF TypeOK
<1>2. \A r \in Requests : Claimed(r)' <=> Claimed(r)
  BY DEF TypeOK, Claimed
<1>3. \A r \in Requests : delivery[Of(r)] # "none" => delivery'[Of(r)] # "none"
  BY RequestOf DEF TypeOK
<1>4. ClaimOK'
  BY <1>2, <1>3 DEF ClaimOK
<1>5. AcceptedOnce'
  BY <1>2 DEF AcceptedOnce, Claimed
<1> QED BY <1>1, <1>4, <1>5

LEMMA EnqueueStep == ASSUME IInv, NEW q \in Requests, Enqueue(q) PROVE IInv'
<1> USE DEF IInv
<1>1. Of(q) \in Deliveries
  BY RequestOf
<1>2. request' \in [Requests -> RequestPc] /\ ClaimOK' /\ AcceptedOnce'
  BY RequestGoesOn DEF Enqueue, Claimed, RequestPc, DeliveryStatus
<1>3. JobOK(Add(job[Of(q)]))
  BY <1>1, JobOperations DEF JobsOK
<1>4. JobsOK' /\ job' \in [Deliveries -> Jobs]
  BY <1>1, <1>3 DEF Enqueue, TypeOK, JobsOK, JobOK
<1>5. LockOK'
  <2>1. \A d \in Deliveries : job[d].state = "active" => job'[d].state = "active"
    BY <1>1 DEF Enqueue, TypeOK, Add, NoJob
  <2>2. \A w \in Workers : exec[w].pc # "idle" => exec[w].d \in Deliveries
    BY DEF ExecOK, Executors
  <2> QED BY <2>1, <2>2 DEF Enqueue, LockOK
<1>6. CompletedIsDone'
  <2>1. Add(job[Of(q)]).state = "completed" => job[Of(q)].state = "completed"
    BY <1>1, JobOutcomes DEF TypeOK
  <2>2. \A d \in Deliveries : job'[d].state = "completed" => job[d].state = "completed"
    BY <1>1, <2>1 DEF Enqueue, TypeOK
  <2> QED BY <2>2 DEF Enqueue, CompletedIsDone
<1> QED BY <1>2, <1>4, <1>5, <1>6 DEF Enqueue, TypeOK, ExecOK, FallbackOK, ProcessedIsStored

\* Starting or dropping the execution of a request.
LEMMA FallbackExec ==
    ASSUME IInv, NEW q \in Requests, NEW x \in Execs, x.pc \in {"idle", "start"},
           x.pc # "idle" => x.d \in Deliveries,
           exec' = exec \/ exec' = [exec EXCEPT ![q] = x],
           UNCHANGED <<job, stored, told>>
    PROVE  exec' \in [Executors -> Execs] /\ ExecOK' /\ LockOK'
<1> USE DEF IInv
<1>1. exec' \in [Executors -> Execs]
  BY DEF TypeOK
<1>2. \A e \in Executors : exec'[e] = exec[e] \/ exec'[e] = x
  BY DEF TypeOK
<1>3. ExecOK'
  BY <1>2 DEF ExecOK
<1>4. \A w \in Workers : exec'[w] = exec[w]
  BY CiAssumption DEF TypeOK, Executors
<1>5. LockOK'
  BY <1>4 DEF LockOK
<1> QED BY <1>1, <1>3, <1>5

LEMMA BeginIsExec == ASSUME NEW d \in Deliveries PROVE Begin(d) \in Execs
  BY DEF Begin, Execs, ExecPc

LEMMA NoExecIsExec == NoExec \in Execs
  BY DEF NoExec, Execs, ExecPc

LEMMA EnqueueFailsStep ==
    ASSUME IInv, NEW q \in Requests, EnqueueFails(q) PROVE IInv'
<1> USE DEF IInv
<1>1. PICK pc \in RequestPc \ {"unsent", "duplicate"} : request' = [request EXCEPT ![q] = pc]
  BY DEF EnqueueFails, RequestPc
<1>2. request' \in [Requests -> RequestPc] /\ ClaimOK' /\ AcceptedOnce'
  BY <1>1, RequestGoesOn DEF EnqueueFails, Claimed, DeliveryStatus
<1>3. exec' \in [Executors -> Execs] /\ ExecOK' /\ LockOK'
  <2>1. Begin(Of(q)) \in Execs /\ Begin(Of(q)).pc = "start" /\ Begin(Of(q)).d \in Deliveries
    BY RequestOf, BeginIsExec DEF Begin
  <2> QED BY <2>1, FallbackExec DEF EnqueueFails
<1>4. FallbackOK'
  BY DEF EnqueueFails, TypeOK, FallbackOK, Executors
<1> QED BY <1>2, <1>3, <1>4
        DEF EnqueueFails, TypeOK, JobsOK, ProcessedIsStored, CompletedIsDone

LEMMA MarkQueuedStep == ASSUME IInv, NEW q \in Requests, MarkQueued(q) PROVE IInv'
<1> USE DEF IInv
<1>1. Of(q) \in Deliveries
  BY RequestOf
<1>2. request' \in [Requests -> RequestPc] /\ ClaimOK' /\ AcceptedOnce'
  BY RequestGoesOn DEF MarkQueued, Claimed, RequestPc, DeliveryStatus
<1>3. delivery' \in [Deliveries -> DeliveryStatus] /\ late' \in SUBSET Deliveries
  BY <1>1 DEF MarkQueued, TypeOK, DeliveryStatus
<1>4. ProcessedIsStored'
  BY <1>1 DEF MarkQueued, TypeOK, ProcessedIsStored
<1> QED BY <1>2, <1>3, <1>4
        DEF MarkQueued, TypeOK, JobsOK, ExecOK, FallbackOK, LockOK, CompletedIsDone

LEMMA RequestEndsStep ==
    ASSUME IInv, NEW q \in Requests, RequestDies(q) \/ FallbackDone(q)
    PROVE  IInv'
<1> USE DEF IInv
<1>c. Claimed(q) /\ UNCHANGED delivery
  BY DEF RequestDies, FallbackDone, FallbackOK, Claimed
<1>1. PICK pc \in RequestPc \ {"unsent", "duplicate"} : request' = [request EXCEPT ![q] = pc]
  BY DEF RequestDies, FallbackDone, RequestPc
<1>2. request' \in [Requests -> RequestPc] /\ ClaimOK' /\ AcceptedOnce'
  <2>1. "failed" \in DeliveryStatus \ {"none"}
    BY DEF DeliveryStatus
  <2> QED BY <1>1, <1>c, <2>1, RequestGoesOn
<1>3. exec' \in [Executors -> Execs] /\ ExecOK' /\ LockOK'
  BY NoExecIsExec, FallbackExec DEF RequestDies, FallbackDone, NoExec
<1>4. FallbackOK'
  BY DEF RequestDies, FallbackDone, TypeOK, FallbackOK, Executors, NoExec
<1> QED BY <1>2, <1>3, <1>4
        DEF RequestDies, FallbackDone, TypeOK, JobsOK, ProcessedIsStored, CompletedIsDone

(***************************************************************************)
(* The processor.                                                          *)
(***************************************************************************)

\* An execution that moves on, keeps its delivery and its lock, and writes a
\* status or none, disturbs nothing but what its new step says it has done.
LEMMA ExecGoesOn ==
    ASSUME IInv, NEW e \in Executors, exec[e].pc # "idle",
           NEW pc \in ExecPc \ {"idle"}, GoTo(e, pc),
           NEW s \in DeliveryStatus \ {"none"},
           delivery' = delivery \/ delivery' = [delivery EXCEPT ![exec[e].d] = s],
           UNCHANGED <<job, request, late>>,
           stored' \in SUBSET Deliveries, told' \in SUBSET Deliveries,
           stored \subseteq stored', told \subseteq told',
           s = "processed" /\ delivery' # delivery => exec[e].d \in stored',
           pc \in {"upserted", "processed"} => exec[e].d \in stored',
           pc = "return" /\ Kind[exec[e].d] = "run"
             => exec[e].d \in stored' /\ (Production => exec[e].d \in told')
    PROVE  IInv'
<1> USE DEF IInv
<1>1. exec[e].d \in Deliveries
  BY DEF ExecOK
<1>2. /\ exec'[e].pc = pc /\ exec'[e].d = exec[e].d /\ exec'[e].lock = exec[e].lock
      /\ \A f \in Executors : f # e => exec'[f] = exec[f]
      /\ exec' \in [Executors -> Execs]
  BY DEF GoTo, TypeOK, Execs
<1>3. TypeOK'
  BY <1>1, <1>2 DEF TypeOK
<1>4. JobsOK' /\ AcceptedOnce'
  BY DEF JobsOK, AcceptedOnce
<1>5. ClaimOK'
  <2>1. \A r \in Requests : delivery[Of(r)] # "none" => delivery'[Of(r)] # "none"
    BY <1>1, RequestOf DEF TypeOK
  <2> QED BY <2>1 DEF ClaimOK, Claimed
<1>6. ExecOK'
  <2>1. ASSUME NEW f \in Executors
        PROVE  /\ exec'[f].pc # "idle" => exec'[f].d \in Deliveries
               /\ exec'[f].pc \in {"upserted", "processed"} => exec'[f].d \in stored'
               /\ exec'[f].pc = "return" /\ Kind[exec'[f].d] = "run"
                    => exec'[f].d \in stored' /\ (Production => exec'[f].d \in told')
    <3>1. CASE f = e
      BY <1>1, <1>2, <3>1
    <3>2. CASE f # e
      <4>1. exec'[f] = exec[f]
        BY <1>2, <3>2
      <4> QED BY <4>1 DEF ExecOK
    <3> QED BY <3>1, <3>2
  <2> QED BY <2>1 DEF ExecOK
<1>7. FallbackOK'
  BY <1>2 DEF FallbackOK, Executors
<1>8. LockOK'
  <2>1. \A w \in Workers :
           /\ exec'[w].pc # "idle" <=> exec[w].pc # "idle"
           /\ exec'[w].lock = exec[w].lock /\ exec'[w].d = exec[w].d
    BY <1>2 DEF Executors
  <2> QED BY <2>1 DEF LockOK
<1>9. ProcessedIsStored'
  BY <1>1 DEF ProcessedIsStored, TypeOK
<1>10. CompletedIsDone'
  BY DEF CompletedIsDone
<1> QED BY <1>3, <1>4, <1>5, <1>6, <1>7, <1>8, <1>9, <1>10

LEMMA ProcessStep == ASSUME IInv, NEW e \in Executors, Process(e) PROVE IInv'
<1> USE DEF ExecPc, DeliveryStatus
<1>1. TypeOK /\ ExecOK
  BY DEF IInv
<1>2. exec[e].pc # "idle"
  BY DEF Process, Ignore, UpsertRun, MarkProcessed, Publish, PublishFails, Throws, MarkFailed
<1>3. exec[e].d \in Deliveries
  BY <1>1, <1>2 DEF ExecOK
<1>4. CASE Ignore(e)
  <2>1. /\ GoTo(e, "return") /\ UNCHANGED <<job, request, stored, told, late>>
        /\ delivery' = [delivery EXCEPT ![exec[e].d] = "ignored"]
        /\ Kind[exec[e].d] # "run"
    BY <1>4 DEF Ignore
  <2>2. /\ stored' \in SUBSET Deliveries /\ stored \subseteq stored'
        /\ told' \in SUBSET Deliveries /\ told \subseteq told'
    BY <1>1, <2>1 DEF TypeOK
  <2>3. "return" \in ExecPc \ {"idle"} /\ "ignored" \in DeliveryStatus \ {"none"}
    OBVIOUS
  <2> QED BY <1>2, <2>1, <2>2, <2>3, ExecGoesOn
<1>5. CASE UpsertRun(e)
  <2>1. /\ GoTo(e, "upserted") /\ UNCHANGED <<delivery, job, request, told, late>>
        /\ stored' = stored \cup {exec[e].d}
    BY <1>5 DEF UpsertRun
  <2>2. /\ stored' \in SUBSET Deliveries /\ stored \subseteq stored'
        /\ told' \in SUBSET Deliveries /\ told \subseteq told' /\ exec[e].d \in stored'
    BY <1>1, <1>3, <2>1 DEF TypeOK
  <2>3. "upserted" \in ExecPc \ {"idle"} /\ "queued" \in DeliveryStatus \ {"none"}
    OBVIOUS
  <2> QED BY <1>2, <2>1, <2>2, <2>3, ExecGoesOn
<1>6. CASE MarkProcessed(e)
  BY <1>1, <1>2, <1>6, ExecGoesOn DEF MarkProcessed, TypeOK, ExecOK
<1>7. CASE Publish(e)
  BY <1>1, <1>2, <1>3, <1>7, ExecGoesOn DEF Publish, TypeOK, ExecOK
<1>8. CASE PublishFails(e)
  BY <1>1, <1>2, <1>8, ExecGoesOn DEF PublishFails, TypeOK, ExecOK
<1>9. CASE Throws(e)
  BY <1>1, <1>2, <1>9, ExecGoesOn DEF Throws, TypeOK
<1>10. CASE MarkFailed(e)
  BY <1>1, <1>2, <1>10, ExecGoesOn DEF MarkFailed, TypeOK
<1> QED BY <1>4, <1>5, <1>6, <1>7, <1>8, <1>9, <1>10 DEF Process

(***************************************************************************)
(* The worker around the processor.                                        *)
(***************************************************************************)

\* A slot that takes or drops a job: what is left of IInv once the job and the
\* locks are dealt with.
LEMMA SlotChanges ==
    ASSUME IInv, NEW w \in Workers, NEW x \in Execs, x.pc \in {"idle", "start"},
           x.pc # "idle" => x.d \in Deliveries,
           exec' = [exec EXCEPT ![w] = x],
           UNCHANGED <<delivery, request, stored, told, late>>,
           job' \in [Deliveries -> Jobs], JobsOK', LockOK', CompletedIsDone'
    PROVE  IInv'
<1> USE DEF IInv
<1>1. exec' \in [Executors -> Execs]
  BY DEF TypeOK, Executors
<1>2. \A e \in Executors : exec'[e] = exec[e] \/ exec'[e] = x
  BY DEF TypeOK
<1>3. ExecOK'
  BY <1>2 DEF ExecOK
<1>4. \A q \in Requests : exec'[q] = exec[q]
  BY CiAssumption DEF TypeOK, Executors
<1>5. FallbackOK'
  BY <1>4 DEF FallbackOK
<1> QED BY <1>1, <1>3, <1>5
        DEF TypeOK, ClaimOK, Claimed, AcceptedOnce, ProcessedIsStored

LEMMA TakeJobStep ==
    ASSUME IInv, NEW w \in Workers, NEW d \in Deliveries, TakeJob(w, d) PROVE IInv'
<1> USE DEF IInv
<1>1. JobOK(job[d]) /\ JobOK(Take(job[d])) /\ Take(job[d]).state = "active"
  BY JobOperations, JobOutcomes DEF TakeJob, JobsOK, JobOK
<1>2. JobsOK' /\ job' \in [Deliveries -> Jobs]
  BY <1>1 DEF TakeJob, TypeOK, JobsOK, JobOK
<1>3. \A v \in Workers : exec'[v] = IF v = w THEN Begin(d) ELSE exec[v]
  BY DEF TakeJob, TypeOK, Executors
<1>4. \A v \in Workers : v # w /\ exec[v].lock /\ exec[v].pc # "idle"
                           => exec[v].d # d /\ exec[v].d \in Deliveries
  BY DEF TakeJob, LockOK, ExecOK, Executors
<1>5. job'[d].state = "active" /\ \A c \in Deliveries : c # d => job'[c] = job[c]
  BY <1>1 DEF TakeJob, TypeOK
<1>6. LockOK'
  <2>1. ASSUME NEW v \in Workers, exec'[v].lock, exec'[v].pc # "idle"
        PROVE  /\ job'[exec'[v].d].state = "active"
               /\ \A u \in Workers : exec'[u].lock /\ exec'[u].pc # "idle"
                                       /\ exec'[v].d = exec'[u].d => v = u
    <3>1. CASE v = w
      BY <1>3, <1>4, <1>5, <3>1 DEF Begin
    <3>2. CASE v # w
      BY <1>3, <1>4, <1>5, <2>1, <3>2 DEF Begin, LockOK
    <3> QED BY <3>1, <3>2
  <2> QED BY <2>1 DEF LockOK
<1>7. CompletedIsDone'
  BY <1>5 DEF TakeJob, CompletedIsDone
<1>8. Begin(d) \in Execs /\ Begin(d).pc = "start" /\ Begin(d).d = d
  BY BeginIsExec DEF Begin
<1> QED BY <1>2, <1>6, <1>7, <1>8, SlotChanges DEF TakeJob

LEMMA WorkerDoneStep == ASSUME IInv, NEW w \in Workers, WorkerDone(w) PROVE IInv'
<1> USE DEF IInv
<1>1. exec[w].d \in Deliveries
  BY DEF WorkerDone, ExecOK, Executors
<1>2. \A v \in Workers : exec'[v] = IF v = w THEN NoExec ELSE exec[v]
  BY DEF WorkerDone, TypeOK, Executors
<1>3. \/ job' = job
      \/ /\ exec[w].lock /\ job[exec[w].d].state = "active"
         /\ \/ job' = [job EXCEPT ![exec[w].d] = Complete(@)] /\ exec[w].pc = "return"
            \/ job' = [job EXCEPT ![exec[w].d] = Fail(@, FALSE)]
  BY DEF WorkerDone, LockOK
<1>4. JobOK(job[exec[w].d])
  BY <1>1 DEF JobsOK
<1>5. JobsOK' /\ job' \in [Deliveries -> Jobs]
  <2>1. PICK x : JobOK(x) /\ (job' = job \/ job' = [job EXCEPT ![exec[w].d] = x])
    <3>1. JobOK(Complete(job[exec[w].d]))
      BY <1>4, JobOperations
    <3>2. job[exec[w].d].state = "active" => JobOK(Fail(job[exec[w].d], FALSE))
      BY <1>4, JobOperations
    <3> QED BY <1>1, <1>3, <1>4, <3>1, <3>2 DEF TypeOK
  <2>2. \A d \in Deliveries : job'[d] = job[d] \/ job'[d] = x
    BY <2>1 DEF TypeOK
  <2> QED BY <2>1, <2>2 DEF TypeOK, JobsOK, JobOK
<1>6. \A v \in Workers : v # w /\ exec[v].lock /\ exec[v].pc # "idle"
                           => exec[v].d \in Deliveries /\ job'[exec[v].d] = job[exec[v].d]
  BY <1>1, <1>3 DEF TypeOK, WorkerDone, LockOK, ExecOK, Executors
<1>7. LockOK'
  BY <1>2, <1>6 DEF LockOK, NoExec
<1>8. CompletedIsDone'
  <2>1. ASSUME NEW d \in Deliveries, job'[d].state = "completed", Kind[d] = "run"
        PROVE  d \in stored /\ (Production => d \in told)
    <3>1. CASE job'[d] = job[d]
      BY <2>1, <3>1 DEF CompletedIsDone
    <3>2. CASE job'[d] # job[d]
      <4>1. d = exec[w].d /\ exec[w].pc = "return"
        <5>1. Fail(job[exec[w].d], FALSE).state # "completed"
          BY <1>4, JobOutcomes DEF JobOK
        <5> QED BY <1>1, <1>3, <2>1, <3>2, <5>1 DEF TypeOK
      <4> QED BY <2>1, <4>1 DEF ExecOK, Executors
    <3> QED BY <3>1, <3>2
  <2> QED BY <2>1 DEF WorkerDone, CompletedIsDone
<1> QED BY <1>5, <1>7, <1>8, NoExecIsExec, SlotChanges DEF WorkerDone, NoExec

LEMMA WorkerDiesStep == ASSUME IInv, NEW w \in Workers, WorkerDies(w) PROVE IInv'
<1> USE DEF IInv
<1>1. \A v \in Workers : exec'[v] = IF v = w THEN NoExec ELSE exec[v]
  BY DEF WorkerDies, TypeOK, Executors
<1>2. LockOK'
  BY <1>1 DEF WorkerDies, LockOK, NoExec
<1>3. JobsOK' /\ job' \in [Deliveries -> Jobs] /\ CompletedIsDone'
  BY DEF WorkerDies, TypeOK, JobsOK, CompletedIsDone
<1> QED BY <1>2, <1>3, NoExecIsExec, SlotChanges DEF WorkerDies, NoExec

LEMMA JobStallsStep ==
    ASSUME IInv, NEW d \in Deliveries, JobStalls(d) PROVE IInv'
<1> USE DEF IInv
<1>1. JobOK(job[d]) /\ JobOK(Stall(job[d])) /\ Stall(job[d]).state # "completed"
  <2>1. JobOK(job[d])
    BY DEF JobsOK
  <2> QED BY <2>1, JobOperations, JobOutcomes DEF JobStalls, JobOK
<1>2. JobsOK' /\ job' \in [Deliveries -> Jobs]
  BY <1>1 DEF JobStalls, TypeOK, JobsOK, JobOK
<1>3. \A e \in Executors : /\ exec'[e] \in Execs
                           /\ exec'[e].pc = exec[e].pc /\ exec'[e].d = exec[e].d
                           /\ exec'[e].lock => exec[e].lock
                           /\ e \in Workers /\ exec'[e].lock => exec'[e].d # d
  BY DEF JobStalls, Stuck, TypeOK, Execs
<1>4. exec' \in [Executors -> Execs]
  BY <1>3 DEF JobStalls
<1>5. ExecOK' /\ FallbackOK'
  BY <1>3 DEF JobStalls, ExecOK, FallbackOK, Executors
<1>6. \A c \in Deliveries : c # d => job'[c] = job[c]
  BY DEF JobStalls, TypeOK
<1>7. LockOK'
  BY <1>3, <1>6 DEF LockOK, ExecOK, Executors
<1>8. CompletedIsDone'
  BY <1>1, <1>6 DEF JobStalls, TypeOK, CompletedIsDone
<1> QED BY <1>2, <1>4, <1>5, <1>7, <1>8
        DEF JobStalls, TypeOK, ClaimOK, Claimed, AcceptedOnce, ProcessedIsStored

-----------------------------------------------------------------------------
LEMMA IInvNext == IInv /\ [Next]_vars => IInv'
<1> SUFFICES ASSUME IInv, [Next]_vars PROVE IInv'
  OBVIOUS
<1>1. ASSUME NEW q \in Requests, Handle(q) PROVE IInv'
  BY <1>1, ClaimStep, EnqueueStep, EnqueueFailsStep, MarkQueuedStep, RequestEndsStep
     DEF Handle
<1>2. ASSUME NEW w \in Workers, Work(w) PROVE IInv'
  BY <1>2, TakeJobStep, WorkerDoneStep, WorkerDiesStep DEF Work
<1>3. CASE UNCHANGED vars
  BY <1>3, Kept DEF vars, IInv, TypeOK
<1> QED BY <1>1, <1>2, <1>3, ProcessStep, JobStallsStep DEF Next

THEOREM Invariance == Spec => []IInv
  BY IInvInit, IInvNext, PTL DEF Spec

\* Every variable keeps its type; above all no job is tried more often than
\* its attempts allow.
THEOREM TypeCorrect == Spec => []TypeOK
<1>1. IInv => TypeOK
  BY DEF IInv
<1> QED BY <1>1, Invariance, PTL

\* The claim lets one request of a delivery through, however many are sent.
THEOREM ClaimIsExclusive == Spec => []AcceptedOnce
<1>1. IInv => AcceptedOnce
  BY DEF IInv
<1> QED BY <1>1, Invariance, PTL

\* A delivery shown as processed has its run in the database.
THEOREM ProcessedMeansStored == Spec => []ProcessedIsStored
<1>1. IInv => ProcessedIsStored
  BY DEF IInv
<1> QED BY <1>1, Invariance, PTL

\* A completed job has stored its run and, in production, published it, also
\* when executions of the job overlapped.
THEOREM CompletedMeansDone == Spec => []CompletedIsDone
<1>1. IInv => CompletedIsDone
  BY DEF IInv
<1> QED BY <1>1, Invariance, PTL

-----------------------------------------------------------------------------
(***************************************************************************)
(* What an accepted request leaves behind: a second invariant, on top of   *)
(* the first.                                                              *)
(***************************************************************************)

\* The delivery has a job or an outcome.
Durable(d) == job[d] # NoJob \/ delivery[d] \in {"processed", "ignored", "failed"}

DurableNext(d) == job'[d] # NoJob \/ delivery'[d] \in {"processed", "ignored", "failed"}

\* The queue has the job of a request that got past it, and of no request
\* before that or in the fallback; and of no delivery that is not recorded.
QueueOK ==
    /\ \A d \in Deliveries : job[d] # NoJob => delivery[d] # "none"
    /\ \A q \in Requests :
          /\ request[q] = "enqueued" => job[Of(q)] # NoJob
          /\ request[q] \in {"claimed", "fallback"} => job[Of(q)] = NoJob

\* A request that fell back runs its own delivery, a slot one that has a job.
OwnJob ==
    /\ \A q \in Requests : exec[q].pc # "idle" => exec[q].d = Of(q)
    /\ \A w \in Workers : exec[w].pc # "idle" => job[exec[w].d] # NoJob

\* An execution that is through has left an outcome.
ReturnsDurable ==
    \A e \in Executors : exec[e].pc \in {"processed", "return"} => Durable(exec[e].d)

DInv == QueueOK /\ OwnJob /\ ReturnsDurable /\ AcceptedIsDurable

LEMMA DInvInit == Init => DInv
  BY RequestOf DEF Init, DInv, QueueOK, OwnJob, ReturnsDurable, AcceptedIsDurable, NoExec, Executors

LEMMA JobRemains ==
    ASSUME IInv, Next
    PROVE  \A c \in Deliveries : job[c] # NoJob => job'[c] # NoJob
<1> USE DEF IInv
<1>1. ASSUME NEW q \in Requests, Handle(q) PROVE \A c \in Deliveries : job[c] # NoJob => job'[c] # NoJob
  BY <1>1, RequestOf
     DEF Handle, Claim, Enqueue, EnqueueFails, MarkQueued, RequestDies, FallbackDone, TypeOK, Add
<1>2. ASSUME NEW e \in Executors, Process(e) PROVE job' = job
  BY <1>2 DEF Process, Ignore, UpsertRun, MarkProcessed, Publish, PublishFails, Throws, MarkFailed
<1>3. ASSUME NEW w \in Workers, Work(w) PROVE \A c \in Deliveries : job[c] # NoJob => job'[c] # NoJob
  <2>1. CASE WorkerDies(w)
    BY <2>1 DEF WorkerDies
  <2>2. CASE WorkerDone(w)
    <3>1. PICK d \in Deliveries : d = exec[w].d
      BY <2>2 DEF WorkerDone, ExecOK, Executors
    <3>2. \/ job' = job \/ job' = [job EXCEPT ![d] = Complete(job[d])]
          \/ job' = [job EXCEPT ![d] = Fail(job[d], FALSE)]
      BY <2>2, <3>1 DEF WorkerDone
    <3>3. Complete(job[d]) # NoJob /\ Fail(job[d], FALSE) # NoJob
      BY JobStays DEF TypeOK
    <3> QED BY <3>2, <3>3 DEF TypeOK
  <2>3. ASSUME NEW d \in Deliveries, TakeJob(w, d)
        PROVE  \A c \in Deliveries : job[c] # NoJob => job'[c] # NoJob
    <3>1. Take(job[d]) # NoJob
      BY JobStays DEF TypeOK
    <3> QED BY <2>3, <3>1 DEF TakeJob, TypeOK
  <2> QED BY <1>3, <2>1, <2>2, <2>3 DEF Work
<1>4. ASSUME NEW d \in Deliveries, JobStalls(d)
      PROVE  \A c \in Deliveries : job[c] # NoJob => job'[c] # NoJob
  <2>1. Stall(job[d]) # NoJob
    BY JobStays DEF TypeOK
  <2> QED BY <1>4, <2>1 DEF JobStalls, TypeOK
<1> QED BY <1>1, <1>2, <1>3, <1>4 DEF Next

\* Only the 'queued' of the handler takes an outcome away, and then there is a
\* job.
LEMMA DurableRemains ==
    ASSUME IInv, DInv, Next
    PROVE  \A c \in Deliveries : Durable(c) => DurableNext(c)
<1> SUFFICES ASSUME NEW c \in Deliveries, Durable(c), job'[c] = NoJob
             PROVE  delivery'[c] \in {"processed", "ignored", "failed"}
  BY DEF DurableNext
<1>1. job[c] = NoJob /\ delivery[c] \in {"processed", "ignored", "failed"}
  BY JobRemains DEF Durable
<1>2. ASSUME NEW q \in Requests, Handle(q) PROVE delivery'[c] = delivery[c]
  <2>1. CASE Claim(q)
    BY <1>1, <2>1, RequestOf DEF Claim, IInv, TypeOK
  <2>2. CASE MarkQueued(q)
    <3>1. Of(q) # c
      BY <1>1, <2>2 DEF MarkQueued, DInv, QueueOK
    <3> QED BY <2>2, <3>1, RequestOf DEF MarkQueued, IInv, TypeOK
  <2>3. CASE ~(Claim(q) \/ MarkQueued(q))
    BY <1>2, <2>3 DEF Handle, Enqueue, EnqueueFails, RequestDies, FallbackDone
  <2> QED BY <2>1, <2>2, <2>3
<1>3. ASSUME NEW e \in Executors, Process(e)
      PROVE  delivery'[c] \in {"processed", "ignored", "failed", delivery[c]}
  <2>1. exec[e].d \in Deliveries
    BY <1>3 DEF Process, Ignore, UpsertRun, MarkProcessed, Publish, PublishFails, Throws,
                MarkFailed, IInv, ExecOK
  <2> QED BY <1>3, <2>1 DEF Process, Ignore, UpsertRun, MarkProcessed, Publish, PublishFails,
             Throws, MarkFailed, IInv, TypeOK
<1>4. ASSUME NEW w \in Workers, Work(w) PROVE delivery' = delivery
  BY <1>4 DEF Work, TakeJob, WorkerDone, WorkerDies
<1>5. ASSUME NEW d \in Deliveries, JobStalls(d) PROVE delivery' = delivery
  BY <1>5 DEF JobStalls
<1> QED BY <1>1, <1>2, <1>3, <1>4, <1>5 DEF Next

LEMMA HandleDurable ==
    ASSUME IInv, DInv, Next, NEW q \in Requests, Handle(q) PROVE DInv'
<1> USE DEF IInv, DInv
<1>1. Of(q) \in Deliveries
  BY RequestOf
<1>2. /\ \A c \in Deliveries : job[c] # NoJob => job'[c] # NoJob
      /\ \A c \in Deliveries : Durable(c) => DurableNext(c)
  BY JobRemains, DurableRemains
<1>3. \A r \in Requests : r # q => request'[r] = request[r]
  BY DEF Handle, Claim, Enqueue, EnqueueFails, MarkQueued, RequestDies, FallbackDone, TypeOK
<1>4. /\ \A e \in Executors : e # q => exec'[e] = exec[e]
      /\ exec'[q] = exec[q] \/ exec'[q] = NoExec \/ exec'[q] = Begin(Of(q))
      /\ \A w \in Workers : exec'[w] = exec[w]
  <2>1. q \in Executors /\ \A w \in Workers : w \in Executors /\ w # q
    BY CiAssumption DEF Executors
  <2> QED BY <2>1
     DEF Handle, Claim, Enqueue, EnqueueFails, MarkQueued, RequestDies, FallbackDone, TypeOK
<1>a. \A c \in Deliveries : delivery[c] # "none" => delivery'[c] # "none"
  BY <1>1 DEF Handle, Claim, Enqueue, EnqueueFails, MarkQueued, RequestDies, FallbackDone, TypeOK
<1>5. QueueOK'
  <2>1. CASE Enqueue(q)
    <3>1. job'[Of(q)] # NoJob /\ \A c \in Deliveries : c # Of(q) => job'[c] = job[c]
      BY <1>1, <2>1, JobStays DEF Enqueue, TypeOK
    <3>2. \A r \in Requests : r # q /\ request[r] \in {"claimed", "fallback"} => Of(r) # Of(q)
      BY <2>1 DEF Enqueue, AcceptedOnce
    <3>3. request'[q] = "enqueued"
      BY <2>1 DEF Enqueue, TypeOK
    <3>4. delivery'[Of(q)] # "none"
      BY <1>a, <1>1, <2>1 DEF Enqueue, ClaimOK, Claimed
    <3> QED BY <1>a, <1>2, <1>3, <3>1, <3>2, <3>3, <3>4, RequestOf DEF QueueOK
  <2>2. CASE ~Enqueue(q)
    <3>1. job' = job
      BY <2>2 DEF Handle, Claim, EnqueueFails, MarkQueued, RequestDies, FallbackDone
    <3>2. CASE Claim(q)
      <4>1. delivery[Of(q)] = "none" => job[Of(q)] = NoJob
        BY <1>1 DEF QueueOK
      <4> QED BY <1>a, <1>3, <3>1, <3>2, <4>1 DEF Claim, TypeOK, QueueOK
    <3>3. CASE ~Claim(q)
      <4>1. /\ request'[q] = "enqueued" => request[q] = "enqueued"
            /\ request'[q] \in {"claimed", "fallback"} => request[q] \in {"claimed", "fallback"}
        BY <2>2, <3>3
           DEF Handle, EnqueueFails, MarkQueued, RequestDies, FallbackDone, TypeOK
      <4> QED BY <1>a, <1>3, <3>1, <4>1 DEF QueueOK
    <3> QED BY <3>2, <3>3
  <2> QED BY <2>1, <2>2
<1>6. OwnJob'
  <2>1. exec'[q].pc # "idle" => exec'[q].d = Of(q)
    BY <1>4 DEF OwnJob, NoExec, Begin
  <2>2. \A r \in Requests : r # q => exec'[r] = exec[r]
    BY <1>4 DEF Executors
  <2>3. \A w \in Workers : exec'[w].pc # "idle" => job'[exec'[w].d] # NoJob
    BY <1>2, <1>4 DEF OwnJob, ExecOK, Executors
  <2> QED BY <2>1, <2>2, <2>3 DEF OwnJob
<1>7. ReturnsDurable'
  <2>1. ASSUME NEW e \in Executors, exec'[e].pc \in {"processed", "return"}
        PROVE  DurableNext(exec'[e].d)
    <3>1. exec'[e] = exec[e]
      BY <1>4, <2>1 DEF NoExec, Begin
    <3>2. exec[e].d \in Deliveries /\ Durable(exec[e].d)
      BY <2>1, <3>1 DEF ExecOK, ReturnsDurable
    <3> QED BY <1>2, <3>1, <3>2 DEF Durable, DurableNext
  <2> QED BY <2>1 DEF ReturnsDurable, Durable, DurableNext
<1>8. AcceptedIsDurable'
  <2>1. ASSUME request'[q] = "accepted" PROVE Durable(Of(q))
    <3>1. CASE MarkQueued(q)
      BY <3>1 DEF MarkQueued, QueueOK, Durable
    <3>2. CASE FallbackDone(q)
      <4>1. exec[q].pc = "return"
        BY <2>1, <3>2 DEF FallbackDone, TypeOK
      <4> QED BY <4>1 DEF OwnJob, ReturnsDurable, Executors
    <3>3. CASE ~(MarkQueued(q) \/ FallbackDone(q))
      BY <2>1, <3>3 DEF Handle, Claim, Enqueue, EnqueueFails, RequestDies, TypeOK
    <3> QED BY <3>1, <3>2, <3>3
  <2>2. \A r \in Requests : request'[r] = "accepted" => Durable(Of(r))
    BY <1>3, <2>1 DEF AcceptedIsDurable, Durable
  <2>3. \A r \in Requests : request'[r] = "accepted" => DurableNext(Of(r))
    BY <1>2, <2>2, RequestOf
  <2> QED BY <2>3 DEF AcceptedIsDurable, Durable, DurableNext
<1> QED BY <1>5, <1>6, <1>7, <1>8

LEMMA ProcessDurable ==
    ASSUME IInv, DInv, Next, NEW e \in Executors, Process(e) PROVE DInv'
<1> USE DEF IInv, DInv, Process, Ignore, UpsertRun, MarkProcessed, Publish, PublishFails,
            Throws, MarkFailed
<1>1. \A c \in Deliveries : Durable(c) => DurableNext(c)
  BY DurableRemains
<1>2. exec[e].pc # "idle" /\ exec[e].d \in Deliveries
  BY DEF ExecOK
<1>3. UNCHANGED <<job, request>>
  OBVIOUS
<1>4. \A c \in Deliveries : delivery[c] # "none" => delivery'[c] # "none"
  BY <1>2 DEF TypeOK
<1>5. /\ \A f \in Executors : f # e => exec'[f] = exec[f]
      /\ exec'[e].d = exec[e].d
  BY DEF GoTo, TypeOK, Execs
<1>6. QueueOK'
  BY <1>3, <1>4 DEF QueueOK
<1>7. OwnJob'
  BY <1>2, <1>3, <1>5 DEF OwnJob, Executors
<1>8. AcceptedIsDurable'
  <2>1. \A r \in Requests : request'[r] = "accepted" => DurableNext(Of(r))
    BY <1>1, <1>3, RequestOf DEF AcceptedIsDurable, Durable, DurableNext
  <2> QED BY <2>1 DEF AcceptedIsDurable, Durable, DurableNext
<1>9. ReturnsDurable'
  <2>1. ASSUME exec'[e].pc \in {"processed", "return"} PROVE DurableNext(exec[e].d)
    <3>1. CASE Ignore(e) \/ MarkProcessed(e)
      BY <1>2, <3>1 DEF TypeOK, Durable, DurableNext
    <3>2. CASE Publish(e) \/ PublishFails(e)
      BY <1>1, <1>2, <3>2 DEF ReturnsDurable
    <3>3. CASE UpsertRun(e) \/ Throws(e) \/ MarkFailed(e)
      BY <2>1, <3>3 DEF GoTo, TypeOK, Execs
    <3> QED BY <3>1, <3>2, <3>3
  <2>2. ASSUME NEW f \in Executors, exec'[f].pc \in {"processed", "return"}
        PROVE  DurableNext(exec'[f].d)
    <3>1. CASE f = e
      BY <1>5, <2>1, <2>2, <3>1 DEF Durable, DurableNext
    <3>2. CASE f # e
      <4>1. exec'[f] = exec[f] /\ Durable(exec[f].d) /\ exec[f].d \in Deliveries
        BY <1>5, <2>2, <3>2 DEF ReturnsDurable, ExecOK
      <4> QED BY <1>1, <4>1 DEF Durable, DurableNext
    <3> QED BY <3>1, <3>2
  <2> QED BY <2>2 DEF ReturnsDurable, Durable, DurableNext
<1> QED BY <1>6, <1>7, <1>8, <1>9

LEMMA WorkerDurable ==
    ASSUME IInv, DInv, Next,
           (\E w \in Workers : Work(w)) \/ (\E d \in Deliveries : JobStalls(d))
    PROVE  DInv'
<1> USE DEF IInv, DInv
<1>1. /\ \A c \in Deliveries : job[c] # NoJob => job'[c] # NoJob
      /\ \A c \in Deliveries : Durable(c) => DurableNext(c)
  BY JobRemains, DurableRemains
<1>2. UNCHANGED <<delivery, request>>
  BY DEF Work, TakeJob, WorkerDone, WorkerDies, JobStalls
<1>3. /\ \A c \in Deliveries : job[c] = NoJob => job'[c] = NoJob
      /\ \A q \in Requests : exec'[q] = exec[q]
      /\ \A w \in Workers : exec'[w].pc # "idle" => /\ exec'[w].d \in Deliveries
                                                    /\ job[exec'[w].d] # NoJob
      /\ \A e \in Executors : exec'[e].pc \in {"processed", "return"} =>
            exec[e].pc = exec'[e].pc /\ exec[e].d = exec'[e].d
  <2>1. ASSUME NEW w \in Workers, NEW x \in Execs, x.pc \in {"idle", "start"},
               x.pc # "idle" => x.d \in Deliveries /\ job[x.d] # NoJob,
               exec' = [exec EXCEPT ![w] = x],
               NEW d \in Deliveries, job[d] # NoJob, NEW j,
               job' = job \/ job' = [job EXCEPT ![d] = j]
        PROVE  <1>3!:
    <3>1. /\ w \in Executors /\ \A q \in Requests : q \in Executors /\ q # w
          /\ \A v \in Workers : v \in Executors
      BY CiAssumption DEF Executors
    <3>2. \A e \in Executors : exec'[e] = IF e = w THEN x ELSE exec[e]
      BY <2>1, <3>1 DEF TypeOK
    <3>3. \A v \in Workers : exec[v].pc # "idle" => exec[v].d \in Deliveries /\ job[exec[v].d] # NoJob
      BY <3>1 DEF OwnJob, ExecOK
    <3>4. \A c \in Deliveries : job[c] = NoJob => job'[c] = NoJob
      BY <2>1 DEF TypeOK
    <3> QED BY <2>1, <3>1, <3>2, <3>3, <3>4
  <2>2. ASSUME NEW w \in Workers, WorkerDone(w) \/ WorkerDies(w) PROVE <1>3!:
    <3>1. PICK d \in Deliveries : d = exec[w].d
      BY <2>2 DEF WorkerDone, WorkerDies, ExecOK, Executors
    <3>2. job[d] # NoJob
      BY <2>2, <3>1 DEF WorkerDone, WorkerDies, OwnJob
    <3>3. PICK j : job' = job \/ job' = [job EXCEPT ![d] = j]
      BY <2>2, <3>1 DEF WorkerDone, WorkerDies
    <3>4. exec' = [exec EXCEPT ![w] = NoExec] /\ NoExec.pc = "idle"
      BY <2>2 DEF WorkerDone, WorkerDies, NoExec
    <3> QED BY <2>1, <3>2, <3>3, <3>4, NoExecIsExec
  <2>3. ASSUME NEW w \in Workers, NEW d \in Deliveries, TakeJob(w, d) PROVE <1>3!:
    <3>1. job[d] # NoJob /\ job' = [job EXCEPT ![d] = Take(job[d])]
      BY <2>3 DEF TakeJob, NoJob
    <3>2. exec' = [exec EXCEPT ![w] = Begin(d)] /\ Begin(d).pc = "start" /\ Begin(d).d = d
      BY <2>3 DEF TakeJob, Begin
    <3> QED BY <2>1, <3>1, <3>2, BeginIsExec
  <2>4. ASSUME NEW d \in Deliveries, JobStalls(d) PROVE <1>3!:
    <3>1. \A e \in Executors : /\ exec'[e].pc = exec[e].pc /\ exec'[e].d = exec[e].d
                               /\ e \notin Workers => exec'[e] = exec[e]
      BY <2>4 DEF JobStalls, TypeOK, Execs
    <3>2. \A c \in Deliveries : job[c] = NoJob => job'[c] = NoJob
      BY <2>4 DEF JobStalls, TypeOK, NoJob
    <3>3. (\A q \in Requests : q \in Executors /\ q \notin Workers) /\ \A w \in Workers : w \in Executors
      BY CiAssumption DEF Executors
    <3> QED BY <3>1, <3>2, <3>3 DEF OwnJob, ExecOK
  <2> QED BY <2>2, <2>3, <2>4 DEF Work
<1>4. QueueOK'
  BY <1>1, <1>2, <1>3, RequestOf DEF QueueOK
<1>5. OwnJob'
  BY <1>1, <1>3 DEF OwnJob
<1>6. AcceptedIsDurable'
  BY <1>1, <1>2, RequestOf DEF AcceptedIsDurable, Durable, DurableNext
<1>7. ReturnsDurable'
  <2>1. ASSUME NEW e \in Executors, exec'[e].pc \in {"processed", "return"}
        PROVE  DurableNext(exec'[e].d)
    <3>1. exec[e].pc \in {"processed", "return"} /\ exec[e].d = exec'[e].d
      BY <1>3, <2>1
    <3>2. exec'[e].d \in Deliveries /\ Durable(exec'[e].d)
      BY <3>1 DEF ExecOK, ReturnsDurable, Durable
    <3> QED BY <1>1, <3>2
  <2> QED BY <2>1 DEF ReturnsDurable, Durable, DurableNext
<1> QED BY <1>4, <1>5, <1>6, <1>7

LEMMA DInvNext == IInv /\ DInv /\ [Next]_vars => DInv'
<1> SUFFICES ASSUME IInv, DInv, [Next]_vars PROVE DInv'
  OBVIOUS
<1>1. CASE UNCHANGED vars
  BY <1>1 DEF vars, DInv, QueueOK, OwnJob, ReturnsDurable, Durable, AcceptedIsDurable
<1>2. CASE Next
  BY <1>2, HandleDurable, ProcessDurable, WorkerDurable DEF Next
<1> QED BY <1>1, <1>2

THEOREM DurableInvariance == Spec => [](IInv /\ DInv)
<1>1. Init => IInv /\ DInv
  BY IInvInit, DInvInit
<1>2. IInv /\ DInv /\ [Next]_vars => (IInv /\ DInv)'
  BY IInvNext, DInvNext
<1> QED BY <1>1, <1>2, PTL DEF Spec

\* A request that was answered 202 as accepted left a job behind or, in the
\* fallback, did the work, however often the delivery was sent meanwhile.
THEOREM AcceptedStays == Spec => []AcceptedIsDurable
<1>1. IInv /\ DInv => AcceptedIsDurable
  BY DEF DInv
<1> QED BY <1>1, DurableInvariance, PTL

-----------------------------------------------------------------------------
(***************************************************************************)
(* What a settled delivery shows: a third invariant, on top of these.      *)
(***************************************************************************)

\* While the job never stalled, whoever runs it holds its lock.
HoldsLock ==
    \A w \in Workers :
        exec[w].pc # "idle" /\ job[exec[w].d].stalls = 0 /\ job[exec[w].d].state # "failed"
        => exec[w].lock

Shown(d) == delivery[d] \in {"processed", "ignored"}

\* An execution with the lock that is through has its outcome shown, and so has
\* a completed job.
ReturnsShown ==
    \A w \in Workers :
        /\ exec[w].pc \in {"processed", "return"} /\ exec[w].lock
        /\ job[exec[w].d].stalls = 0 /\ exec[w].d \notin late
        => Shown(exec[w].d)

CompletedShown ==
    \A d \in Deliveries :
        job[d].state = "completed" /\ job[d].stalls = 0 /\ d \notin late => Shown(d)

SInv == HoldsLock /\ ReturnsShown /\ CompletedShown

LEMMA SInvInit == Init => SInv
<1> SUFFICES ASSUME Init PROVE SInv
  OBVIOUS
<1>1. \A w \in Workers : exec[w].pc = "idle"
  BY DEF Init, NoExec, Executors
<1>2. \A d \in Deliveries : job[d].state # "completed"
  BY DEF Init, NoJob
<1> QED BY <1>1, <1>2 DEF SInv, HoldsLock, ReturnsShown, CompletedShown

\* Nobody runs a job beside the holder of its lock, and nobody a completed one,
\* as long as it has not stalled.
LEMMA Alone ==
    ASSUME IInv, DInv, HoldsLock, NEW e \in Executors, exec[e].pc # "idle",
           job[exec[e].d].stalls = 0, job[exec[e].d].state \in {"active", "completed"}
    PROVE  /\ e \in Workers /\ job[exec[e].d].state = "active"
           /\ \A w \in Workers : exec[w].lock /\ exec[w].pc # "idle" /\ exec[w].d = exec[e].d => w = e
<1>1. CASE e \in Workers
  BY <1>1 DEF HoldsLock, IInv, LockOK
<1>2. CASE e \in Requests
  <2>1. job[exec[e].d] = NoJob
    BY <1>2 DEF IInv, FallbackOK, DInv, QueueOK, OwnJob
  <2> QED BY <2>1 DEF NoJob
<1> QED BY <1>1, <1>2 DEF Executors

LEMMA HandleShown ==
    ASSUME IInv, DInv, SInv, NEW q \in Requests, Handle(q) PROVE SInv'
<1> USE DEF IInv, DInv, SInv
<1>1. Of(q) \in Deliveries
  BY RequestOf
<1>2. \A w \in Workers : exec'[w] = exec[w]
  <2>1. q \in Executors /\ \A w \in Workers : w \in Executors /\ w # q
    BY CiAssumption DEF Executors
  <2> QED BY <2>1
     DEF Handle, Claim, Enqueue, EnqueueFails, MarkQueued, RequestDies, FallbackDone, TypeOK
<1>3. \A d \in Deliveries :
         /\ job[d] # NoJob => job'[d] = job[d]
         /\ job'[d] # job[d] => job'[d] = NewJob
  BY <1>1 DEF Handle, Claim, Enqueue, EnqueueFails, MarkQueued, RequestDies, FallbackDone, TypeOK, Add
<1>4. late \subseteq late'
  BY DEF Handle, Claim, Enqueue, EnqueueFails, MarkQueued, RequestDies, FallbackDone
<1>5. \A d \in Deliveries : job[d].state \in {"active", "completed"} /\ d \notin late'
                           => delivery'[d] = delivery[d]
  <2>1. CASE Claim(q)
    BY <1>1, <2>1 DEF Claim, TypeOK, QueueOK, NoJob
  <2>2. CASE MarkQueued(q)
    <3>1. job[Of(q)].state \in {"active", "completed"} => Of(q) \in late'
      BY <2>2 DEF MarkQueued, NewJob
    <3> QED BY <1>1, <2>2, <3>1 DEF MarkQueued, TypeOK
  <2>3. CASE ~(Claim(q) \/ MarkQueued(q))
    BY <2>3 DEF Handle, Enqueue, EnqueueFails, RequestDies, FallbackDone
  <2> QED BY <2>1, <2>2, <2>3
<1>6. \A w \in Workers : exec[w].pc # "idle" => /\ exec[w].d \in Deliveries
                                                /\ job'[exec[w].d] = job[exec[w].d]
  BY <1>3 DEF OwnJob, ExecOK, Executors
<1>7. HoldsLock'
  BY <1>2, <1>6 DEF HoldsLock
<1>8. ReturnsShown'
  BY <1>2, <1>4, <1>5, <1>6 DEF ReturnsShown, Shown, LockOK
<1>9. CompletedShown'
  BY <1>3, <1>4, <1>5 DEF CompletedShown, Shown, NewJob
<1> QED BY <1>7, <1>8, <1>9

LEMMA ProcessShown ==
    ASSUME IInv, DInv, SInv, NEW e \in Executors, Process(e) PROVE SInv'
<1> USE DEF IInv, DInv, SInv, Process, Ignore, UpsertRun, MarkProcessed, Publish, PublishFails,
            Throws, MarkFailed
<1>1. exec[e].pc # "idle" /\ exec[e].d \in Deliveries
  BY DEF ExecOK
<1>2. UNCHANGED <<job, request, late>>
  OBVIOUS
<1>3. \A d \in Deliveries : d # exec[e].d => delivery'[d] = delivery[d]
  BY DEF TypeOK
<1>4. /\ \A f \in Executors : f # e => exec'[f] = exec[f]
      /\ exec'[e].d = exec[e].d /\ exec'[e].lock = exec[e].lock
  BY DEF GoTo, TypeOK, Execs
<1>5. HoldsLock'
  BY <1>1, <1>2, <1>4 DEF HoldsLock, Executors
<1>6. CompletedShown'
  <2>1. ASSUME NEW d \in Deliveries, job[d].state = "completed", job[d].stalls = 0
        PROVE  d # exec[e].d
    BY <1>1, <2>1, Alone
  <2> QED BY <1>2, <1>3, <2>1 DEF CompletedShown, Shown
<1>7. ReturnsShown'
  <2>1. ASSUME NEW w \in Workers, exec'[w].pc \in {"processed", "return"}, exec'[w].lock,
               job[exec'[w].d].stalls = 0, exec'[w].d \notin late
        PROVE  delivery'[exec'[w].d] \in {"processed", "ignored"}
    <3>1. CASE w = e
      <4>1. CASE Ignore(e) \/ MarkProcessed(e)
        BY <1>1, <1>4, <3>1, <4>1 DEF TypeOK
      <4>2. CASE Publish(e) \/ PublishFails(e)
        BY <1>4, <2>1, <3>1, <4>2 DEF ReturnsShown, Shown
      <4>3. CASE UpsertRun(e) \/ Throws(e) \/ MarkFailed(e)
        BY <2>1, <3>1, <4>3 DEF GoTo, TypeOK, Execs
      <4> QED BY <4>1, <4>2, <4>3
    <3>2. CASE w # e
      <4>1. exec'[w] = exec[w] /\ job[exec[w].d].state = "active" /\ exec[w].d \in Deliveries
        BY <1>4, <2>1, <3>2 DEF LockOK, ExecOK, Executors
      <4>2. exec[w].d # exec[e].d
        BY <1>1, <2>1, <3>2, <4>1, Alone
      <4> QED BY <1>3, <2>1, <4>1, <4>2 DEF ReturnsShown, Shown
    <3> QED BY <3>1, <3>2
  <2> QED BY <1>2, <2>1 DEF ReturnsShown, Shown
<1> QED BY <1>5, <1>6, <1>7

LEMMA TakeJobShown ==
    ASSUME IInv, SInv, NEW w \in Workers, NEW d \in Deliveries, TakeJob(w, d) PROVE SInv'
<1> USE DEF IInv, SInv
<1>1. \A v \in Workers : exec'[v] = IF v = w THEN Begin(d) ELSE exec[v]
  BY DEF TakeJob, TypeOK, Executors
<1>2. \A c \in Deliveries : job'[c] = IF c = d THEN Take(job[d]) ELSE job[c]
  BY DEF TakeJob, TypeOK
<1>3. Take(job[d]).state = "active" /\ Take(job[d]).stalls = job[d].stalls
  BY JobOutcomes, JobStays DEF TypeOK
<1>4. job[d].state = "waiting" /\ UNCHANGED <<delivery, late>>
  BY DEF TakeJob
<1>5. HoldsLock'
  <2>1. ASSUME NEW v \in Workers, v # w, exec[v].pc # "idle", job'[exec[v].d].stalls = 0,
               job'[exec[v].d].state # "failed"
        PROVE  exec[v].lock
    BY <1>2, <1>3, <1>4, <2>1 DEF HoldsLock, ExecOK, Executors
  <2> QED BY <1>1, <2>1 DEF HoldsLock, Begin
<1>6. ReturnsShown'
  <2>1. ASSUME NEW v \in Workers, exec'[v].pc \in {"processed", "return"}, exec'[v].lock,
               job'[exec'[v].d].stalls = 0, exec'[v].d \notin late
        PROVE  Shown(exec[v].d) /\ exec'[v] = exec[v]
    <3>1. exec'[v] = exec[v] /\ exec[v].d \in Deliveries
      BY <1>1, <2>1 DEF Begin, ExecOK, Executors
    <3>2. exec[v].d # d
      BY <1>4, <2>1, <3>1 DEF LockOK
    <3> QED BY <1>2, <2>1, <3>1, <3>2 DEF ReturnsShown
  <2> QED BY <1>4, <2>1 DEF ReturnsShown, Shown
<1>7. CompletedShown'
  BY <1>2, <1>3, <1>4 DEF CompletedShown, Shown
<1> QED BY <1>5, <1>6, <1>7

LEMMA WorkerDoneShown == ASSUME IInv, SInv, NEW w \in Workers, WorkerDone(w) PROVE SInv'
<1> USE DEF IInv, SInv
<1>1. PICK d \in Deliveries : d = exec[w].d
  BY DEF WorkerDone, ExecOK, Executors
<1>2. \A v \in Workers : exec'[v] = IF v = w THEN NoExec ELSE exec[v]
  BY DEF WorkerDone, TypeOK, Executors
<1>3. /\ \A c \in Deliveries : c # d => job'[c] = job[c]
      /\ job'[d].stalls = job[d].stalls
      /\ job'[d] # job[d] => exec[w].lock
      /\ job'[d] # job[d] /\ job'[d].state = "completed" => exec[w].pc = "return"
  <2>1. /\ Complete(job[d]).stalls = job[d].stalls
        /\ Fail(job[d], FALSE).stalls = job[d].stalls
        /\ Fail(job[d], FALSE).state # "completed"
    <3>1. job[d] \in Jobs
      BY DEF TypeOK
    <3>2. Fail(job[d], FALSE).state \in {"waiting", "failed"}
      BY <3>1, JobOutcomes
    <3> QED BY <3>1, <3>2, JobStays
  <2>2. \/ job' = job
        \/ exec[w].lock /\ exec[w].pc = "return" /\ job' = [job EXCEPT ![d] = Complete(job[d])]
        \/ exec[w].lock /\ job' = [job EXCEPT ![d] = Fail(job[d], FALSE)]
    BY <1>1 DEF WorkerDone
  <2> QED BY <2>1, <2>2 DEF TypeOK
<1>4. UNCHANGED <<delivery, late>>
  BY DEF WorkerDone
<1>5. HoldsLock'
  <2>1. ASSUME NEW v \in Workers, v # w, exec[v].pc # "idle", job'[exec[v].d].stalls = 0,
               job'[exec[v].d].state # "failed"
        PROVE  exec[v].lock
    <3>1. CASE job'[exec[v].d] = job[exec[v].d]
      BY <2>1, <3>1 DEF HoldsLock
    <3>2. CASE job'[exec[v].d] # job[exec[v].d]
      <4>1. exec[v].d = d /\ exec[w].lock
        BY <1>3, <2>1, <3>2 DEF ExecOK, Executors
      <4>2. job[d].state = "active" /\ job[d].stalls = 0
        BY <1>1, <1>3, <2>1, <4>1 DEF WorkerDone, LockOK
      <4> QED BY <2>1, <4>1, <4>2 DEF HoldsLock
    <3> QED BY <3>1, <3>2
  <2> QED BY <1>2, <2>1 DEF HoldsLock, NoExec
<1>6. ReturnsShown'
  <2>1. ASSUME NEW v \in Workers, exec'[v].pc \in {"processed", "return"}, exec'[v].lock,
               job'[exec'[v].d].stalls = 0, exec'[v].d \notin late
        PROVE  Shown(exec[v].d) /\ exec'[v] = exec[v]
    <3>1. exec'[v] = exec[v] /\ exec[v].d \in Deliveries
      BY <1>2, <2>1 DEF NoExec, ExecOK, Executors
    <3> QED BY <1>3, <2>1, <3>1 DEF ReturnsShown
  <2> QED BY <1>4, <2>1 DEF ReturnsShown, Shown
<1>7. CompletedShown'
  <2>1. ASSUME NEW c \in Deliveries, job'[c].state = "completed", job'[c].stalls = 0, c \notin late
        PROVE  Shown(c)
    <3>1. CASE job'[c] = job[c]
      BY <2>1, <3>1 DEF CompletedShown
    <3>2. CASE job'[c] # job[c]
      BY <1>1, <1>3, <2>1, <3>2 DEF ReturnsShown
    <3> QED BY <3>1, <3>2
  <2> QED BY <1>4, <2>1 DEF CompletedShown, Shown
<1> QED BY <1>5, <1>6, <1>7

LEMMA LosesExecShown ==
    ASSUME IInv, SInv,
           (\E w \in Workers : WorkerDies(w)) \/ (\E d \in Deliveries : JobStalls(d))
    PROVE  SInv'
<1> USE DEF IInv, SInv
<1>1. CASE \E w \in Workers : WorkerDies(w)
  <2>1. \A v \in Workers : exec'[v] = NoExec \/ exec'[v] = exec[v]
    BY <1>1 DEF WorkerDies, TypeOK, Executors
  <2>2. UNCHANGED <<job, delivery, late>>
    BY <1>1 DEF WorkerDies
  <2> QED BY <2>1, <2>2 DEF HoldsLock, ReturnsShown, CompletedShown, Shown, NoExec
<1>2. ASSUME NEW d \in Deliveries, JobStalls(d) PROVE SInv'
  <2>1. \A w \in Workers : /\ exec'[w].pc = exec[w].pc /\ exec'[w].d = exec[w].d
                           /\ exec'[w].lock => exec[w].lock /\ exec[w].d # d
                           /\ exec[w].d # d => exec'[w].lock = exec[w].lock
    BY <1>2 DEF JobStalls, Stuck, TypeOK, Execs, Executors
  <2>2. \A c \in Deliveries : job'[c] = IF c = d THEN Stall(job[d]) ELSE job[c]
    BY <1>2 DEF JobStalls, TypeOK
  <2>3. /\ Stall(job[d]).stalls # 0 \/ Stall(job[d]).state = "failed"
        /\ Stall(job[d]).state # "completed"
    BY JobStays, JobOutcomes DEF TypeOK
  <2>4. UNCHANGED <<delivery, late>>
    BY <1>2 DEF JobStalls
  <2>5. \A w \in Workers : exec[w].pc # "idle" => exec[w].d \in Deliveries
    BY DEF ExecOK, Executors
  <2>6. HoldsLock'
    BY <2>1, <2>2, <2>3, <2>5 DEF HoldsLock
  <2>7. ReturnsShown'
    <3>1. ASSUME NEW w \in Workers, exec'[w].pc \in {"processed", "return"}, exec'[w].lock,
                 job'[exec'[w].d].stalls = 0, exec'[w].d \notin late
          PROVE  Shown(exec[w].d)
      BY <2>1, <2>2, <2>5, <3>1 DEF ReturnsShown
    <3> QED BY <2>1, <2>4, <3>1 DEF ReturnsShown, Shown
  <2>8. CompletedShown'
    BY <2>2, <2>3, <2>4 DEF CompletedShown, Shown
  <2> QED BY <2>6, <2>7, <2>8
<1> QED BY <1>1, <1>2

LEMMA SInvNext == IInv /\ DInv /\ SInv /\ [Next]_vars => SInv'
<1> SUFFICES ASSUME IInv, DInv, SInv, [Next]_vars PROVE SInv'
  OBVIOUS
<1>1. CASE UNCHANGED vars
  BY <1>1 DEF vars, SInv, HoldsLock, ReturnsShown, CompletedShown, Shown
<1>2. ASSUME NEW w \in Workers, Work(w) PROVE SInv'
  BY <1>2, TakeJobShown, WorkerDoneShown, LosesExecShown DEF Work
<1> QED BY <1>1, <1>2, HandleShown, ProcessShown, LosesExecShown DEF Next

\* A completed job of a delivery that neither stalled nor was marked 'queued'
\* late is shown as processed or ignored: the unconditional 'queued' of the
\* handler and an execution that outlived its lock are the only ways to lose it.
THEOREM SettledShown == Spec => []SettledUnlessLate
<1>1. Init => IInv /\ DInv /\ SInv
  BY IInvInit, DInvInit, SInvInit
<1>2. IInv /\ DInv /\ SInv /\ [Next]_vars => (IInv /\ DInv /\ SInv)'
  BY IInvNext, DInvNext, SInvNext
<1>3. SInv => SettledUnlessLate
  BY DEF SInv, CompletedShown, Shown, SettledUnlessLate
<1> QED BY <1>1, <1>2, <1>3, PTL DEF Spec
=============================================================================
