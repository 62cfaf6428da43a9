---------------------- MODULE OrchestrationDeliveryProofs ----------------------
(***************************************************************************)
(* What holds of the orchestration worker: of OrchestrationDelivery for    *)
(* every number of deliveries, sends and job slots, and every number of    *)
(* attempts and stalls; and of Rollout for every number of replicas and    *)
(* slots, and every surge.                                                 *)
(***************************************************************************)
EXTENDS OrchestrationDelivery, Rollout, JobQueueProofs

(***************************************************************************)
(* The inductive invariant.                                                *)
(***************************************************************************)

JobsOK == \A d \in Deliveries : JobOK(job[d])

\* A delivery that any request has got to, or that has a job, is recorded.
Recorded ==
    /\ \A q \in Requests : request[q] # "unsent" => delivery[Of(q)] # "none"
    /\ \A d \in Deliveries : job[d] # NoJob => delivery[d] # "none"

\* An execution belongs to a job; past the store of its observation it is there.
ExecOK ==
    \A w \in Workers : exec[w].pc # "idle" =>
        /\ exec[w].d \in Deliveries
        /\ job[exec[w].d] # NoJob
        /\ exec[w].pc \in {"stored", "return"} => exec[w].d \in observed

\* One slot at most holds the lock of a job, and that job is active.
LockOK ==
    \A v, w \in Workers :
        exec[v].lock /\ exec[v].pc # "idle"
        => /\ job[exec[v].d].state = "active"
           /\ exec[w].lock /\ exec[w].pc # "idle" /\ exec[v].d = exec[w].d => v = w

\* A delivery that is failed right now has one failure left to be claimed for.
FailureInHand ==
    \A d \in Deliveries : IF delivery[d] = "failed" THEN claims[d] < failures[d]
                                                    ELSE claims[d] <= failures[d]

\* The queue has the job of a request that got past it.
QueueHasIt == \A q \in Requests : request[q] \in {"enqueued", "accepted"} => job[Of(q)] # NoJob

\* As long as a recorded delivery has no job and cannot be claimed again, a
\* request has still to enqueue it or to release it, or has died.
SomebodyHasIt ==
    \A d \in Deliveries :
        delivery[d] \notin {"none", "failed"} /\ job[d] = NoJob
        => \E q \in Requests : Of(q) = d /\ request[q] \in {"claimed", "refused", "dead"}

\* The job of a delivery that was claimed only once waits until it is run for
\* that claim.
FirstClaimWaits ==
    \A q \in Requests :
        request[q] \in {"claimed", "enqueued", "accepted"} /\ claims[Of(q)] = 0 /\ q \notin ran
        => job[Of(q)].state \in {"absent", "waiting"}

IInv ==
    /\ TypeOK /\ JobsOK /\ Recorded /\ ExecOK /\ LockOK
    /\ FailureInHand /\ QueueHasIt /\ SomebodyHasIt /\ FirstClaimWaits /\ SucceededIsObserved

LEMMA RequestOf == ASSUME NEW q \in Requests PROVE Of(q) \in Deliveries
  BY DEF Requests, Of

LEMMA IInvInit == Init => IInv
<1> SUFFICES ASSUME Init PROVE IInv
  OBVIOUS
<1> USE DEF Init
<1>1. JobsOK
  BY JobQueueAssumption DEF JobsOK, JobOK, HasAttempt, NoJob, Jobs, JobStates
<1>2. NoExec \in Execs
  BY DEF NoExec, Execs, ExecPc
<1>3. TypeOK
  BY <1>1, <1>2 DEF TypeOK, JobsOK, JobOK, DeliveryStatus, RequestPc
<1>4. Recorded /\ QueueHasIt /\ SomebodyHasIt /\ FirstClaimWaits
  BY RequestOf DEF Recorded, QueueHasIt, SomebodyHasIt, FirstClaimWaits
<1>5. ExecOK /\ LockOK
  BY DEF ExecOK, LockOK, NoExec
<1>6. FailureInHand /\ SucceededIsObserved
  BY DEF FailureInHand, SucceededIsObserved
<1> QED BY <1>1, <1>3, <1>4, <1>5, <1>6 DEF IInv

LEMMA Kept == ASSUME IInv, UNCHANGED vars PROVE IInv'
  BY DEF vars, IInv, TypeOK, JobsOK, Recorded, ExecOK, LockOK, FailureInHand, QueueHasIt,
         SomebodyHasIt, FirstClaimWaits, SucceededIsObserved

\* Whatever status is written, a failure is counted before it can be claimed.
LEMMA StatusWritten ==
    ASSUME TypeOK, FailureInHand, NEW d \in Deliveries,
           NEW s \in DeliveryStatus \ {"none"}, SetStatus(d, s), UNCHANGED claims
    PROVE  /\ delivery' \in [Deliveries -> DeliveryStatus]
           /\ failures' \in [Deliveries -> Nat]
           /\ FailureInHand'
           /\ \A c \in Deliveries : delivery'[c] = IF c = d THEN s ELSE delivery[c]
<1>1. /\ delivery' \in [Deliveries -> DeliveryStatus]
      /\ \A c \in Deliveries : delivery'[c] = IF c = d THEN s ELSE delivery[c]
  BY DEF TypeOK, SetStatus
<1>2. /\ failures' \in [Deliveries -> Nat]
      /\ \A c \in Deliveries :
            failures'[c] = failures[c] + IF c = d /\ s = "failed" /\ delivery[d] # "failed"
                                           THEN 1 ELSE 0
  BY DEF TypeOK, SetStatus
<1>3. FailureInHand'
  <2>1. ASSUME NEW c \in Deliveries
        PROVE  IF delivery'[c] = "failed" THEN claims'[c] < failures'[c]
                                          ELSE claims'[c] <= failures'[c]
    <3>1. /\ claims[c] \in Nat /\ failures[c] \in Nat /\ claims'[c] = claims[c]
          /\ IF delivery[c] = "failed" THEN claims[c] < failures[c]
                                       ELSE claims[c] <= failures[c]
      BY DEF TypeOK, FailureInHand
    <3> QED BY <1>1, <1>2, <3>1
  <2> QED BY <2>1 DEF FailureInHand
<1> QED BY <1>1, <1>2, <1>3

-----------------------------------------------------------------------------
(***************************************************************************)
(* The handler.                                                            *)
(***************************************************************************)

Waiting == {"claimed", "refused", "dead"}   \* the witnesses of SomebodyHasIt

\* A step of a request that may add the job, and writes a status of its own or
\* none: the invariant is left to what the step says of its own delivery.
LEMMA RequestStep ==
    ASSUME IInv, NEW q \in Requests, NEW pc \in RequestPc \ {"unsent"}, Answer(q, pc),
           UNCHANGED <<exec, observed>>,
           job' = job \/ job' = [job EXCEPT ![Of(q)] = Add(@)],
           delivery' \in [Deliveries -> DeliveryStatus],
           failures' \in [Deliveries -> Nat], claims' \in [Deliveries -> Nat],
           ran' \in SUBSET Requests, ran \subseteq ran', FailureInHand',
           \A c \in Deliveries : /\ c # Of(q) => delivery'[c] = delivery[c]
                                 /\ claims'[c] = 0 => claims[c] = 0,
           delivery'[Of(q)] \in {"claimed", "queued", "failed", delivery[Of(q)]} \ {"none"},
           pc \in {"enqueued", "accepted"} => job'[Of(q)] # NoJob,
           pc \in {"claimed", "enqueued", "accepted"} /\ claims'[Of(q)] = 0 /\ q \notin ran'
             => job'[Of(q)].state \in {"absent", "waiting"},
           \/ pc \in Waiting \/ job'[Of(q)] # NoJob \/ delivery'[Of(q)] = "failed"
           \/ request[q] \notin Waiting /\ delivery'[Of(q)] = delivery[Of(q)]
    PROVE  IInv'
<1> USE DEF IInv
<1> DEFINE d == Of(q)
<1>1. d \in Deliveries
  BY RequestOf
<1>2. request' \in [Requests -> RequestPc] /\ \A r \in Requests :
         request'[r] = IF r = q THEN pc ELSE request[r]
  BY DEF TypeOK, Answer
<1>3. JobOK(job[d]) /\ JobOK(Add(job[d])) /\ Add(job[d]) # NoJob
  BY <1>1, JobOperations, JobStays DEF JobsOK, JobOK
<1>4. /\ JobsOK' /\ job' \in [Deliveries -> Jobs]
      /\ \A c \in Deliveries : c # d => job'[c] = job[c]
      /\ job'[d] = job[d] \/ job'[d] = Add(job[d])
  BY <1>1, <1>3 DEF TypeOK, JobsOK, JobOK
<1>5. \A c \in Deliveries :
         /\ job[c] # NoJob => job'[c] = job[c]
         /\ job[c].state \in {"absent", "waiting"} => job'[c].state \in {"absent", "waiting"}
  BY <1>4 DEF Add, NewJob
<1>6. TypeOK'
  BY <1>2, <1>4 DEF TypeOK
<1>7. Recorded'
  <2>1. \A c \in Deliveries : delivery[c] # "none" => delivery'[c] # "none"
    BY <1>1
  <2>2. \A r \in Requests : request'[r] # "unsent" => delivery'[Of(r)] # "none"
    BY <1>2, <2>1, RequestOf DEF Recorded
  <2>3. \A c \in Deliveries : job'[c] # NoJob => delivery'[c] # "none"
    BY <1>4, <2>1 DEF Recorded
  <2> QED BY <2>2, <2>3 DEF Recorded
<1>8. ExecOK' /\ LockOK'
  <2>1. \A w \in Workers : exec[w].pc # "idle" =>
           exec[w].d \in Deliveries /\ job[exec[w].d] # NoJob
                                    /\ job'[exec[w].d] = job[exec[w].d]
    BY <1>5 DEF ExecOK
  <2> QED BY <2>1 DEF ExecOK, LockOK
<1>9. QueueHasIt'
  <2>1. ASSUME NEW r \in Requests, request'[r] \in {"enqueued", "accepted"}
        PROVE  job'[Of(r)] # NoJob
    BY <1>2, <1>5, <2>1, RequestOf DEF QueueHasIt
  <2> QED BY <2>1 DEF QueueHasIt
<1>10. SomebodyHasIt'
  <2>1. ASSUME NEW c \in Deliveries, delivery'[c] \notin {"none", "failed"}, job'[c] = NoJob
        PROVE  \E r \in Requests : Of(r) = c /\ request'[r] \in Waiting
    <3>1. CASE c = d /\ pc \in Waiting
      BY <1>2, <3>1
    <3>2. CASE ~(c = d /\ pc \in Waiting)
      <4>1. job[c] = NoJob
        BY <1>3, <1>4, <2>1
      <4>2. delivery[c] \notin {"none", "failed"}
        BY <1>1, <1>2, <2>1, <3>2
      <4>3. PICK r \in Requests : Of(r) = c /\ request[r] \in Waiting
        BY <4>1, <4>2 DEF SomebodyHasIt, Waiting
      <4>4. r # q
        BY <1>1, <2>1, <3>2, <4>3
      <4> QED BY <1>2, <4>3, <4>4
    <3> QED BY <3>1, <3>2
  <2> QED BY <2>1 DEF SomebodyHasIt, Waiting
<1>11. FirstClaimWaits'
  <2>1. ASSUME NEW r \in Requests, request'[r] \in {"claimed", "enqueued", "accepted"},
               claims'[Of(r)] = 0, r \notin ran'
        PROVE  job'[Of(r)].state \in {"absent", "waiting"}
    <3>1. CASE r = q
      BY <1>2, <2>1, <3>1
    <3>2. CASE r # q
      <4>1. request[r] = request'[r] /\ claims[Of(r)] = 0 /\ r \notin ran
        BY <1>2, <2>1, <3>2, RequestOf
      <4>2. job[Of(r)].state \in {"absent", "waiting"}
        BY <2>1, <4>1 DEF FirstClaimWaits
      <4> QED BY <1>5, <4>2, RequestOf
    <3> QED BY <3>1, <3>2
  <2> QED BY <2>1 DEF FirstClaimWaits
<1>12. SucceededIsObserved'
  BY DEF SucceededIsObserved
<1> QED BY <1>4, <1>6, <1>7, <1>8, <1>9, <1>10, <1>11, <1>12

LEMMA ClaimStep == ASSUME IInv, NEW q \in Requests, Claim(q) PROVE IInv'
<1> USE DEF IInv
<1>1. Of(q) \in Deliveries
  BY RequestOf
<1>2. CASE delivery[Of(q)] = "none"
  <2>1. /\ SetStatus(Of(q), "claimed") /\ Answer(q, "claimed")
        /\ UNCHANGED <<job, exec, observed, ran, claims>>
    BY <1>2 DEF Claim
  <2>2. job[Of(q)] = NoJob /\ job[Of(q)].state = "absent"
    BY <1>1, <1>2 DEF Recorded, NoJob
  <2>3. "claimed" \in DeliveryStatus \ {"none"} /\ "claimed" \in RequestPc \ {"unsent"}
    BY DEF DeliveryStatus, RequestPc
  <2>4. /\ delivery' \in [Deliveries -> DeliveryStatus] /\ failures' \in [Deliveries -> Nat]
        /\ FailureInHand'
        /\ \A c \in Deliveries : delivery'[c] = IF c = Of(q) THEN "claimed" ELSE delivery[c]
    BY <1>1, <2>1, <2>3, StatusWritten
  <2>5. claims' \in [Deliveries -> Nat] /\ ran' \in SUBSET Requests
    BY <2>1 DEF TypeOK
  <2> QED BY <1>1, <2>1, <2>2, <2>3, <2>4, <2>5, RequestStep DEF Waiting
<1>3. CASE delivery[Of(q)] # "none"
  <2>1. PICK pc \in {"reclaiming", "duplicate"} : Answer(q, pc)
    BY <1>3 DEF Claim
  <2>2. request[q] = "unsent" /\ UNCHANGED <<delivery, job, exec, observed, ran, claims, failures>>
    BY <1>3 DEF Claim
  <2>3. /\ delivery' \in [Deliveries -> DeliveryStatus] /\ failures' \in [Deliveries -> Nat]
        /\ claims' \in [Deliveries -> Nat] /\ ran' \in SUBSET Requests /\ FailureInHand'
    BY <2>2 DEF TypeOK, FailureInHand
  <2>4. pc \in RequestPc \ {"unsent"}
    BY DEF RequestPc
  <2> QED BY <1>1, <1>3, <2>1, <2>2, <2>3, <2>4, RequestStep DEF Waiting
<1> QED BY <1>2, <1>3

LEMMA ReclaimStep == ASSUME IInv, NEW q \in Requests, Reclaim(q) PROVE IInv'
<1> USE DEF IInv
<1>1. Of(q) \in Deliveries
  BY RequestOf
<1>2. CASE delivery[Of(q)] = "failed"
  <2>1. /\ delivery' = [delivery EXCEPT ![Of(q)] = "claimed"] /\ failures' = failures
        /\ claims' = [claims EXCEPT ![Of(q)] = @ + 1] /\ Answer(q, "claimed")
        /\ ran' = IF job[Of(q)].state = "active" THEN ran \cup {q} ELSE ran
        /\ UNCHANGED <<job, exec, observed>>
    BY <1>2 DEF Reclaim, SetStatus
  <2>2. /\ delivery' \in [Deliveries -> DeliveryStatus] /\ failures' \in [Deliveries -> Nat]
        /\ claims' \in [Deliveries -> Nat] /\ ran' \in SUBSET Requests
    BY <1>1, <2>1 DEF TypeOK, DeliveryStatus
  <2>3. \A c \in Deliveries : claims[c] \in Nat /\ failures[c] \in Nat
    BY DEF TypeOK
  <2>4. \A c \in Deliveries :
           /\ delivery'[c] = IF c = Of(q) THEN "claimed" ELSE delivery[c]
           /\ claims'[c] = IF c = Of(q) THEN claims[c] + 1 ELSE claims[c]
    BY <1>1, <2>1 DEF TypeOK
  <2>5. FailureInHand'
    BY <1>1, <1>2, <2>1, <2>3, <2>4 DEF FailureInHand
  <2>6. claims'[Of(q)] # 0 /\ \A c \in Deliveries : claims'[c] = 0 => claims[c] = 0
    BY <1>1, <2>3, <2>4
  <2>7. "claimed" \in RequestPc \ {"unsent"}
    BY DEF RequestPc
  <2> QED BY <1>1, <2>1, <2>2, <2>4, <2>5, <2>6, <2>7, RequestStep DEF Waiting
<1>3. CASE delivery[Of(q)] # "failed"
  <2>1. /\ Answer(q, "duplicate") /\ request[q] = "reclaiming"
        /\ UNCHANGED <<delivery, job, exec, observed, ran, claims, failures>>
    BY <1>3 DEF Reclaim
  <2>2. /\ delivery' \in [Deliveries -> DeliveryStatus] /\ failures' \in [Deliveries -> Nat]
        /\ claims' \in [Deliveries -> Nat] /\ ran' \in SUBSET Requests /\ FailureInHand'
    BY <2>1 DEF TypeOK, FailureInHand
  <2>3. delivery[Of(q)] # "none" /\ "duplicate" \in RequestPc \ {"unsent"}
    BY <2>1 DEF Recorded, RequestPc
  <2> QED BY <1>1, <2>1, <2>2, <2>3, RequestStep DEF Waiting
<1> QED BY <1>2, <1>3

LEMMA EnqueueStep ==
    ASSUME IInv, NEW q \in Requests, Enqueue(q) \/ EnqueueFails(q) PROVE IInv'
<1> USE DEF IInv
<1>1. Of(q) \in Deliveries
  BY RequestOf
<1>2. PICK pc \in {"enqueued", "refused"} :
         /\ Answer(q, pc) /\ request[q] = "claimed"
         /\ UNCHANGED <<delivery, exec, observed, ran, claims, failures>>
         /\ \/ job' = [job EXCEPT ![Of(q)] = Add(@)]
            \/ job' = job /\ pc = "refused"
  BY DEF Enqueue, EnqueueFails
<1>3. /\ delivery' \in [Deliveries -> DeliveryStatus] /\ failures' \in [Deliveries -> Nat]
      /\ claims' \in [Deliveries -> Nat] /\ ran' \in SUBSET Requests /\ FailureInHand'
  BY <1>2 DEF TypeOK, FailureInHand
<1>4. delivery[Of(q)] # "none" /\ pc \in RequestPc \ {"unsent"}
  BY <1>2 DEF Recorded, RequestPc
<1>5. job[Of(q)] \in Jobs /\ Add(job[Of(q)]) # NoJob
  BY <1>1, JobStays DEF TypeOK
<1>6. pc = "enqueued" => job'[Of(q)] # NoJob
  BY <1>1, <1>2, <1>5 DEF TypeOK
<1>7. claims'[Of(q)] = 0 /\ q \notin ran' => job'[Of(q)].state \in {"absent", "waiting"}
  BY <1>1, <1>2 DEF TypeOK, FirstClaimWaits, Add, NewJob
<1> QED BY <1>1, <1>2, <1>3, <1>4, <1>6, <1>7, RequestStep DEF Waiting

\* The steps that write a status at most: the unconditional 'queued' and
\* 'failed' of the handler, and the ends of a request.
LEMMA AnswerStep ==
    ASSUME IInv, NEW q \in Requests,
           MarkQueued(q) \/ MarkQueuedFails(q) \/ Refuse(q) \/ RequestDies(q)
    PROVE  IInv'
<1> USE DEF IInv
<1>1. Of(q) \in Deliveries
  BY RequestOf
<1>2. PICK pc \in {"accepted", "refused", "unavailable", "dead"}, s \in {"queued", "failed"} :
         /\ Answer(q, pc) /\ UNCHANGED <<job, exec, observed, ran, claims>>
         /\ SetStatus(Of(q), s) \/ UNCHANGED <<delivery, failures>>
         /\ request[q] # "unsent"
         /\ \/ pc \in Waiting
            \/ pc = "accepted" /\ request[q] = "enqueued"
            \/ pc = "unavailable" /\ s = "failed" /\ SetStatus(Of(q), s)
  BY DEF MarkQueued, MarkQueuedFails, Refuse, RequestDies, Waiting
<1>3. delivery[Of(q)] # "none" /\ pc \in RequestPc \ {"unsent"} /\ s \in DeliveryStatus \ {"none"}
  BY <1>2 DEF Recorded, RequestPc, DeliveryStatus
<1>4. claims' \in [Deliveries -> Nat] /\ ran' \in SUBSET Requests
  BY <1>2 DEF TypeOK
<1>5. /\ delivery' \in [Deliveries -> DeliveryStatus] /\ failures' \in [Deliveries -> Nat]
      /\ FailureInHand'
      /\ \A c \in Deliveries : c # Of(q) => delivery'[c] = delivery[c]
      /\ delivery'[Of(q)] \in {"claimed", "queued", "failed", delivery[Of(q)]} \ {"none"}
      /\ SetStatus(Of(q), s) => delivery'[Of(q)] = s
  <2>1. CASE SetStatus(Of(q), s)
    BY <1>1, <1>2, <1>3, <2>1, StatusWritten
  <2>2. CASE ~SetStatus(Of(q), s)
    <3>1. UNCHANGED <<delivery, failures, claims>>
      BY <1>2, <2>2
    <3> QED BY <1>1, <1>3, <2>2, <3>1 DEF TypeOK, FailureInHand
  <2> QED BY <2>1, <2>2
<1>6. pc = "accepted" => /\ job'[Of(q)] # NoJob
                         /\ claims'[Of(q)] = 0 /\ q \notin ran'
                              => job'[Of(q)].state \in {"absent", "waiting"}
  BY <1>1, <1>2 DEF QueueHasIt, FirstClaimWaits, Waiting
<1>7. pc \in Waiting \/ job'[Of(q)] # NoJob \/ delivery'[Of(q)] = "failed"
  BY <1>2, <1>5, <1>6
<1>8. /\ pc \notin {"claimed", "enqueued"}
      /\ UNCHANGED <<exec, observed>> /\ Answer(q, pc) /\ job' = job
      /\ ran \subseteq ran' /\ \A c \in Deliveries : claims'[c] = 0 => claims[c] = 0
  BY <1>2
<1> QED BY <1>1, <1>3, <1>4, <1>5, <1>6, <1>7, <1>8, RequestStep

-----------------------------------------------------------------------------
(***************************************************************************)
(* The processor.                                                          *)
(***************************************************************************)

\* An execution that moves on, keeps its delivery and its lock, and writes a
\* status or none.
LEMMA ExecGoesOn ==
    ASSUME IInv, NEW w \in Workers, exec[w].pc # "idle",
           NEW pc \in ExecPc \ {"idle"}, GoTo(w, pc),
           NEW s \in DeliveryStatus \ {"none"},
           SetStatus(exec[w].d, s) \/ UNCHANGED <<delivery, failures>>,
           UNCHANGED <<job, request, ran, claims>>,
           observed' = observed \/ observed' = observed \cup {exec[w].d},
           s = "succeeded" => exec[w].d \in observed',
           pc \in {"stored", "return"} => exec[w].d \in observed'
    PROVE  IInv'
<1> USE DEF IInv
<1> DEFINE d == exec[w].d
<1>1. d \in Deliveries /\ job[d] # NoJob
  BY DEF ExecOK
<1>2. /\ exec' \in [Workers -> Execs]
      /\ exec'[w].pc = pc /\ exec'[w].d = d /\ exec'[w].lock = exec[w].lock
      /\ \A v \in Workers : v # w => exec'[v] = exec[v]
  BY DEF GoTo, TypeOK, Execs
<1>3. /\ delivery' \in [Deliveries -> DeliveryStatus]
      /\ failures' \in [Deliveries -> Nat]
      /\ FailureInHand'
      /\ \A c \in Deliveries : delivery'[c] = delivery[c] \/ (c = d /\ delivery'[c] = s)
  <2>1. CASE SetStatus(d, s)
    BY <1>1, <2>1, StatusWritten
  <2>2. CASE UNCHANGED <<delivery, failures>>
    BY <2>2 DEF TypeOK, FailureInHand
  <2> QED BY <2>1, <2>2
<1>4. TypeOK'
  BY <1>1, <1>2, <1>3 DEF TypeOK
<1>5. JobsOK' /\ QueueHasIt' /\ FirstClaimWaits'
  BY DEF JobsOK, QueueHasIt, FirstClaimWaits
<1>6. Recorded'
  BY <1>3, RequestOf DEF Recorded
<1>7. ExecOK'
  <2>1. ASSUME NEW v \in Workers, exec'[v].pc # "idle"
        PROVE  /\ exec'[v].d \in Deliveries /\ job'[exec'[v].d] # NoJob
               /\ exec'[v].pc \in {"stored", "return"} => exec'[v].d \in observed'
    <3>1. CASE v = w
      BY <1>1, <1>2, <3>1
    <3>2. CASE v # w
      BY <1>2, <2>1, <3>2 DEF ExecOK
    <3> QED BY <3>1, <3>2
  <2> QED BY <2>1 DEF ExecOK
<1>8. LockOK'
  <2>1. \A v \in Workers :
           /\ exec'[v].pc # "idle" <=> exec[v].pc # "idle"
           /\ exec'[v].lock = exec[v].lock /\ exec'[v].d = exec[v].d
    BY <1>2
  <2> QED BY <2>1 DEF LockOK
<1>9. SomebodyHasIt'
  BY <1>1, <1>3 DEF SomebodyHasIt
<1>10. SucceededIsObserved'
  BY <1>3 DEF SucceededIsObserved
<1> QED BY <1>3, <1>4, <1>5, <1>6, <1>7, <1>8, <1>9, <1>10

LEMMA ProcessStep == ASSUME IInv, NEW w \in Workers, Process(w) PROVE IInv'
<1> USE DEF ExecPc, DeliveryStatus
<1>1. ExecOK
  BY DEF IInv
<1>2. exec[w].pc # "idle"
  BY DEF Process, MarkProcessing, RejectIntegration, Observe, StoreObservation,
         MarkSucceeded, Throws, MarkFailed
<1>3. CASE MarkProcessing(w) \/ RejectIntegration(w) \/ Observe(w)
  <2>1. PICK pc \in {"processing", "give up", "observed"}, s \in {"processing", "failed"} :
           /\ GoTo(w, pc) /\ UNCHANGED <<job, request, observed, ran, claims>>
           /\ SetStatus(exec[w].d, s) \/ UNCHANGED <<delivery, failures>>
    BY <1>3 DEF MarkProcessing, RejectIntegration, Observe
  <2> QED BY <1>2, <2>1, ExecGoesOn
<1>4. CASE StoreObservation(w)
  <2>1. /\ GoTo(w, "stored") /\ UNCHANGED <<delivery, job, request, ran, claims, failures>>
        /\ observed' = observed \cup {exec[w].d}
    BY <1>4 DEF StoreObservation
  <2>2. "stored" \in ExecPc \ {"idle"} /\ "processing" \in DeliveryStatus \ {"none"}
    OBVIOUS
  <2> QED BY <1>2, <2>1, <2>2, ExecGoesOn
<1>5. CASE MarkSucceeded(w)
  <2>1. /\ GoTo(w, "return") /\ SetStatus(exec[w].d, "succeeded")
        /\ UNCHANGED <<job, request, observed, ran, claims>> /\ exec[w].pc = "stored"
    BY <1>5 DEF MarkSucceeded
  <2>2. "return" \in ExecPc \ {"idle"} /\ "succeeded" \in DeliveryStatus \ {"none"}
    OBVIOUS
  <2>3. exec[w].d \in observed'
    BY <1>1, <2>1 DEF ExecOK
  <2> QED BY <1>2, <2>1, <2>2, <2>3, ExecGoesOn
<1>6. CASE Throws(w) \/ MarkFailed(w)
  <2>1. PICK pc \in {"throw", "caught", "caught for good", "give up"} :
           /\ GoTo(w, pc) /\ UNCHANGED <<job, request, observed, ran, claims>>
           /\ SetStatus(exec[w].d, "failed") \/ UNCHANGED <<delivery, failures>>
    BY <1>6 DEF Throws, MarkFailed
  <2>2. pc \in ExecPc \ {"idle"} /\ "failed" \in DeliveryStatus \ {"none"}
    OBVIOUS
  <2> QED BY <1>2, <2>1, <2>2, ExecGoesOn
<1> QED BY <1>3, <1>4, <1>5, <1>6 DEF Process

-----------------------------------------------------------------------------
(***************************************************************************)
(* The worker around the processor.                                        *)
(***************************************************************************)

\* The executions of a step of job d: each goes on as it was, ends, or starts
\* on d.
ExecsOf(d) ==
    \A w \in Workers : exec'[w].pc # "idle" =>
        \/ exec'[w].pc = exec[w].pc /\ exec'[w].d = exec[w].d
        \/ exec'[w].pc = "start" /\ exec'[w].d = d

\* A job that stops waiting was taken for the requests that are out for it.
TakenFor(d) ==
    \/ job[d].state = "active"
    \/ \A q \in Requests :
          Of(q) = d /\ request[q] \in {"claimed", "enqueued", "accepted"} => q \in ran'

\* A step of a job that is there: what is left of IInv once the locks are
\* dealt with.
LEMMA JobStep ==
    ASSUME IInv, NEW d \in Deliveries, NEW j, JobOK(j),
           job' = [job EXCEPT ![d] = j], job[d] # NoJob, j # NoJob,
           TakenFor(d), ExecsOf(d),
           UNCHANGED <<delivery, request, observed, claims, failures>>,
           ran' \in SUBSET Requests, ran \subseteq ran',
           exec' \in [Workers -> Execs]
    PROVE  /\ TypeOK' /\ JobsOK' /\ Recorded' /\ ExecOK'
           /\ FailureInHand' /\ QueueHasIt' /\ SomebodyHasIt' /\ FirstClaimWaits'
           /\ SucceededIsObserved'
           /\ \A c \in Deliveries : job'[c] = IF c = d THEN j ELSE job[c]
<1> USE DEF IInv
<1>1. \A c \in Deliveries : job'[c] = IF c = d THEN j ELSE job[c]
  BY DEF TypeOK
<1>2. JobsOK' /\ job' \in [Deliveries -> Jobs]
  BY <1>1 DEF TypeOK, JobsOK, JobOK
<1>3. TypeOK'
  BY <1>2 DEF TypeOK
<1>4. Recorded'
  BY <1>1 DEF Recorded
<1>5. ExecOK'
  BY <1>1 DEF ExecOK, ExecsOf
<1>6. QueueHasIt' /\ SomebodyHasIt'
  BY <1>1, RequestOf DEF QueueHasIt, SomebodyHasIt
<1>7. FirstClaimWaits'
  <2>1. ASSUME NEW q \in Requests, request'[q] \in {"claimed", "enqueued", "accepted"},
               claims'[Of(q)] = 0, q \notin ran'
        PROVE  job'[Of(q)].state \in {"absent", "waiting"}
    <3>1. request[q] \in {"claimed", "enqueued", "accepted"} /\ claims[Of(q)] = 0 /\ q \notin ran
      BY <2>1
    <3>2. job[Of(q)].state \in {"absent", "waiting"}
      BY <3>1 DEF FirstClaimWaits
    <3>3. Of(q) # d
      BY <2>1, <3>1, <3>2 DEF TakenFor
    <3> QED BY <1>1, <3>2, <3>3, RequestOf
  <2> QED BY <2>1 DEF FirstClaimWaits
<1>8. FailureInHand' /\ SucceededIsObserved'
  BY DEF FailureInHand, SucceededIsObserved
<1> QED BY <1>1, <1>2, <1>3, <1>4, <1>5, <1>6, <1>7, <1>8

LEMMA BeginIsExec == ASSUME NEW d \in Deliveries PROVE Begin(d) \in Execs
  BY DEF Begin, Execs, ExecPc

LEMMA NoExecIsExec == NoExec \in Execs
  BY DEF NoExec, Execs, ExecPc

LEMMA TakeJobStep ==
    ASSUME IInv, NEW w \in Workers, NEW d \in Deliveries, TakeJob(w, d) PROVE IInv'
<1> USE DEF IInv
<1>1. /\ JobOK(Take(job[d])) /\ Take(job[d]).state = "active" /\ Take(job[d]) # NoJob
      /\ job[d] # NoJob
  <2>1. JobOK(job[d]) /\ job[d] \in Jobs /\ job[d].state = "waiting"
    BY DEF TakeJob, JobsOK, JobOK
  <2>2. job[d] # NoJob
    BY <2>1 DEF NoJob
  <2> QED BY <2>1, <2>2, JobOperations, JobOutcomes, JobStays
<1>2. \A v \in Workers : exec'[v] = IF v = w THEN Begin(d) ELSE exec[v]
  BY DEF TakeJob, TypeOK
<1>3. /\ TypeOK' /\ JobsOK' /\ Recorded' /\ ExecOK'
      /\ FailureInHand' /\ QueueHasIt' /\ SomebodyHasIt' /\ FirstClaimWaits'
      /\ SucceededIsObserved'
      /\ \A c \in Deliveries : job'[c] = IF c = d THEN Take(job[d]) ELSE job[c]
  <2>1. /\ job' = [job EXCEPT ![d] = Take(job[d])]
        /\ UNCHANGED <<delivery, request, observed, claims, failures>>
        /\ ran' = ran \cup {q \in Requests : /\ Of(q) = d
                                             /\ request[q] \in {"claimed", "enqueued", "accepted"}}
    BY DEF TakeJob
  <2>2. exec' \in [Workers -> Execs]
    BY BeginIsExec DEF TakeJob, TypeOK
  <2>3. ran' \in SUBSET Requests
    BY <2>1 DEF TypeOK
  <2>4. ExecsOf(d)
    BY <1>2 DEF ExecsOf, Begin
  <2>5. ran \subseteq ran' /\ TakenFor(d)
    BY <2>1 DEF TakenFor
  <2> QED BY <1>1, <2>1, <2>2, <2>3, <2>4, <2>5, JobStep
<1>4. \A v \in Workers : v # w /\ exec[v].lock /\ exec[v].pc # "idle"
                           => exec[v].d # d /\ exec[v].d \in Deliveries
  BY DEF TakeJob, LockOK, ExecOK
<1>5. LockOK'
  <2>1. ASSUME NEW v \in Workers, exec'[v].lock, exec'[v].pc # "idle"
        PROVE  /\ job'[exec'[v].d].state = "active"
               /\ \A u \in Workers : exec'[u].lock /\ exec'[u].pc # "idle"
                                       /\ exec'[v].d = exec'[u].d => v = u
    <3>1. CASE v = w
      BY <1>1, <1>2, <1>3, <1>4, <3>1 DEF Begin
    <3>2. CASE v # w
      BY <1>2, <1>3, <1>4, <2>1, <3>2 DEF Begin, LockOK
    <3> QED BY <3>1, <3>2
  <2> QED BY <2>1 DEF LockOK
<1> QED BY <1>3, <1>5

LEMMA WorkerDoneStep == ASSUME IInv, NEW w \in Workers, WorkerDone(w) PROVE IInv'
<1> USE DEF IInv
<1>0. PICK d \in Deliveries : d = exec[w].d
  BY DEF WorkerDone, ExecOK
<1>1. job[d] # NoJob /\ JobOK(job[d])
  BY <1>0 DEF WorkerDone, ExecOK, JobsOK
<1>2. \A v \in Workers : exec'[v] = IF v = w THEN NoExec ELSE exec[v]
  BY DEF WorkerDone, TypeOK
<1>3. PICK j : /\ JobOK(j) /\ j # NoJob
               /\ job' = job \/ (exec[w].lock /\ job' = [job EXCEPT ![d] = j])
  <2>1. CASE exec[w].lock
    <3>1. job[d].state = "active" /\ JobOK(job[d]) /\ job[d] \in Jobs
      BY <1>0, <1>1, <2>1 DEF WorkerDone, LockOK, JobOK
    <3>2. JobOK(Complete(job[d])) /\ Complete(job[d]) # NoJob
      BY <3>1, JobOperations, JobStays
    <3>3. JobOK(Fail(job[d], exec[w].pc = "give up")) /\ Fail(job[d], exec[w].pc = "give up") # NoJob
      <4>1. (exec[w].pc = "give up") \in BOOLEAN
        OBVIOUS
      <4> QED BY <3>1, <4>1, JobOperations, JobStays
    <3>4. CASE exec[w].pc = "return"
      <4>1. job' = [job EXCEPT ![d] = Complete(job[d])]
        BY <1>0, <2>1, <3>4 DEF WorkerDone
      <4> QED BY <2>1, <3>2, <4>1
    <3>5. CASE exec[w].pc # "return"
      <4>1. job' = [job EXCEPT ![d] = Fail(job[d], exec[w].pc = "give up")]
        BY <1>0, <2>1, <3>5 DEF WorkerDone
      <4> QED BY <2>1, <3>3, <4>1
    <3> QED BY <3>4, <3>5
  <2>2. CASE ~exec[w].lock
    BY <1>1, <2>2 DEF WorkerDone
  <2> QED BY <2>1, <2>2
<1>4. exec' \in [Workers -> Execs] /\ UNCHANGED <<delivery, request, observed, ran, claims, failures>>
  BY NoExecIsExec DEF WorkerDone, TypeOK
<1>5. \A v \in Workers : exec'[v].pc # "idle" => v # w /\ exec'[v] = exec[v]
  BY <1>2 DEF NoExec
<1>6. CASE job' = job
  <2>1. LockOK'
    BY <1>5, <1>6 DEF LockOK
  <2> QED BY <1>4, <1>5, <1>6, <2>1 DEF TypeOK, JobsOK, Recorded, ExecOK, FailureInHand, QueueHasIt,
         SomebodyHasIt, FirstClaimWaits, SucceededIsObserved
<1>7. CASE exec[w].lock /\ job' = [job EXCEPT ![d] = j]
  <2>1. job[d].state = "active"
    BY <1>0, <1>7 DEF WorkerDone, LockOK
  <2>2. ran' \in SUBSET Requests
    BY <1>4 DEF TypeOK
  <2>3. /\ TypeOK' /\ JobsOK' /\ Recorded' /\ ExecOK'
        /\ FailureInHand' /\ QueueHasIt' /\ SomebodyHasIt' /\ FirstClaimWaits'
        /\ SucceededIsObserved'
        /\ \A c \in Deliveries : job'[c] = IF c = d THEN j ELSE job[c]
    <3>1. ExecsOf(d) /\ TakenFor(d)
      BY <1>5, <2>1 DEF ExecsOf, TakenFor
    <3>2. UNCHANGED <<delivery, request, observed, claims, failures>> /\ ran \subseteq ran'
      BY <1>4
    <3> QED BY <1>1, <1>3, <1>4, <1>7, <2>1, <2>2, <3>1, <3>2, JobStep
  <2>4. \A v \in Workers : exec'[v].lock /\ exec'[v].pc # "idle"
                             => exec[v].d # d /\ exec[v].d \in Deliveries
    BY <1>0, <1>5, <1>7 DEF WorkerDone, LockOK, ExecOK
  <2>5. LockOK'
    BY <1>5, <2>3, <2>4 DEF LockOK
  <2> QED BY <2>3, <2>5
<1> QED BY <1>3, <1>6, <1>7

LEMMA WorkerDiesStep == ASSUME IInv, NEW w \in Workers, WorkerDies(w) PROVE IInv'
<1> USE DEF IInv
<1>1. exec' \in [Workers -> Execs]
  BY NoExecIsExec DEF WorkerDies, TypeOK
<1>2. \A v \in Workers : exec'[v].pc # "idle" => exec'[v] = exec[v]
  BY DEF WorkerDies, TypeOK, NoExec
<1>3. ExecOK' /\ LockOK'
  BY <1>2 DEF WorkerDies, ExecOK, LockOK
<1> QED BY <1>1, <1>3 DEF WorkerDies, TypeOK, JobsOK, Recorded, FailureInHand, QueueHasIt,
       SomebodyHasIt, FirstClaimWaits, SucceededIsObserved

LEMMA JobStallsStep == ASSUME IInv, NEW d \in Deliveries, JobStalls(d) PROVE IInv'
<1> USE DEF IInv
<1>1. JobOK(Stall(job[d])) /\ Stall(job[d]) # NoJob /\ job[d] # NoJob /\ job[d].state = "active"
  <2>1. JobOK(job[d]) /\ job[d] \in Jobs /\ job[d].state = "active"
    BY DEF JobStalls, JobsOK, JobOK
  <2>2. job[d] # NoJob
    BY <2>1 DEF NoJob
  <2> QED BY <2>1, <2>2, JobOperations, JobStays
<1>2. \A w \in Workers : /\ exec'[w] \in Execs
                         /\ exec'[w].pc = exec[w].pc /\ exec'[w].d = exec[w].d
                         /\ exec'[w].lock => exec[w].lock /\ exec'[w].d # d
  BY DEF JobStalls, Stuck, TypeOK, Execs
<1>3. exec' \in [Workers -> Execs] /\ ran' \in SUBSET Requests
  BY <1>2 DEF JobStalls, TypeOK
<1>4. /\ TypeOK' /\ JobsOK' /\ Recorded' /\ ExecOK'
      /\ FailureInHand' /\ QueueHasIt' /\ SomebodyHasIt' /\ FirstClaimWaits'
      /\ SucceededIsObserved'
      /\ \A c \in Deliveries : job'[c] = IF c = d THEN Stall(job[d]) ELSE job[c]
  <2>1. /\ job' = [job EXCEPT ![d] = Stall(job[d])]
        /\ UNCHANGED <<delivery, request, observed, ran, claims, failures>>
    BY DEF JobStalls
  <2>2. ExecsOf(d) /\ TakenFor(d)
    BY <1>1, <1>2 DEF ExecsOf, TakenFor
  <2> QED BY <1>1, <1>3, <2>1, <2>2, JobStep
<1>5. LockOK'
  BY <1>2, <1>4 DEF LockOK, ExecOK
<1> QED BY <1>4, <1>5

-----------------------------------------------------------------------------
LEMMA IInvNext == IInv /\ [Next]_vars => IInv'
<1> SUFFICES ASSUME IInv, [Next]_vars PROVE IInv'
  OBVIOUS
<1>1. ASSUME NEW q \in Requests, Handle(q) PROVE IInv'
  BY <1>1, ClaimStep, ReclaimStep, EnqueueStep, AnswerStep DEF Handle
<1>2. ASSUME NEW w \in Workers, Work(w) PROVE IInv'
  BY <1>2, TakeJobStep, WorkerDoneStep, WorkerDiesStep DEF Work
<1> QED BY <1>1, <1>2, ProcessStep, JobStallsStep, Kept DEF Next

THEOREM Invariance == Spec => []IInv
  BY IInvInit, IInvNext, PTL DEF Spec

\* Every variable keeps its type, for any number of requests and slots; no job
\* is tried more often than its attempts allow.
THEOREM TypeCorrect == Spec => []TypeOK
<1>1. IInv => TypeOK
  BY DEF IInv
<1> QED BY <1>1, Invariance, PTL

\* The claim that can be made again (orchestrationDelivery.model.js:86) is made
\* again once per failure: resends that race for it do not share one.
THEOREM ReclaimsEarned == Spec => []ReclaimsAreEarned
<1>1. IInv => ReclaimsAreEarned
  <2> SUFFICES ASSUME IInv, NEW d \in Deliveries PROVE claims[d] <= failures[d]
    BY DEF ReclaimsAreEarned
  <2>1. claims[d] \in Nat /\ failures[d] \in Nat
    BY DEF IInv, TypeOK
  <2> QED BY <2>1 DEF IInv, FailureInHand
<1> QED BY <1>1, Invariance, PTL

\* Whichever executions, retries and resends overlap, only an execution that
\* stored an observation of the delivery shows it as succeeded.
THEOREM SucceededMeansObserved == Spec => []SucceededIsObserved
<1>1. IInv => SucceededIsObserved
  BY DEF IInv
<1> QED BY <1>1, Invariance, PTL

\* An event that was answered is with the queue or can be claimed again, unless
\* the process died on a request of it.
THEOREM AnsweredNotLost == Spec => []AnsweredIsNotLost
<1>1. IInv => AnsweredIsNotLost
  <2> SUFFICES ASSUME IInv, NEW q \in Requests,
                      request[q] \in {"accepted", "duplicate", "unavailable"},
                      ~InFlight(Of(q)),
                      \A r \in Requests : Of(r) = Of(q) => request[r] # "dead",
                      job[Of(q)] = NoJob
               PROVE  delivery[Of(q)] = "failed"
    BY DEF AnsweredIsNotLost
  <2>1. Of(q) \in Deliveries /\ delivery[Of(q)] # "none"
    BY RequestOf DEF IInv, Recorded
  <2>2. ~\E r \in Requests : Of(r) = Of(q) /\ request[r] \in {"claimed", "refused", "dead"}
    BY DEF InFlight
  <2> QED BY <2>1, <2>2 DEF IInv, SomebodyHasIt
<1> QED BY <1>1, Invariance, PTL

\* The job of a webhook that was accepted at its first claim has run.
THEOREM AcceptedHasRun == Spec => []AcceptedRuns
<1>1. IInv => AcceptedRuns
  <2> SUFFICES ASSUME IInv, NEW q \in Requests, request[q] = "accepted",
                      ~InFlight(Of(q)), claims[Of(q)] = 0, q \notin ran
               PROVE  FALSE
    BY DEF AcceptedRuns
  <2>1. job[Of(q)].state = "absent"
    BY DEF IInv, FirstClaimWaits, InFlight
  <2> QED BY <2>1, RequestOf DEF IInv, JobsOK, JobOK, QueueHasIt
<1> QED BY <1>1, Invariance, PTL

-----------------------------------------------------------------------------
(***************************************************************************)
(* Rollouts.                                                               *)
(***************************************************************************)

Counts       == [old : Nat, new : Nat, ready : Nat]
StatusCounts == [observed : Nat, desired : Nat, old : Nat, new : Nat, ready : Nat,
                 stuck : BOOLEAN, mismatch : BOOLEAN]

WorldType ==
    /\ env.kind \in Kinds
    /\ spec \in [generation : Nat \ {0}, desired : Nat]
    /\ pods \in Counts
    /\ status \in StatusCounts
    /\ app \in Apps

\* What the controller wrote is of a generation there has been, and of the
\* present one if it says so.
StatusOK ==
    /\ status.observed <= spec.generation
    /\ status.observed = spec.generation => status.desired = spec.desired

\* An observation that will be shown as a clean success is of a state that may be.
CleanIsReal(o, truth) ==
    MapStatus(o) = "success" /\ ~o.drift => truth \in {"converged", "surplus", "unseen"}

SlotsType ==
    /\ slot = [j \in Slots |-> slot[j]]
    /\ \A j \in Slots : slot[j] = [pc |-> slot[j].pc, seen |-> slot[j].seen, truth |-> slot[j].truth]

RInv ==
    /\ WorldType /\ StatusOK /\ SlotsType
    /\ \A j \in Slots : slot[j].pc # "idle" => CleanIsReal(slot[j].seen, slot[j].truth)
    /\ CleanSuccessIsReal

\* Only a healthy observation maps to a success.
LEMMA SuccessIsHealthy == ASSUME NEW o, MapStatus(o) = "success" PROVE o.health = "healthy"
  BY DEF MapStatus

LEMMA WorkloadIsReal ==
    ASSUME WorldType, StatusOK, IsWorkload PROVE CleanIsReal(Observation, Truth)
<1> DEFINE w == Served
           h == CASE env.kind = "deployment"  -> DeploymentHealth(w)
                  [] env.kind = "statefulset" -> StatefulSetHealth(w)
                  [] env.kind = "daemonset"   -> DaemonSetHealth(w)
<1>1. Observation = Observed(h, Drifts(w, h))
  <2>1. Observation = ObserveWorkload(env.kind, Served)
    BY DEF Observation, IsWorkload, Workloads
  <2> QED BY <2>1 DEF ObserveWorkload
<1> HIDE DEF h
<1> SUFFICES ASSUME ~Drifts(w, h), status.observed # 0
             PROVE  Truth \in {"converged", "surplus"}
  BY <1>1 DEF CleanIsReal, Observed, Truth
<1>2. /\ w.observed = status.observed /\ w.generation = spec.generation
      /\ w.ready = status.old + status.ready /\ w.updated = status.new
      /\ w.desired = IF env.kind = "daemonset" THEN status.desired ELSE spec.desired
  BY DEF Served
<1> HIDE DEF w
<1>3. /\ status.observed = spec.generation
      /\ w.desired > 0 => ~(w.ready < w.desired) /\ ~(w.updated < w.desired)
  BY <1>2 DEF Drifts
<1>4. w.desired = spec.desired
  BY <1>2, <1>3 DEF StatusOK
<1>5. /\ spec.desired \in Nat /\ status.old \in Nat /\ status.new \in Nat
      /\ status.ready \in Nat
  BY DEF WorldType, StatusCounts
<1>6. status.ready >= spec.desired \/ status.old + status.new > spec.desired
  BY <1>2, <1>3, <1>4, <1>5
<1> QED BY <1>3, <1>6 DEF Truth

LEMMA ObservationIsReal ==
    ASSUME WorldType, StatusOK PROVE CleanIsReal(Observation, Truth)
<1>1. CASE IsWorkload
  BY <1>1, WorkloadIsReal
<1>2. CASE env.kind = "pod"
  <2>1. Observation = Observed(PodHealth(pod), PodHealth(pod) # "healthy")
    BY <1>2 DEF Observation, ObservePod, IsWorkload, Workloads
  <2>2. PodHealth(pod) = "healthy" => Converged
    BY <1>2 DEF PodHealth, Converged, IsWorkload, Workloads
  <2>3. ~IsWorkload
    BY <1>2 DEF IsWorkload, Workloads
  <2> QED BY <2>1, <2>2, <2>3, SuccessIsHealthy DEF CleanIsReal, Observed, Truth
<1>3. CASE env.kind = "application"
  <2>1. Observation = ObserveApp(app)
    BY <1>3 DEF Observation, IsWorkload, Workloads
  <2>2. ~IsWorkload
    BY <1>3 DEF IsWorkload, Workloads
  <2>3. app.sync \in {"synced", "out_of_sync"} /\ app.unsynced \in 0..1
    BY DEF WorldType, Apps
  <2>4. ObserveApp(app).health = "healthy" /\ ~ObserveApp(app).drift => Converged
    <3>1. /\ ~ObserveApp(app).drift => ~(app.sync = "out_of_sync") /\ ~(app.unsynced > 0)
          /\ ObserveApp(app).health = app.health
      BY DEF ObserveApp
    <3>2. ~ObserveApp(app).drift => app.sync = "synced" /\ app.unsynced = 0
      BY <2>3, <3>1
    <3> QED BY <1>3, <2>2, <3>1, <3>2 DEF Converged
  <2> QED BY <2>1, <2>2, <2>4, SuccessIsHealthy DEF CleanIsReal, Truth
<1> QED BY <1>1, <1>2, <1>3 DEF WorldType, Kinds, IsWorkload

\* The owner and the cluster: the status stays one of a generation that has been.
LEMMA ClusterKeeps ==
    ASSUME WorldType, StatusOK,
           \/ NewTemplate \/ Scale \/ Crash \/ CreatePod \/ PodReady \/ DeletePod
           \/ WriteStatus \/ GetStuck \/ PodMoves \/ AppDrifts \/ AppSyncs \/ AppHealth
    PROVE  WorldType' /\ StatusOK' /\ UNCHANGED <<deployment, slot>>
<1> USE DEF WorldType, StatusOK
<1>1. ASSUME NewTemplate \/ Scale PROVE WorldType' /\ StatusOK' /\ UNCHANGED <<deployment, slot>>
  <2>1. /\ spec' \in [generation : Nat \ {0}, desired : Nat]
        /\ spec'.generation = spec.generation + 1
    <3>1. spec.generation + 1 \in Nat \ {0}
      OBVIOUS
    <3>2. \A n \in 0..MaxReplicas : n \in Nat
      BY RolloutAssumption
    <3> QED BY <1>1, <3>1, <3>2 DEF NewTemplate, Scale
  <2>2. pods' \in Counts
    <3>1. pods.old + pods.ready \in Nat
      BY DEF Counts
    <3> QED BY <1>1, <3>1 DEF NewTemplate, Scale, Counts
  <2>3. UNCHANGED <<status, app, env, deployment, slot>>
    BY <1>1 DEF NewTemplate, Scale, Change, Stays
  <2>4. status.observed \in Nat /\ spec.generation \in Nat
    BY DEF StatusCounts
  <2> QED BY <2>1, <2>2, <2>3, <2>4
<1>2. ASSUME Crash \/ CreatePod \/ PodReady \/ DeletePod
      PROVE  WorldType' /\ StatusOK' /\ UNCHANGED <<deployment, slot>>
  <2>1. UNCHANGED <<spec, status, app, env, deployment, slot>>
    BY <1>2 DEF Crash, CreatePod, PodReady, DeletePod, Change, Stays
  <2>2. pods' \in Counts
    <3>1. pods.old \in Nat /\ pods.new \in Nat /\ pods.ready \in Nat /\ spec.desired \in Nat
      BY DEF Counts
    <3>2. CASE Crash
      BY <3>1, <3>2 DEF Crash, Counts
    <3>3. CASE CreatePod \/ PodReady
      BY <3>1, <3>3 DEF CreatePod, PodReady, Counts
    <3>4. CASE DeletePod
      <4>1. CASE pods.old > 0 /\ pods' = [pods EXCEPT !.old = @ - 1]
        BY <3>1, <4>1 DEF Counts
      <4>2. CASE /\ pods.new > spec.desired
                 /\ pods' = [pods EXCEPT !.new = @ - 1,
                                         !.ready = IF @ = pods.new THEN @ - 1 ELSE @]
        <5> DEFINE ready == IF pods.ready = pods.new THEN pods.ready - 1 ELSE pods.ready
        <5>1. pods.new - 1 \in Nat /\ ready \in Nat
          BY <3>1, <4>2
        <5>2. pods' = [pods EXCEPT !.new = pods.new - 1, !.ready = ready]
          BY <4>2
        <5> HIDE DEF ready
        <5> QED BY <5>1, <5>2 DEF Counts
      <4> QED BY <3>4, <4>1, <4>2 DEF DeletePod
    <3> QED BY <1>2, <3>2, <3>3, <3>4
  <2> QED BY <2>1, <2>2
<1>3. ASSUME WriteStatus PROVE WorldType' /\ StatusOK' /\ UNCHANGED <<deployment, slot>>
  <2>1. status' \in StatusCounts /\ status'.observed = spec.generation /\ status'.desired = spec.desired
    <3>1. status.stuck \in BOOLEAN
      BY DEF StatusCounts
    <3> QED BY <1>3, <3>1 DEF WriteStatus, StatusCounts, Counts
  <2> QED BY <1>3, <2>1 DEF WriteStatus, Stays
<1>4. ASSUME GetStuck \/ PodMoves PROVE WorldType' /\ StatusOK' /\ UNCHANGED <<deployment, slot>>
  BY <1>4 DEF GetStuck, PodMoves, Change, Stays, StatusCounts
<1>5. ASSUME AppDrifts \/ AppSyncs \/ AppHealth
      PROVE  WorldType' /\ StatusOK' /\ UNCHANGED <<deployment, slot>>
  <2>1. UNCHANGED <<spec, pods, status, env, deployment, slot>>
    BY <1>5 DEF AppDrifts, AppSyncs, AppHealth, Change, Stays
  <2>2. app' \in Apps
    BY <1>5 DEF AppDrifts, AppSyncs, AppHealth, Apps
  <2> QED BY <2>1, <2>2
<1> QED BY <1>1, <1>2, <1>3, <1>4, <1>5

LEMMA Stepped ==
    ASSUME NEW r, NEW p, NEW pc, NEW seen, NEW truth,
           r = [pc |-> p, seen |-> seen, truth |-> truth]
    PROVE  [r EXCEPT !.pc = pc] = [pc |-> pc, seen |-> seen, truth |-> truth]
  OBVIOUS

\* A slot moves on to what is real, or to nothing.
LEMMA SlotMoves ==
    ASSUME RInv, NEW j \in Slots, NEW pc, NEW seen, NEW truth,
           slot' = [slot EXCEPT ![j] = [pc |-> pc, seen |-> seen, truth |-> truth]],
           pc # "idle" => CleanIsReal(seen, truth),
           CleanSuccessIsReal', UNCHANGED <<env, world>>
    PROVE  RInv'
<1> USE DEF RInv
<1>1. WorldType' /\ StatusOK'
  BY DEF WorldType, StatusOK, world
<1>2. \A i \in Slots : slot'[i] = IF i = j THEN [pc |-> pc, seen |-> seen, truth |-> truth]
                                  ELSE slot[i]
  BY DEF SlotsType
<1>3. SlotsType'
  <2>1. slot' = [i \in Slots |-> slot'[i]]
    BY DEF SlotsType
  <2>2. \A i \in Slots :
           slot'[i] = [pc |-> slot'[i].pc, seen |-> slot'[i].seen, truth |-> slot'[i].truth]
    BY <1>2 DEF SlotsType
  <2> QED BY <2>1, <2>2 DEF SlotsType
<1>4. \A i \in Slots : slot'[i].pc # "idle" => CleanIsReal(slot'[i].seen, slot'[i].truth)
  BY <1>2
<1> QED BY <1>1, <1>3, <1>4

\* The worker: what a slot has seen, and what it projects, is real.
LEMMA WorkerKeeps ==
    ASSUME RInv, NEW j \in Slots,
           FetchScheduled(j) \/ FetchOnEvent(j) \/ Step(j) \/ Dies(j)
    PROVE  RInv'
<1> USE DEF RInv
<1>1. UNCHANGED <<env, world>>
  BY DEF FetchScheduled, FetchOnEvent, Look, Step, SaveObservation, FindDeployment,
         ProjectObservation, Dies
<1>2. slot[j] = [pc |-> slot[j].pc, seen |-> slot[j].seen, truth |-> slot[j].truth]
  BY DEF SlotsType
<1>3. CASE FetchScheduled(j) \/ FetchOnEvent(j)
  <2>1. slot' = [slot EXCEPT ![j] = [pc |-> "fetched", seen |-> Observation, truth |-> Truth]]
        /\ deployment' = deployment
    BY <1>3 DEF FetchScheduled, FetchOnEvent, Look
  <2>2. CleanSuccessIsReal' /\ CleanIsReal(Observation, Truth)
    BY <2>1, ObservationIsReal DEF CleanSuccessIsReal
  <2> HIDE DEF RInv
  <2> QED BY <1>1, <2>1, <2>2, SlotMoves
<1>4. CASE SaveObservation(j) \/ FindDeployment(j)
  <2>1. /\ deployment' = deployment /\ slot[j].pc # "idle"
        /\ \/ slot' = [slot EXCEPT ![j] = Idle]
           \/ \E pc \in {"stored", "changed"} : slot' = [slot EXCEPT ![j] = [slot[j] EXCEPT !.pc = pc]]
    BY <1>4 DEF SaveObservation, FindDeployment
  <2>2. CleanSuccessIsReal'
    BY <2>1 DEF CleanSuccessIsReal
  <2>3. CASE slot' = [slot EXCEPT ![j] = Idle]
    BY <1>1, <2>2, <2>3, SlotMoves DEF Idle
  <2>4. ASSUME NEW pc \in {"stored", "changed"},
               slot' = [slot EXCEPT ![j] = [slot[j] EXCEPT !.pc = pc]]
        PROVE  RInv'
    <3>1. slot' = [slot EXCEPT ![j] = [pc |-> pc, seen |-> slot[j].seen, truth |-> slot[j].truth]]
      <4>1. [slot[j] EXCEPT !.pc = pc] = [pc |-> pc, seen |-> slot[j].seen, truth |-> slot[j].truth]
        BY ONLY <1>2, Stepped
      <4> QED BY ONLY <2>4, <4>1
    <3>2. CleanIsReal(slot[j].seen, slot[j].truth)
      BY <2>1
    <3> HIDE DEF RInv
    <3> QED BY <1>1, <2>2, <3>1, <3>2, SlotMoves
  <2> QED BY <2>1, <2>3, <2>4
<1>5. CASE ProjectObservation(j)
  <2>1. CleanIsReal(slot[j].seen, slot[j].truth)
    BY <1>5 DEF ProjectObservation
  <2>2. CleanSuccessIsReal'
    BY <1>5, <2>1 DEF ProjectObservation, CleanSuccessIsReal, CleanIsReal
  <2>3. slot' = [slot EXCEPT ![j] = Idle]
    BY <1>5 DEF ProjectObservation
  <2> QED BY <1>1, <2>2, <2>3, SlotMoves DEF Idle
<1>6. CASE Dies(j)
  BY <1>1, <1>6, SlotMoves DEF Dies, CleanSuccessIsReal, Idle
<1> QED BY <1>3, <1>4, <1>5, <1>6 DEF Step

LEMMA RolloutInvariance == RolloutSpec => []RInv
<1>1. RolloutInit => RInv
  BY RolloutAssumption
     DEF RolloutInit, RInv, WorldType, StatusOK, Counts, StatusCounts, Apps,
         CleanSuccessIsReal, NoDeployment, Idle, SlotsType
<1>2. RInv /\ [RolloutNext]_rolloutVars => RInv'
  <2> SUFFICES ASSUME RInv, [RolloutNext]_rolloutVars PROVE RInv'
    OBVIOUS
  <2>1. ASSUME \/ NewTemplate \/ Scale \/ Crash \/ CreatePod \/ PodReady \/ DeletePod
               \/ WriteStatus \/ GetStuck \/ PodMoves \/ AppDrifts \/ AppSyncs \/ AppHealth
        PROVE  RInv'
    BY <2>1, ClusterKeeps DEF RInv, CleanSuccessIsReal, SlotsType
  <2>2. CASE UNCHANGED rolloutVars
    BY <2>2 DEF rolloutVars, world, RInv, WorldType, StatusOK, CleanSuccessIsReal, SlotsType
  <2> QED BY <2>1, <2>2, WorkerKeeps DEF RolloutNext
<1> QED BY <1>1, <1>2, PTL DEF RolloutSpec

\* A deployment shown as a success without drift runs what its owner wants, unless
\* there are pods to spare or the controller has not seen it: for every kind of
\* workload, surge and number of replicas, however executions overlap and die.
THEOREM CleanSuccessReal == RolloutSpec => []CleanSuccessIsReal
<1>1. RInv => CleanSuccessIsReal
  BY DEF RInv
<1> QED BY <1>1, RolloutInvariance, PTL

-----------------------------------------------------------------------------
(***************************************************************************)
(* The types of a rollout: there are never more pods than the replicas and *)
(* the surge allow, and generations are counted by changes.                *)
(***************************************************************************)

PodsOK ==
    /\ pods.old + pods.new <= MostPods
    /\ pods.ready <= pods.new

GenerationOK == spec.generation <= changes + 1 /\ status.observed <= spec.generation

\* A slot that is busy has an observation.
SeenOK ==
    \A j \in Slots : slot[j].pc # "idle" => slot[j].seen \in Observations /\ slot[j].truth \in Truths

TInv == RolloutTypeOK /\ PodsOK /\ GenerationOK /\ SeenOK

AllSeen == Observations \cup {NoneSeen}
SlotRecords == [pc : {"idle", "fetched", "stored", "changed"}, seen : AllSeen,
                truth : Truths \cup {"none"}]

LEMMA MostPodsNat == MostPods \in Nat /\ MaxReplicas <= MostPods /\ MaxReplicas + Surge = MostPods
  BY RolloutAssumption DEF MostPods

LEMMA ObservedType ==
    ASSUME NEW h \in Health, NEW d \in BOOLEAN PROVE Observed(h, d) \in Observations
  BY DEF Observed, Observations, Sync

LEMMA ObservationType == ASSUME TInv PROVE Observation \in Observations /\ Truth \in Truths
<1> USE DEF TInv, RolloutTypeOK
<1>1. Truth \in Truths
  BY DEF Truth, Truths
<1>2. CASE IsWorkload
  <2> DEFINE w == Served
             h == CASE env.kind = "deployment"  -> DeploymentHealth(w)
                    [] env.kind = "statefulset" -> StatefulSetHealth(w)
                    [] env.kind = "daemonset"   -> DaemonSetHealth(w)
  <2>1. Observation = Observed(h, Drifts(w, h))
    <3>1. Observation = ObserveWorkload(env.kind, Served)
      BY <1>2 DEF Observation, IsWorkload, Workloads
    <3> QED BY <3>1 DEF ObserveWorkload
  <2>2. h \in Health
    <3>1. /\ DeploymentHealth(w) \in Health /\ StatefulSetHealth(w) \in Health
          /\ DaemonSetHealth(w) \in Health
      BY DEF DeploymentHealth, StatefulSetHealth, DaemonSetHealth, Health
    <3> HIDE DEF w
    <3> QED BY <1>2, <3>1 DEF IsWorkload, Workloads
  <2>3. Drifts(w, h) \in BOOLEAN
    BY DEF Drifts
  <2> HIDE DEF w, h
  <2> QED BY <1>1, <2>1, <2>2, <2>3, ObservedType
<1>3. CASE env.kind = "pod"
  <2>1. Observation = Observed(PodHealth(pod), PodHealth(pod) # "healthy")
    BY <1>3 DEF Observation, ObservePod, IsWorkload, Workloads
  <2>2. PodHealth(pod) \in Health
    BY DEF PodHealth, Health
  <2> QED BY <1>1, <2>1, <2>2, ObservedType
<1>4. CASE env.kind = "application"
  <2>1. Observation = ObserveApp(app)
    BY <1>4 DEF Observation, IsWorkload, Workloads
  <2>2. LowerCase(app.phase) \in {"none", "running", "succeeded", "failed", "error"}
    BY DEF Apps, LowerCase
  <2>3. (app.sync = "out_of_sync" \/ app.unsynced > 0) \in BOOLEAN
    OBVIOUS
  <2>4. app.health \in Health /\ app.sync \in Sync
    BY DEF Apps, Health, Sync
  <2> QED BY <1>1, <2>1, <2>2, <2>3, <2>4 DEF ObserveApp, Observations
<1> QED BY <1>2, <1>3, <1>4 DEF Kinds, IsWorkload

LEMMA MapStatusType == \A o : MapStatus(o) \in DeploymentStatus
  BY DEF MapStatus, DeploymentStatus

LEMMA RolloutTypeInit == RolloutInit => TInv
<1> SUFFICES ASSUME RolloutInit PROVE TInv
  OBVIOUS
<1> USE DEF RolloutInit
<1>1. /\ 0 \in 0..MostPods /\ 0 \in 0..MaxReplicas /\ MaxReplicas \in 0..MaxReplicas
      /\ 1 \in 1..(MaxChanges + 1) /\ 0 \in 0..(MaxChanges + 1)
      /\ 0 \in 0..MaxChanges /\ 0 \in 0..MaxFaults
  BY RolloutAssumption, MostPodsNat
<1>2. Idle \in SlotRecords
  BY DEF Idle, SlotRecords, AllSeen
<1>3. RolloutTypeOK
  BY <1>1, <1>2 DEF RolloutTypeOK, Apps, PodStates, SlotRecords, AllSeen
<1>4. PodsOK /\ GenerationOK /\ SeenOK
  BY RolloutAssumption, MostPodsNat DEF PodsOK, GenerationOK, SeenOK, Idle
<1> QED BY <1>3, <1>4 DEF TInv

\* The counts as numbers.
LEMMA RolloutNumbers ==
    ASSUME TInv
    PROVE  /\ spec.generation \in Nat /\ spec.desired \in Nat /\ spec.desired <= MaxReplicas
           /\ pods.old \in Nat /\ pods.new \in Nat /\ pods.ready \in Nat
           /\ pods.old + pods.new <= MostPods /\ pods.ready <= pods.new
           /\ pods.old <= MostPods /\ pods.new <= MostPods
           /\ changes \in Nat /\ spec.generation <= changes + 1
           /\ status.observed \in Nat /\ status.observed <= spec.generation
  BY MostPodsNat, RolloutAssumption DEF TInv, RolloutTypeOK, PodsOK, GenerationOK

\* Steps that change the pods, and leave as many as there may be.
LEMMA PodsMove ==
    ASSUME TInv, NEW old \in Nat, NEW new \in Nat, NEW ready \in Nat,
           pods' = [old |-> old, new |-> new, ready |-> ready],
           old + new <= MostPods, ready <= new,
           spec'.generation \in Nat, spec'.desired \in 0..MaxReplicas,
           spec' = [generation |-> spec'.generation, desired |-> spec'.desired],
           spec'.generation = spec.generation \/ spec'.generation = spec.generation + 1,
           changes' \in 0..MaxChanges, spec'.generation <= changes' + 1,
           UNCHANGED <<env, status, app, pod, observation, deployment, slot, faults>>
    PROVE  TInv'
<1>1. old \in 0..MostPods /\ new \in 0..MostPods /\ ready \in 0..MostPods
  BY MostPodsNat
<1>2. pods' \in [old : 0..MostPods, new : 0..MostPods, ready : 0..MostPods]
  BY <1>1
<1>3. spec'.generation \in 1..(MaxChanges + 1) /\ status.observed <= spec'.generation
  <2>1. spec.generation >= 1
    BY RolloutAssumption DEF TInv, RolloutTypeOK
  <2> QED BY <2>1, RolloutNumbers, RolloutAssumption
<1>4. spec' \in [generation : 1..(MaxChanges + 1), desired : 0..MaxReplicas]
  BY <1>3
<1>5. RolloutTypeOK'
  BY <1>2, <1>4 DEF TInv, RolloutTypeOK
<1>6. PodsOK' /\ GenerationOK' /\ SeenOK'
  BY <1>3 DEF PodsOK, GenerationOK, SeenOK, TInv
<1> QED BY <1>5, <1>6 DEF TInv

LEMMA ChangeType ==
    ASSUME TInv, changes < MaxChanges, changes' = changes + 1
    PROVE  changes' \in 0..MaxChanges /\ changes \in Nat
  BY RolloutAssumption DEF TInv, RolloutTypeOK

\* The same where the workload stays as its owner set it.
LEMMA PodsOnlyMove ==
    ASSUME TInv, NEW old \in Nat, NEW new \in Nat, NEW ready \in Nat,
           pods' = [old |-> old, new |-> new, ready |-> ready],
           old + new <= MostPods, ready <= new, spec' = spec,
           changes' \in 0..MaxChanges, changes' = changes \/ changes' = changes + 1,
           UNCHANGED <<env, status, app, pod, observation, deployment, slot, faults>>
    PROVE  TInv'
<1>1. /\ spec'.generation \in Nat /\ spec'.desired \in 0..MaxReplicas
      /\ spec' = [generation |-> spec'.generation, desired |-> spec'.desired]
  BY RolloutAssumption DEF TInv, RolloutTypeOK
<1>2. spec'.generation <= changes' + 1
  BY RolloutNumbers
<1> QED BY <1>1, <1>2, PodsMove

LEMMA WorkloadTypes ==
    ASSUME TInv,
           NewTemplate \/ Scale \/ Crash \/ CreatePod \/ PodReady \/ DeletePod
    PROVE  TInv'
<1> USE RolloutNumbers, MostPodsNat
<1>0. /\ changes \in 0..MaxChanges
      /\ pods = [old |-> pods.old, new |-> pods.new, ready |-> pods.ready]
      /\ spec \in [generation : 1..(MaxChanges + 1), desired : 0..MaxReplicas]
      /\ pods \in [old : 0..MostPods, new : 0..MostPods, ready : 0..MostPods]
  BY DEF TInv, RolloutTypeOK
<1>1. CASE NewTemplate \/ Scale
  <2>1. /\ spec'.generation = spec.generation + 1 /\ spec'.desired \in 0..MaxReplicas
        /\ spec' = [generation |-> spec'.generation, desired |-> spec'.desired]
    BY <1>0, <1>1 DEF NewTemplate, Scale
  <2>2. /\ changes < MaxChanges /\ changes' = changes + 1
        /\ UNCHANGED <<env, status, app, pod, observation, deployment, slot, faults>>
    BY <1>1 DEF NewTemplate, Scale, Change, Stays
  <2>3. changes' \in 0..MaxChanges /\ spec'.generation \in Nat /\ spec'.generation <= changes' + 1
    BY <2>1, <2>2, ChangeType
  <2>4. CASE NewTemplate
    <3>1. pods' = [old |-> pods.old + pods.ready, new |-> 0, ready |-> 0]
      BY <2>4 DEF NewTemplate
    <3>2. pods.old + pods.ready \in Nat /\ pods.old + pods.ready + 0 <= MostPods
      OBVIOUS
    <3> QED BY <2>1, <2>2, <2>3, <3>1, <3>2, PodsMove
  <2>5. CASE Scale
    <3>1. pods' = [old |-> pods.old, new |-> pods.new, ready |-> pods.ready]
      BY <1>0, <2>5 DEF Scale
    <3> QED BY <2>1, <2>2, <2>3, <3>1, PodsMove
  <2> QED BY <1>1, <2>4, <2>5
<1>2. CASE Crash
  <2>1. /\ pods' = [old |-> pods.old, new |-> pods.new, ready |-> pods.ready - 1] /\ pods.ready > 0
        /\ changes < MaxChanges /\ changes' = changes + 1
        /\ UNCHANGED <<spec, env, status, app, pod, observation, deployment, slot, faults>>
    BY <1>0, <1>2 DEF Crash, Change, Stays
  <2>2. pods.ready - 1 \in Nat /\ pods.ready - 1 <= pods.new
    BY <2>1
  <2> QED BY <2>1, <2>2, ChangeType, PodsOnlyMove
<1>3. CASE CreatePod
  <2>1. /\ pods' = [old |-> pods.old, new |-> pods.new + 1, ready |-> pods.ready]
        /\ pods.old + pods.new < Allowed
        /\ UNCHANGED <<spec, env, status, app, pod, observation, deployment, slot, changes, faults>>
    BY <1>0, <1>3 DEF CreatePod, Stays
  <2>2. Allowed \in Nat /\ Allowed <= MostPods
    BY RolloutAssumption DEF Allowed, MostPods
  <2>3. pods.new + 1 \in Nat /\ pods.old + (pods.new + 1) <= MostPods /\ pods.ready <= pods.new + 1
    BY <2>1, <2>2
  <2> QED BY <1>0, <2>1, <2>3, PodsOnlyMove
<1>4. CASE PodReady
  <2>1. /\ pods' = [old |-> pods.old, new |-> pods.new, ready |-> pods.ready + 1]
        /\ pods.ready < pods.new
        /\ UNCHANGED <<spec, env, status, app, pod, observation, deployment, slot, changes, faults>>
    BY <1>0, <1>4 DEF PodReady, Stays
  <2>2. pods.ready + 1 \in Nat /\ pods.ready + 1 <= pods.new
    BY <2>1
  <2> QED BY <1>0, <2>1, <2>2, PodsOnlyMove
<1>5. CASE DeletePod
  <2>0. UNCHANGED <<spec, env, status, app, pod, observation, deployment, slot, changes, faults>>
    BY <1>5 DEF DeletePod, Stays
  <2>1. CASE pods.old > 0 /\ pods' = [pods EXCEPT !.old = @ - 1]
    <3>1. pods' = [old |-> pods.old - 1, new |-> pods.new, ready |-> pods.ready]
      BY <1>0, <2>1
    <3>2. pods.old - 1 \in Nat /\ (pods.old - 1) + pods.new <= MostPods
      BY <2>1
    <3> QED BY <1>0, <2>0, <3>1, <3>2, PodsOnlyMove
  <2>2. CASE /\ pods.new > spec.desired
             /\ pods' = [pods EXCEPT !.new = @ - 1,
                                     !.ready = IF @ = pods.new THEN @ - 1 ELSE @]
    <3> DEFINE ready == IF pods.ready = pods.new THEN pods.ready - 1 ELSE pods.ready
    <3>1. pods' = [old |-> pods.old, new |-> pods.new - 1, ready |-> ready]
      BY <1>0, <2>2
    <3>2. /\ pods.new - 1 \in Nat /\ ready \in Nat /\ ready <= pods.new - 1
          /\ pods.old + (pods.new - 1) <= MostPods
      BY <2>2
    <3> HIDE DEF ready
    <3> QED BY <1>0, <2>0, <3>1, <3>2, PodsOnlyMove
  <2> QED BY <1>5, <2>1, <2>2 DEF DeletePod
<1> QED BY <1>1, <1>2, <1>3, <1>4, <1>5

LEMMA StatusTypes ==
    ASSUME TInv, WriteStatus \/ GetStuck PROVE TInv'
<1>1. UNCHANGED <<spec, pods, app, pod, env, observation, deployment, slot, faults>>
  BY DEF WriteStatus, GetStuck, Change, Stays
<1>2. changes' \in 0..MaxChanges /\ changes' >= changes /\ changes \in Nat /\ changes' \in Nat
  <2>1. CASE WriteStatus
    BY <2>1, RolloutAssumption DEF WriteStatus, Stays, TInv, RolloutTypeOK
  <2>2. CASE GetStuck
    BY <2>2, ChangeType, RolloutAssumption DEF GetStuck, Change
  <2> QED BY <2>1, <2>2
<1>3. /\ status' \in [observed : 0..(MaxChanges + 1), desired : 0..MaxReplicas,
                     old : 0..MostPods, new : 0..MostPods, ready : 0..MostPods,
                     stuck : BOOLEAN, mismatch : BOOLEAN]
      /\ status'.observed \in {status.observed, spec.generation}
  <2>1. CASE WriteStatus
    <3>1. spec.generation \in 0..(MaxChanges + 1)
      BY RolloutAssumption DEF TInv, RolloutTypeOK
    <3> QED BY <2>1, <3>1 DEF WriteStatus, TInv, RolloutTypeOK
  <2>2. CASE GetStuck
    BY <2>2 DEF GetStuck, TInv, RolloutTypeOK
  <2> QED BY <2>1, <2>2
<1>4. RolloutTypeOK'
  BY <1>1, <1>2, <1>3 DEF TInv, RolloutTypeOK
<1>5. PodsOK' /\ SeenOK'
  BY <1>1 DEF TInv, PodsOK, SeenOK
<1>6. GenerationOK'
  BY <1>1, <1>2, <1>3, RolloutNumbers DEF GenerationOK
<1> QED BY <1>4, <1>5, <1>6 DEF TInv

LEMMA OtherKindTypes ==
    ASSUME TInv, PodMoves \/ AppDrifts \/ AppSyncs \/ AppHealth PROVE TInv'
<1>1. UNCHANGED <<spec, pods, status, env, observation, deployment, slot, faults>>
  BY DEF PodMoves, AppDrifts, AppSyncs, AppHealth, Change, Stays
<1>2. changes' \in 0..MaxChanges /\ changes' >= changes /\ changes \in Nat /\ changes' \in Nat
  <2>1. changes \in Nat /\ changes \in 0..MaxChanges
    BY RolloutAssumption DEF TInv, RolloutTypeOK
  <2>2. CASE PodMoves \/ AppDrifts
    BY <2>1, <2>2, ChangeType DEF PodMoves, AppDrifts, Change
  <2>3. CASE AppSyncs \/ AppHealth
    BY <2>1, <2>3 DEF AppSyncs, AppHealth
  <2> QED BY <2>2, <2>3
<1>3. app' \in Apps /\ pod' \in PodStates
  BY DEF PodMoves, AppDrifts, AppSyncs, AppHealth, Apps, TInv, RolloutTypeOK
<1>4. RolloutTypeOK'
  BY <1>1, <1>2, <1>3 DEF TInv, RolloutTypeOK
<1>5. PodsOK' /\ GenerationOK' /\ SeenOK'
  BY <1>1, <1>2, RolloutNumbers DEF TInv, PodsOK, GenerationOK, SeenOK
<1> QED BY <1>4, <1>5 DEF TInv

LEMMA SlotTypes ==
    ASSUME TInv, NEW j \in Slots,
           FetchScheduled(j) \/ FetchOnEvent(j) \/ Step(j) \/ Dies(j)
    PROVE  TInv'
<1>1. UNCHANGED <<env, world, changes>>
  BY DEF FetchScheduled, FetchOnEvent, Look, Step, SaveObservation, FindDeployment,
         ProjectObservation, Dies
<1>2. slot \in [Slots -> SlotRecords] /\ slot[j] \in SlotRecords /\ Idle \in SlotRecords
  BY DEF TInv, RolloutTypeOK, SlotRecords, AllSeen, Idle
<1>3. slot' \in [Slots -> SlotRecords]
  <2>1. CASE FetchScheduled(j) \/ FetchOnEvent(j)
    <3> DEFINE new == [pc |-> "fetched", seen |-> Observation, truth |-> Truth]
    <3>1. new \in SlotRecords
      BY ObservationType DEF SlotRecords, AllSeen
    <3>2. slot' = [slot EXCEPT ![j] = new]
      BY <2>1 DEF FetchScheduled, FetchOnEvent, Look
    <3> HIDE DEF new
    <3> QED BY <1>2, <3>1, <3>2
  <2>2. CASE SaveObservation(j)
    <3>1. [slot[j] EXCEPT !.pc = "stored"] \in SlotRecords
      BY <1>2 DEF SlotRecords
    <3>2. slot' = [slot EXCEPT ![j] = [slot[j] EXCEPT !.pc = "stored"]]
      BY <1>2, <2>2 DEF SaveObservation
    <3> QED BY <1>2, <3>1, <3>2
  <2>3. CASE FindDeployment(j)
    <3>1. [slot[j] EXCEPT !.pc = "changed"] \in SlotRecords
      BY <1>2 DEF SlotRecords
    <3>2. \/ slot' = [slot EXCEPT ![j] = [slot[j] EXCEPT !.pc = "changed"]]
          \/ slot' = [slot EXCEPT ![j] = Idle]
      BY <1>2, <2>3 DEF FindDeployment
    <3> QED BY <1>2, <3>1, <3>2
  <2>4. CASE ProjectObservation(j) \/ Dies(j)
    BY <1>2, <2>4 DEF ProjectObservation, Dies
  <2> QED BY <2>1, <2>2, <2>3, <2>4 DEF Step
<1>4. faults' \in 0..MaxFaults
  <2>1. faults \in 0..MaxFaults
    BY DEF TInv, RolloutTypeOK
  <2> QED BY <2>1, RolloutAssumption DEF FetchScheduled, FetchOnEvent, Look, Step,
             SaveObservation, FindDeployment, ProjectObservation, Dies
<1>5. observation' \in Observations \cup {NoneSeen}
  BY <1>2 DEF FetchScheduled, FetchOnEvent, Look, Step, SaveObservation, FindDeployment,
     ProjectObservation, Dies, TInv, RolloutTypeOK, SlotRecords, AllSeen
<1>6. deployment' \in Deployments \cup {NoDeployment}
  <2>1. CASE ProjectObservation(j)
    <3>1. slot[j].seen \in Observations /\ slot[j].truth \in Truths
      BY <1>2, <2>1 DEF ProjectObservation, TInv, SeenOK
    <3>2. /\ slot[j].seen.health \in Health /\ slot[j].seen.sync \in Sync
          /\ slot[j].seen.drift \in BOOLEAN
      BY <3>1 DEF Observations
    <3> QED BY <2>1, <3>1, <3>2, MapStatusType DEF ProjectObservation, Deployments
  <2>2. CASE deployment' = deployment
    BY <2>2 DEF TInv, RolloutTypeOK
  <2> QED BY <2>1, <2>2 DEF FetchScheduled, FetchOnEvent, Look, Step, SaveObservation,
                          FindDeployment, Dies
<1>7. SeenOK'
  <2>1. \A i \in Slots : i # j => slot'[i] = slot[i]
    BY <1>2 DEF FetchScheduled, FetchOnEvent, Look, Step, SaveObservation, FindDeployment,
                ProjectObservation, Dies
  <2>2. slot'[j].pc = "idle" \/ (slot'[j].seen \in Observations /\ slot'[j].truth \in Truths)
    <3>1. CASE FetchScheduled(j) \/ FetchOnEvent(j)
      BY <1>2, <3>1, ObservationType DEF FetchScheduled, FetchOnEvent, Look
    <3>2. CASE SaveObservation(j)
      BY <1>2, <3>2 DEF SaveObservation, TInv, SeenOK, SlotRecords
    <3>3. CASE FindDeployment(j)
      <4>1. slot[j].seen \in Observations /\ slot[j].truth \in Truths
        BY <1>2, <3>3 DEF FindDeployment, TInv, SeenOK
      <4>2. slot'[j] = Idle \/ slot'[j] = [slot[j] EXCEPT !.pc = "changed"]
        BY <1>2, <3>3 DEF FindDeployment
      <4> QED BY <1>2, <4>1, <4>2 DEF Idle, SlotRecords
    <3>4. CASE ProjectObservation(j) \/ Dies(j)
      BY <1>2, <3>4 DEF ProjectObservation, Dies, Idle
    <3> QED BY <3>1, <3>2, <3>3, <3>4 DEF Step
  <2> QED BY <2>1, <2>2 DEF TInv, SeenOK
<1>8. RolloutTypeOK'
  BY <1>1, <1>3, <1>4, <1>5, <1>6 DEF TInv, RolloutTypeOK, world, SlotRecords, AllSeen
<1>9. PodsOK' /\ GenerationOK'
  BY <1>1 DEF TInv, PodsOK, GenerationOK, world
<1> QED BY <1>7, <1>8, <1>9 DEF TInv

LEMMA RolloutTypeNext == TInv /\ [RolloutNext]_rolloutVars => TInv'
<1> SUFFICES ASSUME TInv, [RolloutNext]_rolloutVars PROVE TInv'
  OBVIOUS
<1>1. CASE UNCHANGED rolloutVars
  BY <1>1 DEF rolloutVars, world, TInv, RolloutTypeOK, PodsOK, GenerationOK, SeenOK
<1> QED BY <1>1, WorkloadTypes, StatusTypes, OtherKindTypes, SlotTypes DEF RolloutNext

\* Every variable of a rollout keeps its type: the cluster never runs more pods than
\* replicas and surge allow, and what is projected is a status the schema has.
THEOREM RolloutTypeCorrect == RolloutSpec => []RolloutTypeOK
<1>1. TInv => RolloutTypeOK
  BY DEF TInv
<1> QED BY <1>1, RolloutTypeInit, RolloutTypeNext, PTL DEF RolloutSpec
=============================================================================
