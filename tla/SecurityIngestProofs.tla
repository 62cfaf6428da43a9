------------------------- MODULE SecurityIngestProofs -------------------------
(***************************************************************************)
(* What holds of SecurityIngest for every number of reports, sends and job *)
(* slots, every number of attempts and stalls, with and without            *)
(* transactions, in production and outside.                                *)
(***************************************************************************)
EXTENDS SecurityIngest, JobQueueProofs, FiniteSetTheorems

(***************************************************************************)
(* Who runs what: the first inductive invariant.  It leaves the scans out. *)
(***************************************************************************)

BaseOK ==
    /\ env \in [production : BOOLEAN, transactions : BOOLEAN]
    /\ delivery \in [Reports -> DeliveryStatus]
    /\ job \in [Reports -> Jobs]
    /\ request \in [Requests -> RequestPc]
    /\ exec \in [Executors -> Execs]

JobsOK == \A d \in Reports : JobOK(job[d])

\* A report that any request has got to, or that has a job, is recorded.
Recorded ==
    /\ \A q \in Requests : request[q] # "unsent" => delivery[Of(q)] # "none"
    /\ \A d \in Reports : job[d] # NoJob => delivery[d] # "none"

\* A request that fell back runs its own report, and only outside production; a
\* slot runs one that has a job.
OwnJob ==
    /\ \A q \in Requests :
          exec[q].pc # "idle" => request[q] = "fallback" /\ ~env.production /\ exec[q].d = Of(q)
    /\ \A w \in Workers : exec[w].pc # "idle" => exec[w].d \in Reports /\ job[exec[w].d] # NoJob

\* One slot at most holds the lock of a job, and that job is active.
LockOK ==
    \A v, w \in Workers :
        exec[v].lock /\ exec[v].pc # "idle"
        => /\ job[exec[v].d].state = "active"
           /\ exec[w].lock /\ exec[w].pc # "idle" /\ exec[v].d = exec[w].d => v = w

IInv == BaseOK /\ JobsOK /\ Recorded /\ OwnJob /\ LockOK

LEMMA RequestOf == ASSUME NEW q \in Requests PROVE Of(q) \in Reports
  BY DEF Requests, Of

LEMMA RunsReport ==
    ASSUME IInv, NEW e \in Executors, exec[e].pc # "idle" PROVE exec[e].d \in Reports
  BY RequestOf DEF IInv, OwnJob, Executors

LEMMA BeginIsExec == ASSUME NEW d \in Reports PROVE Begin(d) \in Execs
  BY DEF Begin, Execs, ExecPc

LEMMA NoExecIsExec == NoExec \in Execs
  BY DEF NoExec, Execs, ExecPc

LEMMA Apart ==
    /\ \A q \in Requests : q \in Executors /\ q \notin Workers
    /\ \A w \in Workers : w \in Executors
  BY IngestAssumption DEF Executors

LEMMA IInvInit == Init => IInv
<1> SUFFICES ASSUME Init PROVE IInv
  OBVIOUS
<1> USE DEF Init
<1>1. JobsOK
  BY JobQueueAssumption DEF JobsOK, JobOK, HasAttempt, NoJob, Jobs, JobStates
<1>2. BaseOK
  BY <1>1, NoExecIsExec DEF BaseOK, JobsOK, JobOK, DeliveryStatus, RequestPc
<1>3. Recorded
  BY DEF Recorded
<1>4. OwnJob /\ LockOK
  BY Apart DEF OwnJob, LockOK, NoExec
<1> QED BY <1>1, <1>2, <1>3, <1>4 DEF IInv

\* A step of a request: it may add the job, start or drop its own execution,
\* and write a status or none.
LEMMA RequestStep ==
    ASSUME IInv, NEW q \in Requests, NEW pc \in RequestPc \ {"unsent"}, Answer(q, pc),
           UNCHANGED env,
           job' = job \/ job' = [job EXCEPT ![Of(q)] = Add(@)],
           NEW s \in DeliveryStatus \ {"none"},
           \/ delivery' = [delivery EXCEPT ![Of(q)] = s]
           \/ delivery' = delivery /\ delivery[Of(q)] # "none",
           NEW x \in {NoExec, Begin(Of(q))},
           exec' = exec \/ exec' = [exec EXCEPT ![q] = x],
           exec'[q].pc # "idle" => pc = "fallback" /\ ~env.production
    PROVE  /\ IInv'
           /\ \A r \in Requests : r # q => request'[r] = request[r]
           /\ \A e \in Executors : e # q => exec'[e] = exec[e]
           /\ \A c \in Reports : c # Of(q) => delivery'[c] = delivery[c]
           /\ \A c \in Reports : job'[c] = job[c] \/ (c = Of(q) /\ job[c] = NoJob /\ job'[c] = NewJob)
<1> USE DEF IInv
<1>1. Of(q) \in Reports /\ q \in Executors
  BY RequestOf, Apart
<1>2. /\ request' \in [Requests -> RequestPc] /\ request'[q] = pc
      /\ \A r \in Requests : r # q => request'[r] = request[r]
  BY DEF BaseOK, Answer
<1>3. /\ delivery' \in [Reports -> DeliveryStatus]
      /\ \A c \in Reports : delivery[c] # "none" => delivery'[c] # "none"
      /\ delivery'[Of(q)] # "none"
      /\ \A c \in Reports : c # Of(q) => delivery'[c] = delivery[c]
  BY <1>1 DEF BaseOK
<1>4. x \in Execs /\ (x.pc # "idle" => x.d = Of(q))
  <2>1. NoExec \in Execs /\ Begin(Of(q)) \in Execs
    BY <1>1, BeginIsExec, NoExecIsExec
  <2>2. NoExec.pc = "idle" /\ Begin(Of(q)).d = Of(q)
    BY DEF NoExec, Begin
  <2> QED BY <2>1, <2>2
<1>5. /\ exec' \in [Executors -> Execs]
      /\ \A e \in Executors : e # q => exec'[e] = exec[e]
      /\ exec'[q] = exec[q] \/ exec'[q] = x
  BY <1>1, <1>4 DEF BaseOK
<1>6. JobOK(Add(job[Of(q)]))
  BY <1>1, JobOperations DEF JobsOK
<1>7. /\ JobsOK' /\ job' \in [Reports -> Jobs]
      /\ \A c \in Reports : job'[c] = job[c] \/ (c = Of(q) /\ job[c] = NoJob /\ job'[c] = NewJob)
  BY <1>1, <1>6 DEF BaseOK, JobsOK, JobOK, Add
<1>8. Recorded'
  <2>1. \A c \in Reports : job'[c] # NoJob => c = Of(q) \/ job[c] # NoJob
    BY <1>1 DEF BaseOK
  <2> QED BY <1>2, <1>3, <2>1, RequestOf DEF Recorded
<1>9. OwnJob'
  <2>1. exec'[q].pc # "idle" => exec'[q].d = Of(q)
    BY <1>4, <1>5 DEF OwnJob
  <2>2. \A r \in Requests : r # q => exec'[r] = exec[r] /\ request'[r] = request[r]
    BY <1>2, <1>5, Apart
  <2>3. \A w \in Workers : exec'[w] = exec[w]
    BY <1>5, Apart
  <2> QED BY <1>2, <1>7, <2>1, <2>2, <2>3 DEF OwnJob
<1>10. LockOK'
  <2>1. \A w \in Workers : exec'[w] = exec[w]
    BY <1>5, Apart
  <2>2. \A w \in Workers : exec[w].pc # "idle" => job'[exec[w].d] = job[exec[w].d]
    BY <1>7 DEF OwnJob
  <2> QED BY <2>1, <2>2 DEF LockOK
<1>11. BaseOK'
  BY <1>2, <1>3, <1>5, <1>7 DEF BaseOK
<1> QED BY <1>2, <1>3, <1>5, <1>7, <1>8, <1>9, <1>10, <1>11

\* What every step of a request does, whatever else it needs.
LEMMA HandleStep ==
    ASSUME IInv, NEW q \in Requests, Handle(q)
    PROVE  /\ IInv' /\ UNCHANGED <<env, scans>>
           /\ \A r \in Requests : r # q => request'[r] = request[r]
           /\ \A e \in Executors : e # q => exec'[e] = exec[e]
           /\ exec'[q] = exec[q] \/ exec'[q] = NoExec \/ exec'[q] = Begin(Of(q))
           /\ \A c \in Reports : c # Of(q) => delivery'[c] = delivery[c]
           /\ \A c \in Reports : job'[c] = job[c] \/ (c = Of(q) /\ job[c] = NoJob /\ job'[c] = NewJob)
<1> USE DEF RequestPc, DeliveryStatus
<1>1. Of(q) \in Reports /\ (request[q] # "unsent" => delivery[Of(q)] # "none")
  BY RequestOf DEF IInv, Recorded
<1>2. NoExec.pc = "idle" /\ (exec[q].pc # "idle" => request[q] = "fallback" /\ ~env.production)
  BY DEF NoExec, IInv, OwnJob
<1>3. \/ exec'[q] = exec[q] /\ exec' = exec
      \/ exec'[q] = NoExec /\ exec' = [exec EXCEPT ![q] = NoExec]
      \/ exec'[q] = Begin(Of(q)) /\ exec' = [exec EXCEPT ![q] = Begin(Of(q))]
  BY Apart DEF Handle, Claim, Reclaim, Enqueue, EnqueueFails, MarkQueued, RequestDies,
               FallbackDone, IInv, BaseOK
<1>4. PICK x \in {NoExec, Begin(Of(q))} : exec' = exec \/ exec' = [exec EXCEPT ![q] = x]
  BY <1>3
<1>5. PICK s \in DeliveryStatus \ {"none"} :
         \/ delivery' = [delivery EXCEPT ![Of(q)] = s]
         \/ delivery' = delivery /\ delivery[Of(q)] # "none"
  BY <1>1, <1>2, Apart DEF Handle, Claim, Reclaim, Enqueue, EnqueueFails, MarkQueued, RequestDies,
                    FallbackDone
<1>6. job' = job \/ job' = [job EXCEPT ![Of(q)] = Add(@)]
  BY DEF Handle, Claim, Reclaim, Enqueue, EnqueueFails, MarkQueued, RequestDies, FallbackDone
<1>7. PICK pc \in RequestPc \ {"unsent"} :
         Answer(q, pc) /\ (exec'[q].pc # "idle" => pc = "fallback" /\ ~env.production)
  <2>1. CASE Claim(q) \/ Reclaim(q) \/ Enqueue(q) \/ MarkQueued(q)
    BY <1>2, <2>1 DEF Claim, Reclaim, Enqueue, MarkQueued
  <2>2. CASE EnqueueFails(q)
    BY <1>2, <2>2 DEF EnqueueFails
  <2>3. CASE RequestDies(q) \/ FallbackDone(q)
    BY <1>2, <2>3, Apart DEF RequestDies, FallbackDone, IInv, BaseOK
  <2> QED BY <2>1, <2>2, <2>3 DEF Handle
<1>8. UNCHANGED <<env, scans>>
  BY DEF Handle, Claim, Reclaim, Enqueue, EnqueueFails, MarkQueued, RequestDies, FallbackDone
<1> QED BY <1>3, <1>4, <1>5, <1>6, <1>7, <1>8, RequestStep

\* What every step of the processor does.
LEMMA ProcessStep ==
    ASSUME IInv, NEW e \in Executors, Process(e)
    PROVE  /\ IInv' /\ UNCHANGED <<env, job, request>>
           /\ exec[e].pc \notin {"idle", "throw"} /\ exec[e].d \in Reports
           /\ \A f \in Executors : f # e => exec'[f] = exec[f]
           /\ exec'[e].d = exec[e].d /\ exec'[e].pc # "idle"
           /\ \A c \in Reports : c # exec[e].d => delivery'[c] = delivery[c]
           /\ delivery'[exec[e].d] # "none"
<1> USE DEF IInv, ExecPc, DeliveryStatus
<1>1. PICK pc \in ExecPc \ {"idle"}, s \in DeliveryStatus \ {"none"} :
         /\ GoTo(e, pc) /\ exec[e].pc \notin {"idle", "throw"}
         /\ delivery' = delivery \/ delivery' = [delivery EXCEPT ![exec[e].d] = s]
  <2>1. CASE MarkProcessing(e) \/ FindScan(e) \/ SkipDuplicate(e)
    BY <2>1 DEF MarkProcessing, FindScan, SkipDuplicate, Mark
  <2>2. CASE CommitScan(e) \/ CreateScan(e) \/ CompleteScan(e) \/ Evaluate(e) \/ EvaluateFails(e)
    BY <2>2 DEF CommitScan, CreateScan, CompleteScan, Evaluate, EvaluateFails
  <2>3. CASE MarkProcessed(e) \/ Throws(e) \/ MarkFailed(e)
    BY <2>3 DEF MarkProcessed, Throws, MarkFailed, Mark
  <2> QED BY <2>1, <2>2, <2>3 DEF Process
<1>2. UNCHANGED <<env, job, request>>
  BY DEF Process, MarkProcessing, FindScan, SkipDuplicate, CommitScan, CreateScan, CompleteScan,
         MarkProcessed, Evaluate, EvaluateFails, Throws, MarkFailed
<1>3. exec[e].d \in Reports
  BY <1>1, RunsReport
<1>4. /\ exec' \in [Executors -> Execs]
      /\ \A f \in Executors : f # e => exec'[f] = exec[f]
      /\ exec'[e].pc = pc /\ exec'[e].d = exec[e].d /\ exec'[e].lock = exec[e].lock
  BY <1>1 DEF GoTo, BaseOK, Execs
<1>5. delivery[exec[e].d] # "none"
  BY <1>1 DEF OwnJob, Recorded, Executors
<1>6. /\ delivery' \in [Reports -> DeliveryStatus]
      /\ \A c \in Reports : c # exec[e].d => delivery'[c] = delivery[c]
      /\ delivery'[exec[e].d] # "none"
  BY <1>1, <1>3, <1>5 DEF BaseOK
<1>7. BaseOK' /\ JobsOK'
  BY <1>2, <1>4, <1>6 DEF BaseOK, JobsOK
<1>8. Recorded'
  BY <1>2, <1>6, RequestOf DEF Recorded
<1>9. OwnJob'
  BY <1>1, <1>2, <1>4, Apart DEF OwnJob
<1>10. LockOK'
  <2>1. \A w \in Workers :
           /\ exec'[w].pc # "idle" <=> exec[w].pc # "idle"
           /\ exec'[w].lock = exec[w].lock /\ exec'[w].d = exec[w].d
    BY <1>1, <1>4, Apart
  <2> QED BY <1>2, <2>1 DEF LockOK
<1> QED BY <1>1, <1>2, <1>3, <1>4, <1>6, <1>7, <1>8, <1>9, <1>10

\* What every step of a slot around the processor does: it starts or ends one
\* execution, and the job of that execution moves or stays.
Starts(w, d) == job[d].state = "waiting" /\ exec'[w] = Begin(d)
Ends(w, d) == exec[w].pc # "idle" /\ exec[w].d = d /\ exec'[w] = NoExec

SlotMoves(w, d) ==
    /\ UNCHANGED <<env, delivery, request, scans>>
    /\ Starts(w, d) \/ Ends(w, d)
    /\ \A e \in Executors : e # w => exec'[e] = exec[e]
    /\ \A c \in Reports : c # d => job'[c] = job[c]
    /\ job[d] # NoJob /\ job'[d] # NoJob /\ job'[d].stalls = job[d].stalls
    /\ Starts(w, d) => job'[d].state = "active"
    /\ job'[d].state = "completed" => job[d].state = "completed" \/ exec[w].pc = "return"

LEMMA TakeJobStep ==
    ASSUME IInv, NEW w \in Workers, NEW d \in Reports, TakeJob(w, d)
    PROVE  IInv' /\ SlotMoves(w, d)
<1> USE DEF IInv
<1>1. JobOK(job[d]) /\ job[d] \in Jobs /\ job[d].state = "waiting" /\ job[d] # NoJob
  BY DEF TakeJob, JobsOK, JobOK, NoJob
<1>2. /\ JobOK(Take(job[d])) /\ Take(job[d]).state = "active" /\ Take(job[d]) # NoJob
      /\ Take(job[d]).stalls = job[d].stalls
  BY <1>1, JobOperations, JobOutcomes, JobStays
<1>3. /\ JobsOK' /\ job' \in [Reports -> Jobs]
      /\ \A c \in Reports : job'[c] = IF c = d THEN Take(job[d]) ELSE job[c]
  BY <1>2 DEF TakeJob, BaseOK, JobsOK, JobOK
<1>4. \A e \in Executors : exec'[e] = IF e = w THEN Begin(d) ELSE exec[e]
  BY Apart DEF TakeJob, BaseOK
<1>5. BaseOK'
  BY <1>3, BeginIsExec, Apart DEF TakeJob, BaseOK
<1>6. Recorded'
  BY <1>1, <1>3 DEF TakeJob, Recorded
<1>7. OwnJob'
  <2>1. \A q \in Requests : exec'[q] = exec[q]
    BY <1>4, Apart
  <2>2. \A v \in Workers : exec'[v] = IF v = w THEN Begin(d) ELSE exec[v]
    BY <1>4, Apart
  <2> QED BY <1>2, <1>3, <2>1, <2>2 DEF TakeJob, OwnJob, Begin
<1>8. \A v \in Workers : v # w /\ exec[v].lock /\ exec[v].pc # "idle"
                           => exec[v].d # d /\ exec[v].d \in Reports
  BY DEF TakeJob, LockOK, OwnJob
<1>9. LockOK'
  <2>1. ASSUME NEW v \in Workers, exec'[v].lock, exec'[v].pc # "idle"
        PROVE  /\ job'[exec'[v].d].state = "active"
               /\ \A u \in Workers : exec'[u].lock /\ exec'[u].pc # "idle"
                                       /\ exec'[v].d = exec'[u].d => v = u
    <3>1. CASE v = w
      BY <1>2, <1>3, <1>4, <1>8, <3>1, Apart DEF Begin
    <3>2. CASE v # w
      BY <1>3, <1>4, <1>8, <2>1, <3>2, Apart DEF Begin, LockOK
    <3> QED BY <3>1, <3>2
  <2> QED BY <2>1 DEF LockOK
<1>10. SlotMoves(w, d)
  BY <1>1, <1>2, <1>3, <1>4, Apart DEF TakeJob, SlotMoves, Starts
<1> QED BY <1>3, <1>5, <1>6, <1>7, <1>9, <1>10

LEMMA WorkerEndsStep ==
    ASSUME IInv, NEW w \in Workers, WorkerDone(w) \/ WorkerDies(w)
    PROVE  IInv' /\ \E d \in Reports : SlotMoves(w, d)
<1> USE DEF IInv
<1>1. PICK d \in Reports : d = exec[w].d /\ exec[w].pc # "idle" /\ job[d] # NoJob
  BY DEF WorkerDone, WorkerDies, OwnJob
<1>2. \A e \in Executors : exec'[e] = IF e = w THEN NoExec ELSE exec[e]
  BY Apart DEF WorkerDone, WorkerDies, BaseOK
<1>3. PICK j : /\ JobOK(j) /\ j # NoJob /\ j.stalls = job[d].stalls
               /\ j.state = "completed" => job[d].state = "completed" \/ exec[w].pc = "return"
               /\ job' = [job EXCEPT ![d] = j] /\ (j = job[d] \/ exec[w].lock)
  <2>1. JobOK(job[d]) /\ job[d] \in Jobs
    BY DEF JobsOK, JobOK
  <2>2. CASE job' = job
    <3>1. job' = [job EXCEPT ![d] = job[d]]
      BY <2>2 DEF BaseOK
    <3> QED BY <1>1, <2>1, <3>1
  <2>3. CASE exec[w].lock /\ exec[w].pc = "return" /\ job' = [job EXCEPT ![d] = Complete(job[d])]
    <3>1. /\ JobOK(Complete(job[d])) /\ Complete(job[d]) # NoJob
          /\ Complete(job[d]).stalls = job[d].stalls
      BY <2>1, JobOperations, JobStays
    <3> QED BY <2>3, <3>1
  <2>4. CASE exec[w].lock /\ job' = [job EXCEPT ![d] = Fail(job[d], FALSE)]
    <3>1. job[d].state = "active"
      BY <1>1, <2>4 DEF LockOK
    <3>2. Fail(job[d], FALSE).state \in {"waiting", "failed"}
      BY <2>1, JobOutcomes
    <3>3. /\ JobOK(Fail(job[d], FALSE)) /\ Fail(job[d], FALSE) # NoJob
          /\ Fail(job[d], FALSE).stalls = job[d].stalls
      BY <2>1, <3>1, JobOperations, JobStays
    <3> QED BY <2>4, <3>2, <3>3
  <2> QED BY <1>1, <2>2, <2>3, <2>4 DEF WorkerDone, WorkerDies
<1>4. \A c \in Reports : job'[c] = IF c = d THEN j ELSE job[c]
  BY <1>3 DEF BaseOK
<1>5. BaseOK' /\ JobsOK'
  BY <1>3, <1>4, NoExecIsExec, Apart DEF WorkerDone, WorkerDies, BaseOK, JobsOK, JobOK
<1>6. Recorded'
  BY <1>1, <1>4 DEF WorkerDone, WorkerDies, Recorded
<1>7. \A v \in Workers : exec'[v].pc # "idle" => v # w /\ exec'[v] = exec[v]
  BY <1>2, Apart DEF NoExec
<1>8. OwnJob'
  <2>1. \A q \in Requests : exec'[q] = exec[q]
    BY <1>2, Apart
  <2> QED BY <1>3, <1>4, <1>7, <2>1 DEF WorkerDone, WorkerDies, OwnJob
<1>9. LockOK'
  <2>1. \A v \in Workers : exec'[v].lock /\ exec'[v].pc # "idle"
                             => job'[exec[v].d] = job[exec[v].d]
    BY <1>1, <1>3, <1>4, <1>7 DEF LockOK, OwnJob
  <2> QED BY <1>7, <2>1 DEF LockOK
<1>10. SlotMoves(w, d)
  <2>1. UNCHANGED <<env, delivery, request, scans>> /\ Ends(w, d)
    BY <1>1, <1>2, Apart DEF WorkerDone, WorkerDies, Ends
  <2>2. ~Starts(w, d)
    BY <1>2, Apart DEF Starts, Begin, NoExec
  <2> QED BY <1>1, <1>2, <1>3, <1>4, <2>1, <2>2 DEF SlotMoves
<1> QED BY <1>5, <1>6, <1>8, <1>9, <1>10

\* The lock runs out: the job waits again, with one stall more, or has failed.
LockRanOut(d) ==
    /\ UNCHANGED <<env, delivery, request, scans>>
    /\ \A e \in Executors : exec'[e].pc = exec[e].pc /\ exec'[e].d = exec[e].d
    /\ \A c \in Reports : c # d => job'[c] = job[c]
    /\ job[d] # NoJob /\ job'[d] # NoJob
    /\ job'[d].stalls # 0 \/ job'[d].state = "failed"
    /\ job'[d].stalls = 0 => job[d].stalls = 0
    /\ job'[d].state # "completed"

LEMMA JobStallsStep ==
    ASSUME IInv, NEW d \in Reports, JobStalls(d)
    PROVE  IInv' /\ LockRanOut(d)
<1> USE DEF IInv
<1>1. JobOK(job[d]) /\ job[d] \in Jobs /\ job[d].state = "active" /\ job[d] # NoJob
  BY DEF JobStalls, JobsOK, JobOK, NoJob
<1>2. JobOK(Stall(job[d])) /\ Stall(job[d]).state # "completed"
  BY <1>1, JobOperations, JobOutcomes
<1>3. /\ Stall(job[d]) # NoJob
      /\ Stall(job[d]).stalls # 0 \/ Stall(job[d]).state = "failed"
      /\ Stall(job[d]).stalls = 0 => job[d].stalls = 0
  <2>1. Stall(job[d]).stalls = 0 => job[d].stalls = 0
    BY <1>1, JobQueueAssumption DEF Stall, Jobs
  <2> QED BY <1>1, <2>1, JobStays
<1>4. /\ JobsOK' /\ job' \in [Reports -> Jobs]
      /\ \A c \in Reports : job'[c] = IF c = d THEN Stall(job[d]) ELSE job[c]
  BY <1>2 DEF JobStalls, BaseOK, JobsOK, JobOK
<1>5. \A e \in Executors : /\ exec'[e] \in Execs
                           /\ exec'[e].pc = exec[e].pc /\ exec'[e].d = exec[e].d
                           /\ exec'[e].lock => exec[e].lock
                           /\ e \in Workers /\ exec'[e].lock => exec'[e].d # d
  BY DEF JobStalls, BaseOK, Execs
<1>6. BaseOK'
  BY <1>4, <1>5 DEF JobStalls, BaseOK
<1>7. Recorded'
  BY <1>1, <1>4 DEF JobStalls, Recorded
<1>8. OwnJob'
  BY <1>3, <1>4, <1>5, Apart DEF JobStalls, OwnJob
<1>9. LockOK'
  BY <1>4, <1>5, Apart DEF LockOK, OwnJob
<1>10. LockRanOut(d)
  BY <1>1, <1>2, <1>3, <1>4, <1>5 DEF JobStalls, LockRanOut
<1> QED BY <1>4, <1>6, <1>7, <1>8, <1>9, <1>10

-----------------------------------------------------------------------------
\* A step is one of five kinds, and each keeps the invariant.
LEMMA Kinds ==
    ASSUME IInv, [Next]_vars
    PROVE  \/ \E q \in Requests : Handle(q)
           \/ \E e \in Executors : Process(e)
           \/ \E w \in Workers, d \in Reports : IInv' /\ SlotMoves(w, d)
           \/ \E d \in Reports : IInv' /\ LockRanOut(d)
           \/ UNCHANGED vars
  BY TakeJobStep, WorkerEndsStep, JobStallsStep DEF Next

LEMMA IInvNext == IInv /\ [Next]_vars => IInv'
<1> SUFFICES ASSUME IInv, [Next]_vars PROVE IInv'
  OBVIOUS
<1>1. CASE UNCHANGED vars
  BY <1>1 DEF vars, IInv, BaseOK, JobsOK, Recorded, OwnJob, LockOK
<1> QED BY <1>1, Kinds, HandleStep, ProcessStep

THEOREM Invariance == Spec => []IInv
  BY IInvInit, IInvNext, PTL DEF Spec

-----------------------------------------------------------------------------
(***************************************************************************)
(* What the scans tell: the second layer.  A scan that was begun outside a *)
(* transaction is counted until its execution completes it, so completing  *)
(* it takes one away that is there.                                        *)
(***************************************************************************)

ScansOK == scans \in [Reports -> [processing : Nat, completed : Nat, gated : Nat]]

Creating(d) == {e \in Executors : exec[e].pc = "created" /\ exec[e].d = d}

Counted ==
    \A d \in Reports :
        IsFiniteSet(Creating(d)) /\ Cardinality(Creating(d)) <= scans[d].processing

Found(d) == scans[d].completed > 0 \/ (~env.transactions /\ scans[d].processing > 0)

Finds == {"duplicate", "stored", "processed", "return"}

FoundOK ==
    /\ \A d \in Reports : env.transactions => scans[d].processing = 0
    /\ \A e \in Executors : exec[e].pc = "created" => ~env.transactions
    /\ \A e \in Executors : exec[e].pc \in Finds => Found(exec[e].d)

SInv == ScansOK /\ Counted /\ FoundOK /\ ProcessedIsScanned

LEMMA CreatingShrinks ==
    ASSUME Counted, NEW d \in Reports,
           \A e \in Executors :
               exec'[e].pc = "created" => exec[e].pc = "created" /\ exec'[e].d = exec[e].d,
           scans'[d].processing = scans[d].processing, ScansOK
    PROVE  IsFiniteSet(Creating(d)') /\ Cardinality(Creating(d)') <= scans'[d].processing
<1>1. Creating(d)' \subseteq Creating(d)
  BY DEF Creating
<1>2. IsFiniteSet(Creating(d)') /\ Cardinality(Creating(d)') <= Cardinality(Creating(d))
  BY <1>1, FS_Subset DEF Counted
<1>3. Cardinality(Creating(d)) \in Nat /\ Cardinality(Creating(d)') \in Nat
  BY <1>2, FS_CardinalityType DEF Counted
<1> QED BY <1>2, <1>3 DEF Counted, ScansOK

\* A step that writes no scan.
LEMMA ScansKept ==
    ASSUME SInv, UNCHANGED <<env, scans>>,
           \A e \in Executors :
               exec'[e].pc = "created" => exec[e].pc = "created" /\ exec'[e].d = exec[e].d,
           \A e \in Executors :
               exec'[e].pc \in Finds => Found(exec[e].d) /\ exec'[e].d = exec[e].d,
           \A d \in Reports :
               delivery'[d] = "processed" \/ job'[d].state = "completed" => Found(d)
    PROVE  SInv'
<1> USE DEF SInv
<1>1. ScansOK' /\ FoundOK'
  BY DEF ScansOK, FoundOK, Found
<1>2. Counted'
  BY CreatingShrinks DEF Counted
<1>3. ProcessedIsScanned'
  BY DEF ProcessedIsScanned, Found
<1> QED BY <1>1, <1>2, <1>3

\* A step of e that writes one of its report d: what was found before is found
\* still.
LEMMA ScansGrow ==
    ASSUME IInv, SInv, NEW e \in Executors, NEW d \in Reports, exec[e].d = d,
           UNCHANGED <<env, delivery, job>>, exec'[e].d = d,
           \A f \in Executors : f # e => exec'[f] = exec[f],
           ScansOK', \A c \in Reports : c # d => scans'[c] = scans[c],
           Found(d)',
           env.transactions => scans'[d].processing = 0 /\ exec'[e].pc # "created",
           IsFiniteSet(Creating(d)') /\ Cardinality(Creating(d)') <= scans'[d].processing
    PROVE  SInv' /\ \A c \in Reports : Found(c) => Found(c)'
<1> USE DEF SInv
<1>1. \A c \in Reports : Found(c) => Found(c)'
  BY DEF Found
<1>2. FoundOK'
  <2>1. \A f \in Executors : exec'[f].pc = "created" => ~env.transactions
    BY DEF FoundOK
  <2>2. ASSUME NEW f \in Executors, exec'[f].pc \in Finds PROVE Found(exec[f].d)'
    <3>1. CASE f = e
      BY <3>1 DEF Found
    <3>2. CASE f # e
      <4>1. PICK c \in Reports : c = exec[f].d
        BY <2>2, <3>2, RunsReport DEF Finds
      <4>2. Found(c) /\ exec'[f].d = c
        BY <2>2, <3>2, <4>1 DEF FoundOK
      <4> QED BY <1>1, <4>2 DEF Found
    <3> QED BY <3>1, <3>2
  <2>3. \A c \in Reports : env.transactions => scans'[c].processing = 0
    BY DEF FoundOK
  <2> QED BY <2>1, <2>2, <2>3 DEF FoundOK
<1>3. Counted'
  <2>1. ASSUME NEW c \in Reports, c # d
        PROVE  IsFiniteSet(Creating(c)') /\ Cardinality(Creating(c)') <= scans'[c].processing
    <3>1. Creating(c)' = Creating(c)
      BY <2>1 DEF Creating
    <3> QED BY <2>1, <3>1 DEF Counted
  <2> QED BY <2>1 DEF Counted
<1>4. ProcessedIsScanned'
  BY <1>1 DEF ProcessedIsScanned, Found
<1> QED BY <1>1, <1>2, <1>3, <1>4

LEMMA SInvInit == Init => SInv
<1> SUFFICES ASSUME Init PROVE SInv
  OBVIOUS
<1>1. \A e \in Executors : exec[e].pc = "idle"
  BY DEF Init, NoExec
<1>2. ASSUME NEW d \in Reports
      PROVE  IsFiniteSet(Creating(d)) /\ Cardinality(Creating(d)) <= scans[d].processing
  <2>1. Creating(d) = {}
    BY <1>1 DEF Creating
  <2> QED BY <2>1, FS_EmptySet DEF Init
<1> QED BY <1>1, <1>2 DEF Init, SInv, ScansOK, Counted, FoundOK, Finds, ProcessedIsScanned, NoJob

LEMMA HandleKeepsScans == ASSUME IInv, SInv, NEW q \in Requests, Handle(q) PROVE SInv'
<1> USE DEF SInv
<1>1. \A e \in Executors : \/ exec'[e] = exec[e]
                           \/ exec'[e].pc \in {"idle", "start"}
  <2>1. NoExec.pc = "idle" /\ Begin(Of(q)).pc = "start"
    BY DEF NoExec, Begin
  <2>2. \A e \in Executors : exec'[e] = exec[e] \/ exec'[e] = NoExec \/ exec'[e] = Begin(Of(q))
    BY HandleStep
  <2> QED BY <2>1, <2>2
<1>2. \A e \in Executors : exec'[e].pc \in Finds =>
                             Found(exec[e].d) /\ exec'[e].d = exec[e].d
  BY <1>1 DEF FoundOK, Finds
<1>3. \A d \in Reports : delivery'[d] = "processed" => delivery[d] = "processed"
  BY RequestOf DEF Handle, Claim, Reclaim, Enqueue, EnqueueFails, MarkQueued, RequestDies,
                   FallbackDone, IInv, BaseOK
<1>4. \A d \in Reports : job'[d].state = "completed" => job[d].state = "completed"
  BY HandleStep DEF NewJob
<1>5. \A d \in Reports : delivery'[d] = "processed" \/ job'[d].state = "completed" => Found(d)
  BY <1>3, <1>4 DEF ProcessedIsScanned, Found
<1> QED BY <1>1, <1>2, <1>5, HandleStep, ScansKept

LEMMA SlotKeepsScans ==
    ASSUME SInv, NEW w \in Workers, NEW d \in Reports, SlotMoves(w, d) PROVE SInv'
<1> USE DEF SInv, SlotMoves
<1>1. \A e \in Executors : \/ exec'[e] = exec[e]
                           \/ exec'[e].pc \in {"idle", "start"}
  BY DEF Starts, Ends, NoExec, Begin
<1>2. \A e \in Executors : exec'[e].pc \in Finds =>
                             Found(exec[e].d) /\ exec'[e].d = exec[e].d
  BY <1>1 DEF FoundOK, Finds
<1>3. job'[d].state = "completed" => job[d].state = "completed" \/ Found(d)
  BY Apart DEF Starts, Ends, FoundOK, Finds
<1>4. \A c \in Reports : delivery'[c] = "processed" \/ job'[c].state = "completed" => Found(c)
  BY <1>3 DEF ProcessedIsScanned, Found
<1> QED BY <1>1, <1>2, <1>4, ScansKept

LEMMA StallKeepsScans == ASSUME SInv, NEW d \in Reports, LockRanOut(d) PROVE SInv'
<1> USE DEF SInv, LockRanOut
<1>1. \A e \in Executors : exec'[e].pc \in Finds =>
                             Found(exec[e].d) /\ exec'[e].d = exec[e].d
  BY DEF FoundOK
<1>2. \A c \in Reports : delivery'[c] = "processed" \/ job'[c].state = "completed" => Found(c)
  BY DEF ProcessedIsScanned, Found
<1> QED BY <1>1, <1>2, ScansKept

LEMMA ProcessKeepsScans ==
    ASSUME IInv, SInv, NEW e \in Executors, Process(e)
    PROVE  SInv' /\ \A c \in Reports : Found(c) => Found(c)'
<1> USE DEF SInv
<1>1. PICK d \in Reports : /\ d = exec[e].d /\ exec'[e].d = d
                           /\ \A f \in Executors : f # e => exec'[f] = exec[f]
                           /\ UNCHANGED <<env, job>>
  BY ProcessStep
<1>2. exec[e] \in Execs /\ scans[d] \in [processing : Nat, completed : Nat, gated : Nat]
  BY <1>1 DEF IInv, BaseOK, ScansOK
<1>3. IsFiniteSet(Creating(d)) /\ Cardinality(Creating(d)) <= scans[d].processing
      /\ Cardinality(Creating(d)) \in Nat
  BY <1>1, FS_CardinalityType DEF Counted
<1>4. CASE CommitScan(e)
  <2>1. exec'[e].pc = "stored" /\ UNCHANGED <<delivery, job>>
    BY <1>4, <1>2 DEF CommitScan, GoTo, IInv, BaseOK
  <2>2. /\ ScansOK' /\ \A c \in Reports : c # d => scans'[c] = scans[c]
        /\ scans'[d].processing = scans[d].processing
        /\ scans'[d].completed = scans[d].completed + 1
    BY <1>1, <1>2, <1>4 DEF CommitScan, ScansOK
  <2>3. Found(d)'
    BY <1>2, <2>2 DEF Found
  <2>4. \A f \in Executors :
           exec'[f].pc = "created" => exec[f].pc = "created" /\ exec'[f].d = exec[f].d
    BY <1>1, <2>1
  <2>5. IsFiniteSet(Creating(d)') /\ Cardinality(Creating(d)') <= scans'[d].processing
    BY <1>1, <2>2, <2>4, CreatingShrinks
  <2>6. env.transactions => scans'[d].processing = 0 /\ exec'[e].pc # "created"
    BY <1>1, <2>1, <2>2 DEF FoundOK
  <2> QED BY <1>1, <2>1, <2>2, <2>3, <2>5, <2>6, ScansGrow
<1>5. CASE CreateScan(e)
  <2>1. /\ exec'[e].pc = "created" /\ exec[e].pc = "parse" /\ ~env.transactions
        /\ UNCHANGED <<delivery, job>>
    BY <1>5, <1>2 DEF CreateScan, GoTo, IInv, BaseOK
  <2>2. /\ ScansOK' /\ \A c \in Reports : c # d => scans'[c] = scans[c]
        /\ scans'[d].processing = scans[d].processing + 1
    BY <1>1, <1>2, <1>5 DEF CreateScan, ScansOK
  <2>3. Found(d)'
    BY <1>1, <1>2, <2>1, <2>2 DEF Found
  <2>4. Creating(d)' = Creating(d) \cup {e} /\ e \notin Creating(d)
    BY <1>1, <2>1 DEF Creating
  <2>5. IsFiniteSet(Creating(d)') /\ Cardinality(Creating(d)') = Cardinality(Creating(d)) + 1
    BY <1>3, <2>4, FS_AddElement
  <2>6. IsFiniteSet(Creating(d)') /\ Cardinality(Creating(d)') <= scans'[d].processing
    BY <1>2, <1>3, <2>2, <2>5
  <2> QED BY <1>1, <2>1, <2>2, <2>3, <2>6, ScansGrow
<1>6. CASE CompleteScan(e)
  <2>1. /\ exec'[e].pc = "stored" /\ exec[e].pc = "created" /\ ~env.transactions
        /\ UNCHANGED <<delivery, job>>
    BY <1>6, <1>2 DEF CompleteScan, GoTo, IInv, BaseOK, FoundOK
  <2>2. Creating(d)' = Creating(d) \ {e} /\ e \in Creating(d)
    BY <1>1, <2>1 DEF Creating
  <2>3. IsFiniteSet(Creating(d)') /\ Cardinality(Creating(d)') = Cardinality(Creating(d)) - 1
    BY <1>3, <2>2, FS_RemoveElement
  <2>4. Cardinality(Creating(d)') \in Nat
    BY <2>3, FS_CardinalityType
  <2>5. scans[d].processing - 1 \in Nat
    BY <1>2, <1>3, <2>3, <2>4
  <2>6. /\ ScansOK' /\ \A c \in Reports : c # d => scans'[c] = scans[c]
        /\ scans'[d].processing = scans[d].processing - 1
        /\ scans'[d].completed = scans[d].completed + 1
    BY <1>1, <1>2, <1>6, <2>5 DEF CompleteScan, ScansOK
  <2>7. Found(d)'
    BY <1>2, <2>6 DEF Found
  <2>8. IsFiniteSet(Creating(d)') /\ Cardinality(Creating(d)') <= scans'[d].processing
    BY <1>2, <1>3, <2>3, <2>6
  <2> QED BY <1>1, <2>1, <2>6, <2>7, <2>8, ScansGrow
<1>7. CASE Evaluate(e)
  <2>1. /\ ScansOK' /\ \A c \in Reports : /\ scans'[c].processing = scans[c].processing
                                         /\ scans'[c].completed = scans[c].completed
    BY <1>1, <1>2, <1>7 DEF Evaluate, ScansOK
  <2>2. /\ exec'[e].pc = "return" /\ exec[e].pc = "processed" /\ UNCHANGED delivery
    BY <1>7, <1>2 DEF Evaluate, GoTo, IInv, BaseOK
  <2>3. \A f \in Executors :
           /\ exec'[f].pc = "created" => exec[f].pc = "created" /\ exec'[f].d = exec[f].d
           /\ exec'[f].pc \in Finds => exec[f].pc \in Finds /\ exec'[f].d = exec[f].d
           /\ exec[f].pc \in Finds => exec[f].d \in Reports
    BY <1>1, <2>2, RunsReport DEF Finds
  <2>4. Counted'
    BY <2>1, <2>3, CreatingShrinks DEF Counted
  <2>5. FoundOK' /\ ProcessedIsScanned'
    BY <1>1, <2>1, <2>2, <2>3 DEF FoundOK, ProcessedIsScanned, Found
  <2> QED BY <1>1, <2>1, <2>4, <2>5 DEF Found
<1>8. CASE /\ UNCHANGED scans
           /\ ~(CommitScan(e) \/ CreateScan(e) \/ CompleteScan(e) \/ Evaluate(e))
  <2>1. /\ exec'[e].pc # "created"
        /\ exec'[e].pc \in Finds => Found(d)
        /\ delivery'[d] = "processed" => delivery[d] = "processed" \/ Found(d)
    <3>1. CASE MarkProcessing(e) \/ Throws(e) \/ MarkFailed(e)
      BY <1>1, <1>2, <3>1
         DEF MarkProcessing, Throws, MarkFailed, GoTo, Mark, IInv, BaseOK, Execs, Finds
    <3>2. CASE FindScan(e)
      BY <1>1, <1>2, <3>2 DEF FindScan, GoTo, IInv, BaseOK, Finds, Found, FoundOK
    <3>3. CASE SkipDuplicate(e) \/ MarkProcessed(e) \/ EvaluateFails(e)
      <4>1. exec[e].pc \in Finds /\ exec'[e].pc # "created"
        BY <1>2, <3>3 DEF SkipDuplicate, MarkProcessed, EvaluateFails, GoTo, IInv, BaseOK, Execs, Finds
      <4> QED BY <1>1, <4>1 DEF FoundOK
    <3> QED BY <1>8, <3>1, <3>2, <3>3 DEF Process
  <2>2. \A f \in Executors :
           /\ exec'[f].pc = "created" => exec[f].pc = "created" /\ exec'[f].d = exec[f].d
           /\ exec'[f].pc \in Finds => Found(exec[f].d) /\ exec'[f].d = exec[f].d
    BY <1>1, <2>1 DEF FoundOK
  <2>3. \A c \in Reports : delivery'[c] = "processed" \/ job'[c].state = "completed" => Found(c)
    BY <1>1, <2>1, ProcessStep DEF ProcessedIsScanned, Found
  <2>4. SInv'
    BY <1>1, <1>8, <2>2, <2>3, ScansKept
  <2> QED BY <1>1, <1>8, <2>4 DEF Found
<1>9. UNCHANGED scans \/ CommitScan(e) \/ CreateScan(e) \/ CompleteScan(e) \/ Evaluate(e)
  BY DEF Process, MarkProcessing, FindScan, SkipDuplicate, MarkProcessed, EvaluateFails, Throws,
         MarkFailed
<1> QED BY <1>4, <1>5, <1>6, <1>7, <1>8, <1>9

LEMMA SInvNext == IInv /\ SInv /\ [Next]_vars => SInv'
<1> SUFFICES ASSUME IInv, SInv, [Next]_vars PROVE SInv'
  OBVIOUS
<1>1. CASE UNCHANGED vars
  BY <1>1 DEF vars, SInv, ScansOK, Counted, Creating, FoundOK, Found, ProcessedIsScanned
<1> QED BY <1>1, Kinds, HandleKeepsScans, SlotKeepsScans, StallKeepsScans, ProcessKeepsScans

THEOREM ScansInvariance == Spec => []SInv
  BY IInvInit, IInvNext, SInvInit, SInvNext, PTL DEF Spec

\* Every variable keeps its type: above all, no scan is completed that was not
\* begun, and no job is tried more often than its attempts allow.
THEOREM TypeCorrect == Spec => []TypeOK
<1>1. IInv /\ SInv => TypeOK
  BY DEF IInv, BaseOK, SInv, ScansOK, TypeOK
<1> QED BY <1>1, Invariance, ScansInvariance, PTL

\* A delivery shown as processed, and a job listed as completed, has a scan.
THEOREM ProcessedHasScan == Spec => []ProcessedIsScanned
<1>1. SInv => ProcessedIsScanned
  BY DEF SInv
<1> QED BY <1>1, ScansInvariance, PTL

-----------------------------------------------------------------------------
(***************************************************************************)
(* One scan for each report: the third layer.  In production only slots    *)
(* run reports, and one slot has a job as long as its lock never ran out;  *)
(* outside, a report without a job is run by the request that holds the    *)
(* claim.  Either way whoever is about to write the scan is alone.         *)
(***************************************************************************)

Total(d) == scans[d].processing + scans[d].completed

\* Nobody may run a report beside another: the hypothesis of OneScanPerReport.
Single(d) == job[d].stalls = 0 /\ (env.production \/ job[d] = NoJob)

Solo ==
    \A v, w \in Workers :
        exec[v].pc # "idle" /\ job[exec[v].d].stalls = 0
        => /\ job[exec[v].d].state # "waiting"
           /\ exec[w].pc # "idle" /\ exec[v].d = exec[w].d => v = w

\* The request has the claim, or runs the report on the strength of it.
Holds(q) ==
    \/ request[q] = "claimed"
    \/ request[q] = "fallback" /\ exec[q].pc \notin {"idle", "throw"}

HolderOK ==
    \A q, r \in Requests :
        Holds(q) /\ job[Of(q)] = NoJob
        => /\ delivery[Of(q)] \notin {"none", "failed"}
           /\ Holds(r) /\ Of(r) = Of(q) => q = r

ScanOnce ==
    \A d \in Reports :
        Single(d) => /\ Total(d) <= 1
                     /\ \A e \in Executors :
                           exec[e].pc = "parse" /\ exec[e].d = d => Total(d) = 0

OInv == Solo /\ HolderOK /\ ScanOnce

LEMMA Alone ==
    ASSUME IInv, OInv, NEW d \in Reports, Single(d), NEW e \in Executors, NEW f \in Executors,
           exec[e].d = d, exec[e].pc \notin {"idle", "throw"},
           exec[f].d = d, exec[f].pc \notin {"idle", "throw"}
    PROVE  e = f
<1> USE DEF IInv, OInv
<1>1. CASE env.production
  BY <1>1 DEF OwnJob, Solo, Single, Executors
<1>2. CASE job[d] = NoJob
  <2>1. /\ e \in Requests /\ Holds(e) /\ Of(e) = d
        /\ f \in Requests /\ Holds(f) /\ Of(f) = d
    BY <1>2 DEF OwnJob, Holds, Executors
  <2> QED BY <1>2, <2>1 DEF HolderOK
<1> QED BY <1>1, <1>2 DEF Single

LEMMA OInvInit == Init => OInv
<1> SUFFICES ASSUME Init PROVE OInv
  OBVIOUS
<1>1. Solo /\ HolderOK
  BY Apart DEF Init, NoExec, Solo, HolderOK, Holds
<1>2. ScanOnce
  BY DEF Init, NoExec, ScanOnce, Total
<1> QED BY <1>1, <1>2 DEF OInv

\* A step that writes no scan, and lets nobody be about to write one.
LEMMA OnceKept ==
    ASSUME IInv, ScanOnce, UNCHANGED <<env, scans>>,
           \A c \in Reports : /\ job'[c].stalls = 0 => job[c].stalls = 0
                              /\ job'[c] = NoJob => job[c] = NoJob,
           \A e \in Executors :
               exec'[e].pc = "parse" => exec[e].pc = "parse" /\ exec'[e].d = exec[e].d
    PROVE  ScanOnce'
  BY DEF ScanOnce, Single, Total

LEMMA HandleKeepsOnce == ASSUME IInv, OInv, NEW q \in Requests, Handle(q) PROVE OInv'
<1> USE DEF OInv
<1>1. /\ Of(q) \in Reports /\ UNCHANGED <<env, scans>>
      /\ \A r \in Requests : r # q => request'[r] = request[r]
      /\ \A e \in Executors : e # q => exec'[e] = exec[e]
      /\ exec'[q] = exec[q] \/ exec'[q] = NoExec \/ exec'[q] = Begin(Of(q))
      /\ \A c \in Reports : c # Of(q) => delivery'[c] = delivery[c]
      /\ \A c \in Reports : job'[c] = job[c] \/ (c = Of(q) /\ job[c] = NoJob /\ job'[c] = NewJob)
  BY HandleStep, RequestOf
<1>2. NoExec.pc = "idle" /\ Begin(Of(q)).pc = "start"
  BY DEF NoExec, Begin
<1>3. NewJob # NoJob /\ NewJob.stalls = 0 /\ NoJob.stalls = 0
  BY DEF NewJob, NoJob
<1>4. ScanOnce'
  <2>1. \A e \in Executors : exec'[e].pc = "parse" => exec'[e] = exec[e]
    BY <1>1, <1>2
  <2>2. \A c \in Reports : /\ job'[c].stalls = 0 => job[c].stalls = 0
                           /\ job'[c] = NoJob => job[c] = NoJob
    BY <1>1, <1>3
  <2> QED BY <1>1, <2>1, <2>2, OnceKept
<1>5. Solo'
  <2>1. \A w \in Workers : exec'[w] = exec[w]
    BY <1>1, Apart
  <2>2. \A w \in Workers : exec[w].pc # "idle" => job'[exec[w].d] = job[exec[w].d]
    BY <1>1 DEF IInv, OwnJob
  <2> QED BY <2>1, <2>2 DEF Solo
<1>6. Holds(q)' /\ job'[Of(q)] = NoJob
        => /\ delivery'[Of(q)] \notin {"none", "failed"}
           /\ Holds(q) \/ delivery[Of(q)] \in {"none", "failed"}
  <2>1. CASE Claim(q) \/ Reclaim(q)
    BY <1>1, <2>1 DEF Claim, Reclaim, Answer, Holds, IInv, BaseOK
  <2>2. CASE EnqueueFails(q)
    <3>1. Holds(q) /\ job'[Of(q)] = job[Of(q)] /\ delivery' = delivery
      BY <2>2 DEF EnqueueFails, Holds
    <3> QED BY <3>1 DEF HolderOK
  <2>3. CASE Enqueue(q) \/ MarkQueued(q) \/ RequestDies(q) \/ FallbackDone(q)
    <3>1. request'[q] \in {"enqueued", "accepted", "error"}
      BY <2>3 DEF Enqueue, MarkQueued, RequestDies, FallbackDone, Answer, IInv, BaseOK
    <3> QED BY <3>1 DEF Holds
  <2> QED BY <2>1, <2>2, <2>3 DEF Handle
<1>7. \A c \in Reports : \/ delivery[c] \in {"none", "failed"} /\ c = Of(q)
                         \/ delivery'[c] = delivery[c]
                         \/ delivery'[c] \notin {"none", "failed"}
  BY <1>1 DEF Handle, Claim, Reclaim, Enqueue, EnqueueFails, MarkQueued, RequestDies,
              FallbackDone, IInv, BaseOK
<1>8. \A r \in Requests : r # q => (Holds(r)' <=> Holds(r))
  BY <1>1, Apart DEF Holds
<1>9. \A r \in Requests : job'[Of(r)] = NoJob => job[Of(r)] = NoJob
  BY <1>1, <1>3, RequestOf
<1>10. HolderOK'
  <2>1. ASSUME NEW r \in Requests, Holds(r)', job'[Of(r)] = NoJob
        PROVE  /\ delivery'[Of(r)] \notin {"none", "failed"}
               /\ \A s \in Requests : Holds(s)' /\ Of(s) = Of(r) => r = s
    <3>1. CASE r = q
      BY <1>6, <1>8, <1>9, <2>1, <3>1 DEF HolderOK
    <3>2. CASE r # q
      BY <1>6, <1>7, <1>8, <1>9, <2>1, <3>2, RequestOf DEF HolderOK
    <3> QED BY <3>1, <3>2
  <2> QED BY <2>1 DEF HolderOK
<1> QED BY <1>4, <1>5, <1>10

LEMMA SlotKeepsOnce ==
    ASSUME IInv, OInv, NEW w \in Workers, NEW d \in Reports, SlotMoves(w, d) PROVE OInv'
<1> USE DEF OInv, SlotMoves
<1>1. /\ \A e \in Executors : e # w => exec'[e] = exec[e]
      /\ exec'[w].pc \in {"idle", "start"}
      /\ exec'[w].pc # "idle" => exec'[w].d = d /\ job[d].state = "waiting"
                                 /\ job'[d].state = "active"
  BY DEF Starts, Ends, NoExec, Begin
<1>2. ScanOnce'
  BY <1>1, OnceKept
<1>3. HolderOK'
  <2>1. \A q \in Requests : exec'[q] = exec[q]
    BY <1>1, Apart
  <2>2. \A q \in Requests : job'[Of(q)] = NoJob => job[Of(q)] = NoJob
    BY RequestOf
  <2> QED BY <2>1, <2>2 DEF HolderOK, Holds
<1>4. Solo'
  <2>1. \A v \in Workers : v # w => exec'[v] = exec[v]
    BY <1>1, Apart
  <2>2. ASSUME NEW v \in Workers, v # w, exec[v].pc # "idle", exec[v].d = d, job[d].stalls = 0
        PROVE  exec'[w].pc = "idle" /\ exec[w].pc # "idle" /\ exec[w].d = d
    BY <1>1, <2>2 DEF Starts, Ends, Solo
  <2>3. \A v \in Workers : v # w /\ exec[v].pc # "idle" /\ exec[v].d = d => job[d].stalls # 0
    BY <2>2 DEF Solo
  <2>4. \A v \in Workers : v # w /\ exec[v].pc # "idle" /\ exec[v].d # d
                             => job'[exec[v].d] = job[exec[v].d]
    BY DEF IInv, OwnJob
  <2> QED BY <1>1, <2>1, <2>3, <2>4 DEF Solo
<1> QED BY <1>2, <1>3, <1>4

LEMMA StallKeepsOnce ==
    ASSUME IInv, OInv, NEW d \in Reports, LockRanOut(d) PROVE OInv'
<1> USE DEF OInv, LockRanOut
<1>1. ScanOnce'
  BY OnceKept
<1>2. HolderOK'
  <2>1. \A q \in Requests : job'[Of(q)] = NoJob => job[Of(q)] = NoJob
    BY RequestOf
  <2> QED BY <2>1, Apart DEF HolderOK, Holds
<1>3. Solo'
  <2>1. \A c \in Reports : /\ job'[c].stalls = 0 => job[c].stalls = 0
                           /\ job'[c].stalls = 0 /\ job'[c].state = "waiting"
                                => job[c].state = "waiting"
    OBVIOUS
  <2>2. \A v \in Workers : exec[v].pc # "idle" => exec[v].d \in Reports
    BY DEF IInv, OwnJob
  <2> QED BY <2>1, <2>2, Apart DEF Solo
<1> QED BY <1>1, <1>2, <1>3

\* What the processor does to the number of scans of its report: only the step
\* that ends "parse" adds one, and "parse" is reached only where there is none.
LEMMA ScanSteps ==
    ASSUME IInv, SInv, NEW e \in Executors, NEW d \in Reports, d = exec[e].d, Process(e)
    PROVE  /\ \A c \in Reports : c # d => Total(c)' = Total(c)
           /\ Total(d) \in Nat
           /\ \/ Total(d)' = Total(d)
              \/ exec[e].pc = "parse" /\ Total(d)' = Total(d) + 1
           /\ exec'[e].pc = "parse" => Total(d)' = 0
<1>1. exec[e] \in Execs /\ scans[d] \in [processing : Nat, completed : Nat, gated : Nat]
  BY DEF IInv, BaseOK, SInv, ScansOK
<1>2. CASE CommitScan(e) \/ CreateScan(e)
  <2>1. exec'[e].pc # "parse" /\ exec[e].pc = "parse"
    BY <1>1, <1>2 DEF CommitScan, CreateScan, GoTo, IInv, BaseOK, Execs
  <2>2. /\ \A c \in Reports : c # d => Total(c)' = Total(c)
        /\ Total(d) \in Nat /\ Total(d)' = Total(d) + 1
    <3>1. /\ \A c \in Reports : c # d => scans'[c] = scans[c]
          /\ scans'[d].processing + scans'[d].completed
               = scans[d].processing + scans[d].completed + 1
      <4>1. CASE CommitScan(e)
        BY <1>1, <4>1 DEF CommitScan, SInv, ScansOK
      <4>2. CASE CreateScan(e)
        BY <1>1, <4>2 DEF CreateScan, SInv, ScansOK
      <4> QED BY <1>2, <4>1, <4>2
    <3> QED BY <1>1, <3>1 DEF Total
  <2> QED BY <2>1, <2>2
<1>3. CASE CompleteScan(e) \/ Evaluate(e)
  <2>1. exec'[e].pc # "parse"
    BY <1>1, <1>3 DEF CompleteScan, Evaluate, GoTo, IInv, BaseOK, Execs
  <2>2. /\ \A c \in Reports : Total(c)' = Total(c)
        /\ Total(d) \in Nat
    BY <1>1, <1>3 DEF CompleteScan, Evaluate, SInv, ScansOK, Total
  <2> QED BY <2>1, <2>2
<1>4. CASE UNCHANGED scans /\ ~(CommitScan(e) \/ CreateScan(e) \/ CompleteScan(e) \/ Evaluate(e))
  <2>1. Total(d) \in Nat /\ \A c \in Reports : Total(c)' = Total(c)
    BY <1>1, <1>4 DEF Total
  <2>2. exec'[e].pc = "parse" => Total(d) = 0
    <3>1. CASE FindScan(e)
      <4>1. exec'[e].pc = "parse" => ~(scans[d].processing + scans[d].completed > 0)
        BY <1>1, <3>1 DEF FindScan, GoTo, IInv, BaseOK, Execs
      <4> QED BY <1>1, <4>1 DEF Total
    <3>2. CASE MarkProcessing(e) \/ SkipDuplicate(e) \/ MarkProcessed(e)
      BY <1>1, <3>2 DEF MarkProcessing, SkipDuplicate, MarkProcessed, GoTo, IInv, BaseOK, Execs
    <3>3. CASE EvaluateFails(e) \/ Throws(e) \/ MarkFailed(e)
      BY <1>1, <3>3 DEF EvaluateFails, Throws, MarkFailed, GoTo, IInv, BaseOK, Execs
    <3> QED BY <1>4, <3>1, <3>2, <3>3 DEF Process
  <2> QED BY <2>1, <2>2
<1>5. UNCHANGED scans \/ CommitScan(e) \/ CreateScan(e) \/ CompleteScan(e) \/ Evaluate(e)
  BY DEF Process, MarkProcessing, FindScan, SkipDuplicate, MarkProcessed, EvaluateFails, Throws,
         MarkFailed
<1> QED BY <1>2, <1>3, <1>4, <1>5

LEMMA ProcessKeepsOnce ==
    ASSUME IInv, SInv, OInv, NEW e \in Executors, Process(e) PROVE OInv'
<1> USE DEF OInv
<1>1. PICK d \in Reports : d = exec[e].d
  BY ProcessStep
<1>2. /\ UNCHANGED <<env, job, request>> /\ exec[e].pc \notin {"idle", "throw"}
      /\ \A f \in Executors : f # e => exec'[f] = exec[f]
      /\ exec'[e].d = d /\ exec'[e].pc # "idle"
      /\ \A c \in Reports : c # d => delivery'[c] = delivery[c]
      /\ delivery'[d] # "none"
  BY <1>1, ProcessStep
<1>3. Solo'
  <2>1. \A w \in Workers : /\ exec'[w].pc # "idle" <=> exec[w].pc # "idle"
                           /\ exec'[w].d = exec[w].d
    BY <1>1, <1>2, Apart
  <2> QED BY <1>2, <2>1 DEF Solo
<1>4. ScanOnce'
  <2>1. /\ \A c \in Reports : c # d => Total(c)' = Total(c)
        /\ Total(d) \in Nat
        /\ \/ Total(d)' = Total(d)
           \/ exec[e].pc = "parse" /\ Total(d)' = Total(d) + 1
        /\ exec'[e].pc = "parse" => Total(d)' = 0
    BY <1>1, ScanSteps
  <2>2. ASSUME NEW c \in Reports, Single(c)', c # d
        PROVE  /\ Total(c)' <= 1
               /\ \A f \in Executors : exec'[f].pc = "parse" /\ exec'[f].d = c => Total(c)' = 0
    BY <1>2, <2>1, <2>2 DEF ScanOnce, Single
  <2>3. ASSUME Single(d)'
        PROVE  /\ Total(d)' <= 1
               /\ \A f \in Executors : exec'[f].pc = "parse" /\ exec'[f].d = d => Total(d)' = 0
    <3>1. Single(d)
      BY <1>2, <2>3 DEF Single
    <3>2. /\ Total(d) <= 1
          /\ \A f \in Executors : exec[f].pc = "parse" /\ exec[f].d = d => Total(d) = 0
      BY <3>1 DEF ScanOnce
    <3>3. Total(d)' <= 1
      BY <1>1, <2>1, <3>2
    <3>4. ASSUME NEW f \in Executors, f # e, exec[f].pc = "parse", exec[f].d = d PROVE FALSE
      BY <1>1, <1>2, <3>1, <3>4, Alone
    <3> QED BY <1>2, <2>1, <3>3, <3>4
  <2>4. ASSUME NEW c \in Reports, Single(c)'
        PROVE  /\ Total(c)' <= 1
               /\ \A f \in Executors : exec'[f].pc = "parse" /\ exec'[f].d = c => Total(c)' = 0
    BY <2>2, <2>3, <2>4
  <2> QED BY <2>4 DEF ScanOnce
<1>5. \A q \in Requests : Holds(q)' => Holds(q)
  BY <1>2, Apart DEF Holds
<1>6. delivery'[d] = "failed" => delivery[d] = "failed" \/ exec'[e].pc = "throw"
  BY <1>1, <1>2 DEF Process, MarkProcessing, FindScan, SkipDuplicate, CommitScan, CreateScan,
         CompleteScan, MarkProcessed, Evaluate, EvaluateFails, Throws, MarkFailed, GoTo, Mark,
         IInv, BaseOK, Execs
<1>7. HolderOK'
  <2>1. ASSUME NEW q \in Requests, Holds(q)', job'[Of(q)] = NoJob
        PROVE  /\ delivery'[Of(q)] \notin {"none", "failed"}
               /\ \A r \in Requests : Holds(r)' /\ Of(r) = Of(q) => q = r
    <3>1. Holds(q) /\ job[Of(q)] = NoJob
      BY <1>2, <1>5, <2>1
    <3>2. /\ delivery[Of(q)] \notin {"none", "failed"}
          /\ \A r \in Requests : Holds(r) /\ Of(r) = Of(q) => q = r
      BY <3>1 DEF HolderOK
    <3>3. delivery'[Of(q)] \notin {"none", "failed"}
      <4>1. CASE Of(q) # d
        BY <1>2, <3>2, <4>1, RequestOf
      <4>2. CASE Of(q) = d
        <5>1. e \in Requests /\ request[e] = "fallback" /\ Of(e) = d
          BY <1>1, <1>2, <3>1, <4>2 DEF IInv, OwnJob, Executors
        <5>2. e = q
          BY <1>2, <3>2, <4>2, <5>1 DEF Holds
        <5>3. exec'[e].pc # "throw"
          BY <1>2, <2>1, <5>1, <5>2 DEF Holds
        <5> QED BY <1>2, <1>6, <3>2, <4>2, <5>3
      <4> QED BY <4>1, <4>2
    <3> QED BY <1>5, <3>2, <3>3
  <2> QED BY <2>1 DEF HolderOK
<1> QED BY <1>3, <1>4, <1>7

LEMMA OInvNext == IInv /\ SInv /\ OInv /\ [Next]_vars => OInv'
<1> SUFFICES ASSUME IInv, SInv, OInv, [Next]_vars PROVE OInv'
  OBVIOUS
<1>1. CASE UNCHANGED vars
  BY <1>1 DEF vars, OInv, Solo, HolderOK, Holds, ScanOnce, Single, Total
<1> QED BY <1>1, Kinds, HandleKeepsOnce, SlotKeepsOnce, StallKeepsOnce, ProcessKeepsOnce

THEOREM OnceInvariance == Spec => []OInv
  BY IInvInit, IInvNext, SInvInit, SInvNext, OInvInit, OInvNext, PTL DEF Spec

\* A report becomes one scan unless its job lost its lock or ran beside a
\* fallback, however often it is sent, claimed and retried.
THEOREM ScannedOnce == Spec => []OneScanPerReport
<1>1. OInv => OneScanPerReport
  BY DEF OInv, ScanOnce, Single, Total, OneScanPerReport
<1> QED BY <1>1, OnceInvariance, PTL

-----------------------------------------------------------------------------
(***************************************************************************)
(* No answered sender loses its report: the fourth layer.  A delivery that *)
(* is neither failed nor scanned nor queued is in the hands of a request,  *)
(* or was left behind by one that ended in an error.                       *)
(***************************************************************************)

NotLost ==
    \A d \in Reports :
        delivery[d] \notin {"none", "failed"} /\ job[d] = NoJob /\ ~Found(d)
        => \E q \in Requests : Of(q) = d /\ request[q] \in {"claimed", "fallback", "error"}

EnqueuedOK == \A q \in Requests : request[q] = "enqueued" => job[Of(q)] # NoJob \/ Found(Of(q))

LInv == NotLost /\ EnqueuedOK

LEMMA LInvInit == Init => LInv
  BY DEF Init, LInv, NotLost, EnqueuedOK

\* A step that writes no delivery, but perhaps a job or a scan.
LEMMA NothingLost ==
    ASSUME LInv, UNCHANGED request,
           \A c \in Reports : /\ job'[c] = NoJob => job[c] = NoJob
                              /\ Found(c) => Found(c)'
                              /\ delivery'[c] \notin {"none", "failed"}
                                   => delivery[c] \notin {"none", "failed"} \/ Found(c)
    PROVE  LInv'
<1> USE DEF LInv
<1>1. EnqueuedOK'
  <2>1. ASSUME NEW q \in Requests, request'[q] = "enqueued"
        PROVE  job'[Of(q)] # NoJob \/ Found(Of(q))'
    <3>1. PICK c \in Reports : c = Of(q)
      BY RequestOf
    <3>2. job[c] # NoJob \/ Found(c)
      BY <2>1, <3>1 DEF EnqueuedOK
    <3> QED BY <3>1, <3>2
  <2> QED BY <2>1 DEF EnqueuedOK
<1>2. NotLost'
  BY DEF NotLost
<1> QED BY <1>1, <1>2

LEMMA HandleKeeps == ASSUME IInv, SInv, LInv, NEW q \in Requests, Handle(q) PROVE LInv'
<1> USE DEF LInv
<1>1. PICK d \in Reports : d = Of(q)
  BY RequestOf
<1>2. /\ UNCHANGED <<env, scans>>
      /\ \A r \in Requests : r # q => request'[r] = request[r]
      /\ \A c \in Reports : c # d => delivery'[c] = delivery[c]
      /\ \A c \in Reports : job'[c] = job[c] \/ (c = Of(q) /\ job[c] = NoJob /\ job'[c] = NewJob)
  BY <1>1, HandleStep
<1>3. \A c \in Reports : /\ job'[c] = NoJob => job[c] = NoJob
                         /\ Found(c)' <=> Found(c)
  BY <1>2 DEF NewJob, NoJob, Found
<1>4. request'[q] = "enqueued" => job'[d] # NoJob \/ Found(d)
  <2>1. CASE Enqueue(q)
    BY <1>1, <2>1 DEF Enqueue, Add, NewJob, NoJob, IInv, BaseOK
  <2>2. CASE FallbackDone(q)
    <3>1. request'[q] = "enqueued" => exec[q].pc = "return" /\ exec[q].d = d
      BY <1>1, <2>2 DEF FallbackDone, Answer, IInv, BaseOK, OwnJob
    <3> QED BY <3>1, Apart DEF SInv, FoundOK, Finds
  <2>3. CASE Claim(q) \/ Reclaim(q) \/ EnqueueFails(q) \/ MarkQueued(q) \/ RequestDies(q)
    BY <2>3 DEF Claim, Reclaim, EnqueueFails, MarkQueued, RequestDies, Answer, IInv, BaseOK
  <2> QED BY <2>1, <2>2, <2>3 DEF Handle
<1>5. \/ request'[q] \in {"claimed", "fallback", "error"}
      \/ job'[d] # NoJob \/ Found(d)
      \/ /\ request[q] \notin {"claimed", "fallback", "error"}
         /\ delivery'[d] = delivery[d]
  <2>1. CASE Claim(q) \/ Reclaim(q)
    BY <1>1, <2>1 DEF Claim, Reclaim, Answer, IInv, BaseOK
  <2>2. CASE Enqueue(q) \/ FallbackDone(q)
    <3>1. request'[q] \in {"enqueued", "error"}
      BY <2>2 DEF Enqueue, FallbackDone, Answer, IInv, BaseOK
    <3> QED BY <1>4, <3>1
  <2>3. CASE MarkQueued(q)
    <3>1. job[d] # NoJob \/ Found(d)
      BY <1>1, <2>3 DEF MarkQueued, EnqueuedOK
    <3> QED BY <1>3, <3>1
  <2>4. CASE EnqueueFails(q) \/ RequestDies(q)
    BY <2>4 DEF EnqueueFails, RequestDies, Answer, IInv, BaseOK
  <2> QED BY <2>1, <2>2, <2>3, <2>4 DEF Handle
<1>6. EnqueuedOK'
  <2>1. ASSUME NEW r \in Requests, request'[r] = "enqueued"
        PROVE  job'[Of(r)] # NoJob \/ Found(Of(r))'
    <3>1. PICK c \in Reports : c = Of(r)
      BY RequestOf
    <3>2. CASE r = q
      BY <1>1, <1>3, <1>4, <2>1, <3>1, <3>2
    <3>3. CASE r # q
      <4>1. job[c] # NoJob \/ Found(c)
        BY <1>2, <2>1, <3>1, <3>3 DEF EnqueuedOK
      <4> QED BY <1>3, <3>1, <4>1
    <3> QED BY <3>2, <3>3
  <2> QED BY <2>1 DEF EnqueuedOK
<1>7. NotLost'
  <2>1. ASSUME NEW c \in Reports, delivery'[c] \notin {"none", "failed"}, job'[c] = NoJob, ~Found(c)'
        PROVE  \E r \in Requests : Of(r) = c /\ request'[r] \in {"claimed", "fallback", "error"}
    <3>1. job[c] = NoJob /\ ~Found(c)
      BY <1>3, <2>1
    <3>2. CASE c = d /\ request'[q] \in {"claimed", "fallback", "error"}
      BY <1>1, <3>2
    <3>3. CASE c # d \/ request'[q] \notin {"claimed", "fallback", "error"}
      <4>1. delivery[c] \notin {"none", "failed"}
        BY <1>2, <1>5, <2>1, <3>1, <3>3
      <4>2. PICK r \in Requests : Of(r) = c /\ request[r] \in {"claimed", "fallback", "error"}
        BY <3>1, <4>1 DEF NotLost
      <4>3. r # q
        BY <1>1, <1>5, <2>1, <3>1, <3>3, <4>2
      <4> QED BY <1>2, <4>2, <4>3
    <3> QED BY <3>2, <3>3
  <2> QED BY <2>1 DEF NotLost
<1> QED BY <1>6, <1>7

LEMMA ProcessKeeps == ASSUME IInv, SInv, LInv, NEW e \in Executors, Process(e) PROVE LInv'
<1>1. PICK d \in Reports : d = exec[e].d
  BY ProcessStep
<1>2. /\ UNCHANGED <<job, request>>
      /\ \A c \in Reports : c # d => delivery'[c] = delivery[c]
  BY <1>1, ProcessStep
<1>3. \A c \in Reports : Found(c) => Found(c)'
  BY ProcessKeepsScans
<1>4. delivery'[d] \notin {"none", "failed"} => delivery[d] \notin {"none", "failed"} \/ Found(d)
  <2>1. CASE SkipDuplicate(e) \/ MarkProcessed(e)
    BY <1>1, <2>1 DEF SkipDuplicate, MarkProcessed, SInv, FoundOK, Finds
  <2>2. CASE MarkProcessing(e) \/ MarkFailed(e)
    BY <1>1, <2>2 DEF MarkProcessing, MarkFailed, Mark, IInv, BaseOK
  <2>3. CASE UNCHANGED delivery
    BY <2>3
  <2> QED BY <2>1, <2>2, <2>3
      DEF Process, FindScan, CommitScan, CreateScan, CompleteScan, Evaluate, EvaluateFails, Throws
<1> QED BY <1>2, <1>3, <1>4, NothingLost

LEMMA LInvNext == IInv /\ SInv /\ LInv /\ [Next]_vars => LInv'
<1> SUFFICES ASSUME IInv, SInv, LInv, [Next]_vars PROVE LInv'
  OBVIOUS
<1>1. ASSUME NEW w \in Workers, NEW d \in Reports, SlotMoves(w, d) PROVE LInv'
  BY <1>1, NothingLost DEF SlotMoves, Found
<1>2. ASSUME NEW d \in Reports, LockRanOut(d) PROVE LInv'
  BY <1>2, NothingLost DEF LockRanOut, Found
<1>3. CASE UNCHANGED vars
  BY <1>3 DEF vars, LInv, NotLost, EnqueuedOK, Found
<1> QED BY <1>1, <1>2, <1>3, Kinds, HandleKeeps, ProcessKeeps

THEOREM NothingLostInvariance == Spec => []LInv
  BY IInvInit, IInvNext, SInvInit, SInvNext, LInvInit, LInvNext, PTL DEF Spec

\* Once nothing is in flight, an answered report has a scan or a job, or may be
\* sent again, unless another send of it ended in an error.
THEOREM AnsweredNotLost == Spec => []AnsweredIsNotLost
<1>1. IInv /\ SInv /\ LInv => AnsweredIsNotLost
  <2> SUFFICES ASSUME IInv, SInv, LInv,
                      NEW q \in Requests, request[q] \in {"accepted", "duplicate"},
                      ~InFlight(Of(q)),
                      \A r \in Requests : Of(r) = Of(q) => request[r] # "error",
                      job[Of(q)] = NoJob, delivery[Of(q)] # "failed"
               PROVE  scans[Of(q)].completed + scans[Of(q)].processing > 0
    BY DEF AnsweredIsNotLost
  <2>1. PICK d \in Reports : d = Of(q)
    BY RequestOf
  <2>2. delivery[d] \notin {"none", "failed"}
    BY <2>1 DEF IInv, Recorded
  <2>3. ~ \E r \in Requests : Of(r) = d /\ request[r] \in {"claimed", "fallback", "error"}
    BY <2>1 DEF InFlight
  <2>4. Found(d)
    BY <2>1, <2>2, <2>3 DEF LInv, NotLost
  <2> QED BY <2>1, <2>4 DEF SInv, ScansOK, Found
<1> QED BY <1>1, Invariance, ScansInvariance, NothingLostInvariance, PTL
=============================================================================
