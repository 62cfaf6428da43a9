------------------------------- MODULE JobQueue -------------------------------
(***************************************************************************)
(* The life of one BullMQ job, as far as the platform depends on it        *)
(* (external: BullMQ and Redis).  The queues give every job a jobId that   *)
(* is derived from its delivery, MaxAttempts attempts with a backoff, and  *)
(* keep completed and failed jobs (removeOnComplete, removeOnFail).        *)
(*                                                                         *)
(* A job that waits for its backoff is "waiting" here as well: how long it *)
(* waits is left open.                                                     *)
(***************************************************************************)
EXTENDS Naturals

CONSTANTS
    MaxAttempts,    \* jobAttempts of the configuration
    MaxStalls       \* BullMQ's maxStalledCount

ASSUME JobQueueAssumption == MaxAttempts \in Nat \ {0} /\ MaxStalls \in Nat

JobStates == {"absent", "waiting", "active", "completed", "failed"}

Jobs == [state : JobStates, made : 0..MaxAttempts, stalls : 0..MaxStalls]

NoJob  == [state |-> "absent", made |-> 0, stalls |-> 0]
NewJob == [state |-> "waiting", made |-> 0, stalls |-> 0]

\* queue.add with the id of a job that exists in any state, finished or not,
\* adds nothing and answers with that id.
Add(job) == IF job = NoJob THEN NewJob ELSE job

Take(job)     == [job EXCEPT !.state = "active"]
Complete(job) == [job EXCEPT !.state = "completed"]

FailForever(job, unrecoverable) ==
    [job EXCEPT !.state = IF unrecoverable THEN "failed" ELSE "waiting"]

FailOffByOne(job, unrecoverable) ==
    [state  |-> IF unrecoverable \/ job.made = MaxAttempts THEN "failed" ELSE "waiting",
     made   |-> job.made + 1,
     stalls |-> job.stalls]

\* A processor that throws: retried with backoff while attempts are left,
\* unless the error is an UnrecoverableError.
Fail(job, unrecoverable) ==
    [state  |-> IF unrecoverable \/ job.made + 1 = MaxAttempts THEN "failed" ELSE "waiting",
     made   |-> job.made + 1,
     stalls |-> job.stalls]

\* The lock of an active job ran out: another slot may take the job, unless it
\* stalled too often already.
Stall(job) ==
    IF job.stalls < MaxStalls
      THEN [state |-> "waiting", made |-> job.made, stalls |-> job.stalls + 1]
      ELSE [job EXCEPT !.state = "failed"]

Finished(job) == job.state \in {"completed", "failed"}
=============================================================================
