---------------------------- MODULE JobQueueProofs ----------------------------
(***************************************************************************)
(* What the operations on a job need and keep, for every number of         *)
(* attempts and stalls: the lemmas the proofs about the queues share.      *)
(***************************************************************************)
EXTENDS JobQueue, TLAPS

\* A job that will run, or runs, has an attempt left.
HasAttempt(j) == j.state \in {"waiting", "active"} => j.made < MaxAttempts

JobOK(j) ==
    /\ j \in Jobs
    /\ HasAttempt(j)
    /\ j.state = "absent" => j = NoJob

\* Every operation, called on a job in a state BullMQ would call it on, keeps
\* the job in order: none is tried more often than its attempts allow.
LEMMA JobOperations ==
    ASSUME NEW j, JobOK(j)
    PROVE  /\ JobOK(NoJob) /\ JobOK(NewJob)
           /\ JobOK(Add(j)) /\ JobOK(Complete(j))
           /\ j.state = "waiting" => JobOK(Take(j))
           /\ j.state = "active" => /\ JobOK(Stall(j))
                                    /\ \A u \in BOOLEAN : JobOK(Fail(j, u))
<1>1. JobOK(NoJob) /\ JobOK(NewJob)
  BY JobQueueAssumption DEF JobOK, HasAttempt, NoJob, NewJob, Jobs, JobStates
<1>2. JobOK(Add(j))
  BY <1>1 DEF Add
<1>3. JobOK(Complete(j))
  BY DEF JobOK, HasAttempt, Complete, Jobs, JobStates
<1>4. ASSUME j.state = "active" PROVE JobOK(Stall(j))
  <2>1. /\ j.made \in 0..MaxAttempts /\ j.stalls \in 0..MaxStalls
        /\ j.made < MaxAttempts
    BY <1>4 DEF JobOK, HasAttempt, Jobs
  <2>2. CASE j.stalls < MaxStalls
    <3>1. Stall(j) = [state |-> "waiting", made |-> j.made, stalls |-> j.stalls + 1]
      BY <2>2 DEF Stall
    <3>2. j.stalls + 1 \in 0..MaxStalls
      BY <2>1, <2>2, JobQueueAssumption
    <3> QED BY <2>1, <3>1, <3>2 DEF JobOK, HasAttempt, Jobs, JobStates
  <2>3. CASE ~(j.stalls < MaxStalls)
    BY <2>3 DEF JobOK, HasAttempt, Stall, Jobs, JobStates
  <2> QED BY <2>2, <2>3
<1>5. j.state = "waiting" => JobOK(Take(j))
  BY DEF JobOK, HasAttempt, Take, Jobs, JobStates
<1>6. ASSUME j.state = "active", NEW u \in BOOLEAN PROVE JobOK(Fail(j, u))
  BY <1>6, JobQueueAssumption DEF JobOK, HasAttempt, Fail, Jobs, JobStates
<1> QED BY <1>1, <1>2, <1>3, <1>4, <1>5, <1>6

\* The states the operations lead to.
LEMMA JobOutcomes ==
    ASSUME NEW j \in Jobs
    PROVE  /\ Add(j).state = "completed" => j.state = "completed"
           /\ Take(j).state = "active" /\ Complete(j).state = "completed"
           /\ Stall(j).state \in {"waiting", "failed"}
           /\ \A u \in BOOLEAN : Fail(j, u).state \in {"waiting", "failed"}
  BY DEF Add, NewJob, Take, Complete, Fail, Stall, Jobs

\* A job that is there never goes away, and what it stalled is not forgotten.
LEMMA JobStays ==
    ASSUME NEW j \in Jobs
    PROVE  /\ Add(j) # NoJob /\ Take(j) # NoJob /\ Complete(j) # NoJob /\ Stall(j) # NoJob
           /\ \A u \in BOOLEAN : Fail(j, u) # NoJob
           /\ Add(j).stalls = 0 => j.stalls = 0
           /\ Take(j).stalls = j.stalls /\ Complete(j).stalls = j.stalls
           /\ \A u \in BOOLEAN : Fail(j, u).stalls = j.stalls
           /\ Stall(j).stalls # 0 \/ Stall(j).state = "failed"
<1>1. /\ Take(j) # NoJob /\ Complete(j) # NoJob
      /\ Take(j).stalls = j.stalls /\ Complete(j).stalls = j.stalls
  BY DEF Take, Complete, NoJob, Jobs
<1>2. Add(j) # NoJob /\ (Add(j).stalls = 0 => j.stalls = 0)
  BY DEF Add, NewJob, NoJob
<1>3. Stall(j) # NoJob /\ (Stall(j).stalls # 0 \/ Stall(j).state = "failed")
  BY JobQueueAssumption DEF Stall, NoJob, Jobs
<1>4. ASSUME NEW u \in BOOLEAN PROVE Fail(j, u) # NoJob /\ Fail(j, u).stalls = j.stalls
  BY DEF Fail, NoJob
<1> QED BY <1>1, <1>2, <1>3, <1>4
=============================================================================
