----------------------------- MODULE PipelineRun -----------------------------
(***************************************************************************)
(* One document of the PipelineRun collection and everything that writes   *)
(* it.                                                                     *)
(*                                                                         *)
(* The CI provider takes its run through a sequence of reported states and *)
(* sends a webhook for each of them; the network and the job queue may     *)
(* drop, delay, retry and reorder those webhooks.  The job slots of the CI *)
(* worker process webhook jobs and reconciliation jobs; both end in        *)
(* PipelineRun.upsertWithStatusGuard, which is a findOne followed by a     *)
(* separate findOneAndUpdate.  A manual sync request of the API process    *)
(* fetches the runs and writes what it fetched with a plain                *)
(* findOneAndUpdate, without that guard.                                   *)
(*                                                                         *)
(* Every document of the collection is written independently of the        *)
(* others, so one run stands for all of them.                              *)
(***************************************************************************)
EXTENDS Naturals, Sequences

CONSTANTS
    Timeline,       \* the reports of the provider on this run, oldest first
    Workers,        \* job slots of the CI worker (config.cicd.workerConcurrency)
    Requests,       \* manual sync requests the API process may be serving
    MaxAttempts,    \* BullMQ attempts of a webhook job (config.cicd.jobAttempts)
    LookbackCovers  \* TRUE: reconciliation comes back within its lookback window

Statuses    == {"waiting", "queued", "in_progress", "completed"}
Conclusions == {"success", "failure", "cancelled"}
None        == "none"       \* null, in a document or in a report

STATUS_WEIGHT == [queued |-> 1, in_progress |-> 2, completed |-> 3]

\* A status the table does not name ('waiting', 'requested', 'pending'...)
\* weighs 0, the default of the lookup.
Weight(status) ==
    IF status \in DOMAIN STATUS_WEIGHT THEN STATUS_WEIGHT[status] ELSE 0

\* What the provider says of the run: completedAt is a timestamp abstracted to
\* an ordinal, 0 for null; duration is present exactly when completedAt is.
Report == [status : Statuses, conclusion : Conclusions \cup {None},
           completedAt : Nat]

\* A run has a conclusion and an end exactly when it is completed.
WellFormed(r) == /\ (r.status = "completed") <=> (r.conclusion # None)
                 /\ (r.status = "completed") <=> (r.completedAt # 0)

Positions == 1..Len(Timeline)

ASSUME TimelineAssumption ==
    /\ Timeline \in Seq(Report)
    /\ \A p \in Positions : WellFormed(Timeline[p])
ASSUME BoundsAssumption ==
    /\ MaxAttempts \in Nat \ {0}
    /\ LookbackCovers \in BOOLEAN

NoRun == [status |-> None, conclusion |-> None, completedAt |-> 0]

(***************************************************************************)
(* The merge of upsertWithStatusGuard: when the incoming report weighs     *)
(* less than the existing document the status stays, and so do the         *)
(* conclusion and the end of the run unless the incoming report has them.  *)
(***************************************************************************)
OrElse(value, null, fallback) == IF value = null THEN fallback ELSE value

MergeDropsConclusion(existing, incoming) ==
    IF existing # NoRun /\ Weight(incoming.status) < Weight(existing.status)
      THEN [incoming EXCEPT !.status = existing.status]
      ELSE incoming

MergeKeepsOnTie(existing, incoming) ==
    IF existing # NoRun /\ Weight(incoming.status) <= Weight(existing.status)
      THEN existing
      ELSE incoming

MergeUnguarded(existing, incoming) == incoming

Merge(existing, incoming) ==
    IF existing # NoRun /\ Weight(incoming.status) < Weight(existing.status)
      THEN [status      |-> existing.status,
            conclusion  |-> OrElse(incoming.conclusion, None, existing.conclusion),
            completedAt |-> OrElse(incoming.completedAt, 0, existing.completedAt)]
      ELSE incoming

-----------------------------------------------------------------------------
VARIABLES
    reported,   \* how far the provider is in Timeline; 0: no such run yet
    inWindow,   \* the run's updated_at is within the reconciliation lookback
    queue,      \* webhook jobs waiting in BullMQ, named by their report
    attempts,   \* attempts[p]: how often the job of report p was started
    store,      \* the PipelineRun document, or NoRun
    slot,       \* slot[w]: what job slot w of the CI worker is doing
    sync,       \* sync[r]: the report sync request r has fetched, or 0
    newest      \* history: the latest report any writer has written

vars == <<reported, inWindow, queue, attempts, store, slot, sync, newest>>

Idle == [pc |-> "idle", job |-> None, at |-> 0, existing |-> NoRun]

Started(job, p) == [pc |-> "find", job |-> job, at |-> p, existing |-> NoRun]

Slots == [pc : {"idle", "find", "write", "publish"},
          job : {None, "webhook", "reconcile"},
          at : Positions \cup {0},
          existing : Report \cup {NoRun}]

TypeOK ==
    /\ reported \in Positions \cup {0}
    /\ inWindow \in BOOLEAN
    /\ queue \in SUBSET Positions
    /\ attempts \in [Positions -> 0..MaxAttempts]
    /\ store \in Report \cup {NoRun}
    /\ slot \in [Workers -> Slots]
    /\ sync \in [Requests -> Positions \cup {0}]
    /\ newest \in Positions \cup {0}

Init ==
    /\ reported = 0
    /\ inWindow = FALSE
    /\ queue = {}
    /\ attempts = [p \in Positions |-> 0]
    /\ store = NoRun
    /\ slot = [w \in Workers |-> Idle]
    /\ sync = [r \in Requests |-> 0]
    /\ newest = 0

Newer(p, q) == IF p > q THEN p ELSE q

-----------------------------------------------------------------------------
(***************************************************************************)
(* The provider (external).                                                *)
(***************************************************************************)

\* The run moves to its next reported state.  The webhook of that state is
\* enqueued, or lost before it reaches the queue.
ProviderReports ==
    /\ reported < Len(Timeline)
    /\ reported' = reported + 1
    /\ inWindow' = TRUE
    /\ queue' \in {queue, queue \cup {reported + 1}}
    /\ UNCHANGED <<attempts, store, slot, sync, newest>>

\* Time passes until the run is older than lookbackMinutes: reconciliation
\* skips it from then on (reconciliation.service.js:43-46).
LeaveWindow ==
    /\ ~LookbackCovers
    /\ inWindow
    /\ inWindow' = FALSE
    /\ UNCHANGED <<reported, queue, attempts, store, slot, sync, newest>>

-----------------------------------------------------------------------------
(***************************************************************************)
(* Jobs of the CI worker.                                                  *)
(***************************************************************************)

\* A slot takes a webhook job.  Whatever the handler does before the upsert
\* (integration, repository, issue keys, pull request) leaves the run alone.
StartWebhookJob(w, p) ==
    /\ slot[w].pc = "idle"
    /\ p \in queue
    /\ queue' = queue \ {p}
    /\ attempts' = [attempts EXCEPT ![p] = @ + 1]
    /\ slot' = [slot EXCEPT ![w] = Started("webhook", p)]
    /\ UNCHANGED <<reported, inWindow, store, sync, newest>>

\* A slot takes a reconciliation job and fetches the runs from the REST API:
\* the report is fixed here and written later.
StartReconcile(w) ==
    /\ slot[w].pc = "idle"
    /\ reported > 0
    /\ inWindow
    /\ slot' = [slot EXCEPT ![w] = Started("reconcile", reported)]
    /\ UNCHANGED <<reported, inWindow, queue, attempts, store, sync, newest>>

\* First half of upsertWithStatusGuard: findOne(filter).
FindExisting(w) ==
    /\ slot[w].pc = "find"
    /\ slot' = [slot EXCEPT ![w].pc = "write", ![w].existing = store]
    /\ UNCHANGED <<reported, inWindow, queue, attempts, store, sync, newest>>

\* Second half: findOneAndUpdate with the data merged into what was found.
GuardedUpsert(w) ==
    /\ slot[w].pc = "write"
    /\ store' = Merge(slot[w].existing, Timeline[slot[w].at])
    /\ newest' = Newer(newest, slot[w].at)
    /\ slot' = [slot EXCEPT ![w].pc = "publish"]
    /\ UNCHANGED <<reported, inWindow, queue, attempts, sync>>

\* The events are published and the handler returns.
FinishJob(w) ==
    /\ slot[w].pc = "publish"
    /\ slot' = [slot EXCEPT ![w] = Idle]
    /\ UNCHANGED <<reported, inWindow, queue, attempts, store, sync, newest>>

FailJobForever(w) ==
    /\ slot[w].pc # "idle"
    /\ queue' = IF slot[w].job = "webhook" THEN queue \cup {slot[w].at} ELSE queue
    /\ slot' = [slot EXCEPT ![w] = Idle]
    /\ UNCHANGED <<reported, inWindow, attempts, store, sync, newest>>

\* The handler throws (MongoDB or Redis unavailable) or its process dies: the
\* webhook job goes back to the queue while it has attempts left.  A
\* reconciliation job fetches anew when it runs again.
FailJob(w) ==
    /\ slot[w].pc # "idle"
    /\ queue' = IF slot[w].job = "webhook" /\ attempts[slot[w].at] < MaxAttempts
                  THEN queue \cup {slot[w].at}
                  ELSE queue
    /\ slot' = [slot EXCEPT ![w] = Idle]
    /\ UNCHANGED <<reported, inWindow, attempts, store, sync, newest>>

-----------------------------------------------------------------------------
(***************************************************************************)
(* Manual sync in the API process (CicdService.reconcileRepositoryRuns).   *)
(***************************************************************************)

SyncFetch(r) ==
    /\ sync[r] = 0
    /\ reported > 0
    /\ sync' = [sync EXCEPT ![r] = reported]
    /\ UNCHANGED <<reported, inWindow, queue, attempts, store, slot, newest>>

SyncUpsert(r) ==
    /\ sync[r] # 0
    /\ store' = Timeline[sync[r]]
    /\ newest' = Newer(newest, sync[r])
    /\ sync' = [sync EXCEPT ![r] = 0]
    /\ UNCHANGED <<reported, inWindow, queue, attempts, slot>>

-----------------------------------------------------------------------------
Next ==
    \/ ProviderReports
    \/ LeaveWindow
    \/ \E w \in Workers :
          \/ \E p \in Positions : StartWebhookJob(w, p)
          \/ StartReconcile(w)
          \/ FindExisting(w)
          \/ GuardedUpsert(w)
          \/ FinishJob(w)
          \/ FailJob(w)
    \/ \E r \in Requests : SyncFetch(r) \/ SyncUpsert(r)

Spec == Init /\ [][Next]_vars

(***************************************************************************)
(* What the scheduling justifies.  The repeatable job starts a             *)
(* reconciliation again and again (ciQueue.js:153-178); a started job runs *)
(* on.  MongoDB is not down for ever: a step that is possible again and    *)
(* again succeeds in the end, although any attempt may fail.               *)
(***************************************************************************)
Fairness ==
    /\ WF_vars(\E w \in Workers : StartReconcile(w))
    /\ \A w \in Workers : /\ SF_vars(FindExisting(w))
                          /\ SF_vars(GuardedUpsert(w))
                          /\ WF_vars(FinishJob(w))

FairSpec == Spec /\ Fairness

-----------------------------------------------------------------------------
(***************************************************************************)
(* Properties.                                                             *)
(***************************************************************************)

\* The stored status, conclusion and end are those of one and the same report
\* the provider has made, whoever interleaves with whom: the field-by-field
\* merge of upsertWithStatusGuard never puts together a run that never was
\* (completed without a conclusion, running with one).
StoreIsAReport ==
    store = NoRun \/ \E p \in 1..reported : store = Timeline[p]

\* With one writer at a time the document shows the latest report written so
\* far, in whatever order the webhooks and fetched reports come in.
StoreReflectsNewest ==
    store = IF newest = 0 THEN NoRun ELSE Timeline[newest]

\* No step takes a completed run back to an earlier status (pipelineRun.model
\* .js:175, README.md:70).
TerminalProtected ==
    [][store.status = "completed" => store'.status = "completed"]_vars

\* The same of manual sync alone: a sync that was fetched before the run ended
\* and is written afterwards.
TerminalProtectedFromSync ==
    [][\A r \in Requests : SyncUpsert(r) /\ store.status = "completed"
                             => store'.status = "completed"]_vars

\* Once the provider's run has ended for good the document shows that end for
\* good, whatever was lost, stale or unguarded before: reconciliation heals it.
Converges ==
    <>[](reported > 0 /\ Timeline[reported].status = "completed"
           => store = Timeline[reported])

\* The provider never takes the run back: each report says the same as an
\* earlier one or weighs more (a workflow run that is not run again).
ForwardTimeline ==
    \A p, q \in Positions :
        p < q => \/ Timeline[p] = Timeline[q]
                 \/ Weight(Timeline[p].status) < Weight(Timeline[q].status)

\* What the status guard promises of a run that only moves forward.
Promise == INSTANCE TerminalRegister
             WITH Values <- Report, Empty <- NoRun, value <- store,
                  Rank <- [s \in Statuses |-> Weight(s)]
Implements == Promise!Spec
=============================================================================
