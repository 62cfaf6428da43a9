-------------------------- MODULE PipelineRunProofs --------------------------
(***************************************************************************)
(* What holds of PipelineRun for every timeline, every number of job slots *)
(* and every number of sync requests; and what holds in addition when one  *)
(* job slot is the only writer.                                            *)
(***************************************************************************)
EXTENDS PipelineRun, TLAPS

(***************************************************************************)
(* The merge.                                                              *)
(***************************************************************************)

\* Completed is the one status of weight 3, and no status weighs more.
LEMMA WeightBounds ==
    ASSUME NEW s \in Statuses
    PROVE  /\ Weight(s) \in 0..3
           /\ Weight(s) = 3 <=> s = "completed"
  BY DEF Weight, STATUS_WEIGHT, Statuses

\* A stored document that came from the provider.
Wellknown(r) == r \in Report /\ WellFormed(r)

\* The field-by-field merge amounts to a choice between the two whole reports:
\* the existing one when the incoming report weighs less, else the incoming.
LEMMA MergeChooses ==
    ASSUME NEW existing, Wellknown(existing) \/ existing = NoRun,
           NEW incoming, Wellknown(incoming)
    PROVE  Merge(existing, incoming) =
             IF existing # NoRun /\ Weight(incoming.status) < Weight(existing.status)
               THEN existing ELSE incoming
<1> USE DEF Wellknown
<1>1. CASE existing # NoRun /\ Weight(incoming.status) < Weight(existing.status)
  <2>1. incoming.status \in Statuses /\ existing.status \in Statuses
    BY <1>1 DEF Report
  <2>2. Weight(incoming.status) # 3
    BY <1>1, <2>1, WeightBounds
  <2>3. incoming.status # "completed"
    BY <2>1, <2>2, WeightBounds
  <2>4. incoming.conclusion = None /\ incoming.completedAt = 0
    BY <2>3 DEF WellFormed
  <2>5. existing = [status |-> existing.status, conclusion |-> existing.conclusion,
                    completedAt |-> existing.completedAt]
    BY <1>1 DEF Report
  <2> QED BY <1>1, <2>4, <2>5 DEF Merge, OrElse
<1>2. CASE ~(existing # NoRun /\ Weight(incoming.status) < Weight(existing.status))
  BY <1>2 DEF Merge
<1> QED BY <1>1, <1>2

LEMMA TimelineReports ==
    ASSUME NEW p \in Positions
    PROVE  Timeline[p] \in Report /\ WellFormed(Timeline[p])
  BY TimelineAssumption DEF Positions

LEMMA LenNat == Len(Timeline) \in Nat
  BY TimelineAssumption

\* NoRun is no report.
LEMMA NoRunIsNoReport == NoRun \notin Report
  BY DEF NoRun, Report, Statuses, None

-----------------------------------------------------------------------------
(***************************************************************************)
(* The inductive invariant: every copy of a report, in a slot, in a sync   *)
(* request or in the store, is one the provider has already made, and a    *)
(* job in the queue has an attempt left.                                   *)
(***************************************************************************)
Known(r) == r = NoRun \/ \E p \in 1..reported : r = Timeline[p]

QueueOK ==
    \A p \in Positions :
        /\ p \in queue => p <= reported /\ attempts[p] < MaxAttempts
        /\ p > reported => attempts[p] = 0

SlotsKnown ==
    \A w \in Workers :
        /\ slot[w].pc # "idle" => slot[w].at \in 1..reported
        /\ Known(slot[w].existing)

SyncKnown == \A r \in Requests : sync[r] <= reported

IInv == TypeOK /\ QueueOK /\ SlotsKnown /\ SyncKnown /\ Known(store)

LEMMA IdleIsSlot == Idle \in Slots
  BY DEF Idle, Slots

\* The invariant holds initially.
LEMMA IInvInit == Init => IInv
<1> SUFFICES ASSUME Init PROVE IInv
  OBVIOUS
<1> USE DEF Init
<1>1. TypeOK
  <2>1. attempts \in [Positions -> 0..MaxAttempts]
    BY BoundsAssumption
  <2>2. slot \in [Workers -> Slots]
    BY IdleIsSlot
  <2> QED BY <2>1, <2>2 DEF TypeOK
<1>2. QueueOK
  BY BoundsAssumption DEF QueueOK, Positions
<1>3. SlotsKnown
  BY DEF SlotsKnown, Known, Idle
<1>4. SyncKnown /\ Known(store)
  BY DEF SyncKnown, Known
<1> QED BY <1>1, <1>2, <1>3, <1>4 DEF IInv

\* What was known stays known: the provider only adds reports.
LEMMA KnownStays ==
    ASSUME TypeOK, reported' = reported \/ reported' = reported + 1,
           NEW r, Known(r)
    PROVE  r = NoRun \/ \E p \in 1..reported' : r = Timeline[p]
<1>1. reported \in Nat
  BY LenNat DEF TypeOK, Positions
<1> QED BY <1>1 DEF Known

\* A known report is a stored document the merge lemma speaks of.
LEMMA KnownIsWellknown ==
    ASSUME TypeOK, NEW r, Known(r)
    PROVE  Wellknown(r) \/ r = NoRun
<1>1. 1..reported \subseteq Positions
  BY LenNat DEF TypeOK, Positions
<1> QED BY <1>1, TimelineReports DEF Known, Wellknown

\* One lemma for all steps that only move one slot.
LEMMA SlotStep ==
    ASSUME IInv, NEW w \in Workers, NEW s \in Slots,
           slot' = [slot EXCEPT ![w] = s],
           reported' = reported,
           s.pc # "idle" => s.at \in 1..reported,
           Known(s.existing)
    PROVE  slot' \in [Workers -> Slots] /\ SlotsKnown'
<1>1. slot' \in [Workers -> Slots]
  BY DEF IInv, TypeOK
<1>2. ASSUME NEW v \in Workers
      PROVE  /\ slot'[v].pc # "idle" => slot'[v].at \in 1..reported
             /\ Known(slot'[v].existing)
  <2>1. slot'[v] = IF v = w THEN s ELSE slot[v]
    BY DEF IInv, TypeOK
  <2> QED BY <2>1 DEF IInv, SlotsKnown
<1> QED BY <1>1, <1>2 DEF SlotsKnown, Known

\* Every step preserves the invariant.
LEMMA IInvNext == IInv /\ [Next]_vars => IInv'
<1> SUFFICES ASSUME IInv, [Next]_vars PROVE IInv'
  OBVIOUS
<1>t. TypeOK /\ reported \in Nat /\ 1..reported \subseteq Positions
  BY LenNat DEF IInv, TypeOK, Positions
<1>1. CASE ProviderReports
  <2> USE <1>1 DEF ProviderReports
  <2>1. reported' \in Positions /\ reported' = reported + 1
    BY <1>t, LenNat DEF Positions
  <2>2. TypeOK'
    BY <1>t, <2>1 DEF TypeOK
  <2>3. QueueOK'
    BY <1>t, <2>1, BoundsAssumption DEF IInv, QueueOK, TypeOK
  <2>4. SlotsKnown'
    BY <1>t, <2>1, KnownStays DEF IInv, SlotsKnown, Known
  <2>5. SyncKnown'
    BY <1>t, <2>1, LenNat DEF IInv, SyncKnown, TypeOK, Positions
  <2>6. Known(store)'
    BY <1>t, <2>1, KnownStays DEF IInv, Known
  <2> QED BY <2>2, <2>3, <2>4, <2>5, <2>6 DEF IInv
<1>2. CASE LeaveWindow
  BY <1>2 DEF LeaveWindow, IInv, TypeOK, QueueOK, SlotsKnown, SyncKnown, Known
<1>3. ASSUME NEW w \in Workers, NEW p \in Positions, StartWebhookJob(w, p)
      PROVE  IInv'
  <2> USE <1>3 DEF StartWebhookJob
  <2> DEFINE s == Started("webhook", p)
  <2>1. p <= reported /\ attempts[p] < MaxAttempts
    BY DEF IInv, QueueOK
  <2>2. s \in Slots /\ s.at \in 1..reported /\ Known(s.existing)
    BY <2>1, <1>t DEF Started, Slots, Known, Positions
  <2>3. slot' \in [Workers -> Slots] /\ SlotsKnown'
    <3> HIDE DEF s
    <3> QED BY <2>2, SlotStep DEF s
  <2>4. attempts' \in [Positions -> 0..MaxAttempts]
    BY <1>t, <2>1, BoundsAssumption DEF TypeOK
  <2>5. QueueOK'
    BY <1>t, <2>1 DEF IInv, QueueOK, TypeOK, Positions
  <2> QED BY <1>t, <2>3, <2>4, <2>5 DEF IInv, TypeOK, SyncKnown, Known
<1>4. ASSUME NEW w \in Workers, StartReconcile(w)
      PROVE  IInv'
  <2> USE <1>4 DEF StartReconcile
  <2> DEFINE s == Started("reconcile", reported)
  <2>1. s \in Slots /\ s.at \in 1..reported /\ Known(s.existing)
    BY <1>t DEF Started, Slots, Known, TypeOK
  <2>2. slot' \in [Workers -> Slots] /\ SlotsKnown'
    <3> HIDE DEF s
    <3> QED BY <2>1, SlotStep DEF s
  <2> QED BY <1>t, <2>2 DEF IInv, TypeOK, SyncKnown, Known, QueueOK
<1>5. ASSUME NEW w \in Workers, FindExisting(w)
      PROVE  IInv'
  <2> USE <1>5 DEF FindExisting
  <2> DEFINE s == [slot[w] EXCEPT !.pc = "write", !.existing = store]
  <2>1. s \in Slots /\ s.at \in 1..reported /\ Known(s.existing)
    BY <1>t DEF IInv, SlotsKnown, TypeOK, Slots
  <2>2. slot' = [slot EXCEPT ![w] = s]
    BY <1>t DEF TypeOK, Slots
  <2>3. slot' \in [Workers -> Slots] /\ SlotsKnown'
    <3> HIDE DEF s
    <3> QED BY <2>1, <2>2, SlotStep
  <2> QED BY <1>t, <2>3 DEF IInv, TypeOK, SyncKnown, Known, QueueOK
<1>6. ASSUME NEW w \in Workers, GuardedUpsert(w)
      PROVE  IInv'
  <2> USE <1>6 DEF GuardedUpsert
  <2> DEFINE s == [slot[w] EXCEPT !.pc = "publish"]
  <2>1. s \in Slots /\ s.at \in 1..reported /\ Known(s.existing)
    BY <1>t DEF IInv, SlotsKnown, TypeOK, Slots
  <2>2. slot' = [slot EXCEPT ![w] = s]
    BY <1>t DEF TypeOK, Slots
  <2>3. slot' \in [Workers -> Slots] /\ SlotsKnown'
    <3> HIDE DEF s
    <3> QED BY <2>1, <2>2, SlotStep
  <2>4. Wellknown(slot[w].existing) \/ slot[w].existing = NoRun
    BY <1>t, KnownIsWellknown DEF IInv, SlotsKnown
  <2>5. slot[w].at \in 1..reported /\ slot[w].at \in Positions
    BY <1>t DEF IInv, SlotsKnown
  <2>6. store' \in {slot[w].existing, Timeline[slot[w].at]}
    BY <2>4, <2>5, TimelineReports, MergeChooses DEF Wellknown
  <2>7. Known(store)'
    BY <1>t, <2>5, <2>6 DEF IInv, SlotsKnown, Known
  <2>8. store' \in Report \cup {NoRun}
    BY <2>4, <2>5, <2>6, TimelineReports DEF Wellknown
  <2>9. newest' \in Positions \cup {0}
    BY <1>t, <2>5 DEF TypeOK, Newer
  <2> QED BY <1>t, <2>3, <2>7, <2>8, <2>9 DEF IInv, TypeOK, SyncKnown, QueueOK
<1>7. ASSUME NEW w \in Workers, FinishJob(w)
      PROVE  IInv'
  <2>1. slot' \in [Workers -> Slots] /\ SlotsKnown'
    BY <1>7, IdleIsSlot, SlotStep DEF FinishJob, Idle, Known
  <2> QED BY <1>7, <1>t, <2>1 DEF FinishJob, IInv, TypeOK, SyncKnown, Known, QueueOK
<1>8. ASSUME NEW w \in Workers, FailJob(w)
      PROVE  IInv'
  <2>1. slot' \in [Workers -> Slots] /\ SlotsKnown'
    BY <1>8, IdleIsSlot, SlotStep DEF FailJob, Idle, Known
  <2>2. slot[w].at \in 1..reported /\ slot[w].at \in Positions
    BY <1>8, <1>t DEF FailJob, IInv, SlotsKnown
  <2>3. \/ queue' = queue
        \/ /\ queue' = queue \cup {slot[w].at}
           /\ attempts[slot[w].at] < MaxAttempts
    BY <1>8 DEF FailJob
  <2>4. queue' \in SUBSET Positions
    BY <1>t, <2>2, <2>3 DEF TypeOK
  <2>5. QueueOK'
    BY <1>8, <1>t, <2>2, <2>3 DEF FailJob, IInv, QueueOK
  <2> QED BY <1>8, <1>t, <2>1, <2>4, <2>5 DEF FailJob, IInv, TypeOK, SyncKnown, Known
<1>9. ASSUME NEW r \in Requests, SyncFetch(r)
      PROVE  IInv'
  BY <1>9, <1>t DEF SyncFetch, IInv, TypeOK, SyncKnown, Known, QueueOK, SlotsKnown
<1>10. ASSUME NEW r \in Requests, SyncUpsert(r)
       PROVE  IInv'
  <2> USE <1>10 DEF SyncUpsert
  <2>1. sync[r] \in 1..reported /\ sync[r] \in Positions
    BY <1>t, LenNat DEF IInv, SyncKnown, TypeOK, Positions
  <2>2. store' \in Report /\ Known(store)'
    BY <1>t, <2>1, TimelineReports DEF Known
  <2>3. newest' \in Positions \cup {0}
    BY <1>t, <2>1 DEF TypeOK, Newer
  <2>4. sync' \in [Requests -> Positions \cup {0}] /\ SyncKnown'
    BY <1>t DEF IInv, TypeOK, SyncKnown
  <2> QED BY <1>t, <2>2, <2>3, <2>4 DEF IInv, TypeOK, QueueOK, SlotsKnown, Known
<1>11. CASE UNCHANGED vars
  BY <1>11 DEF vars, IInv, TypeOK, QueueOK, SlotsKnown, SyncKnown, Known
<1> QED
  BY <1>1, <1>2, <1>3, <1>4, <1>5, <1>6, <1>7, <1>8, <1>9, <1>10, <1>11 DEF Next

THEOREM Invariance == Spec => []IInv
  BY IInvInit, IInvNext, PTL DEF Spec

\* Every variable keeps its type; above all a job is never started more often
\* than MaxAttempts times.
THEOREM TypeCorrect == Spec => []TypeOK
<1>1. IInv => TypeOK
  BY DEF IInv
<1> QED BY <1>1, Invariance, PTL

\* However many slots and syncs write the run at once, and whatever the
\* provider reports, the stored run is one whole report of the provider.
THEOREM NeverTorn == Spec => []StoreIsAReport
<1>1. IInv => StoreIsAReport
  BY DEF IInv, Known, StoreIsAReport
<1> QED BY <1>1, Invariance, PTL

-----------------------------------------------------------------------------
(***************************************************************************)
(* One job slot and no manual sync: the guard's read and its write cannot  *)
(* be separated by another write, so what it found is still stored.        *)
(***************************************************************************)
Serial == Requests = {} /\ \A v, w \in Workers : v = w

FoundIsStored ==
    \A w \in Workers : slot[w].pc = "write" => slot[w].existing = store

SerialInv == FoundIsStored /\ StoreReflectsNewest /\ newest <= reported

\* The serial write: the document follows the newest report.
LEMMA SerialUpsert ==
    ASSUME IInv, SerialInv, ForwardTimeline, NEW w \in Workers, GuardedUpsert(w)
    PROVE  /\ StoreReflectsNewest'
           /\ newest' \in 1..reported
           /\ \/ store' = store
              \/ store = NoRun
              \/ Weight(store.status) < Weight(store'.status)
<1> USE DEF GuardedUpsert
<1> DEFINE at == slot[w].at
<1>1. reported \in Nat /\ 1..reported \subseteq Positions
  BY LenNat DEF IInv, TypeOK, Positions
<1>2. at \in 1..reported /\ newest \in 0..reported
  BY <1>1, LenNat DEF IInv, SlotsKnown, SerialInv, TypeOK, Positions
<1>3. slot[w].existing = store /\ store = IF newest = 0 THEN NoRun ELSE Timeline[newest]
  BY DEF SerialInv, FoundIsStored, StoreReflectsNewest
<1>4. Wellknown(Timeline[at])
  BY <1>1, <1>2, TimelineReports DEF Wellknown
<1>5. newest' = IF newest > at THEN newest ELSE at
  BY DEF Newer
<1>6. CASE newest = 0
  <2>1. store' = Timeline[at] /\ store = NoRun
    BY <1>3, <1>4, <1>6, MergeChooses
  <2> QED BY <1>2, <1>5, <1>6, <2>1 DEF StoreReflectsNewest
<1>7. CASE newest # 0
  <2>1. newest \in Positions /\ at \in Positions /\ store = Timeline[newest]
    BY <1>1, <1>2, <1>3, <1>7
  <2>2. Wellknown(store) /\ store # NoRun
    BY <2>1, TimelineReports, NoRunIsNoReport DEF Wellknown
  <2>3. store' = IF Weight(Timeline[at].status) < Weight(store.status)
                   THEN store ELSE Timeline[at]
    BY <1>3, <1>4, <2>2, MergeChooses
  <2>4. Weight(Timeline[at].status) \in Nat /\ Weight(store.status) \in Nat
    BY <1>4, <2>2, WeightBounds DEF Wellknown, Report
  <2>5. CASE newest > at
    <3>1. Timeline[at] = store \/ Weight(Timeline[at].status) < Weight(store.status)
      BY <1>2, <2>1, <2>5 DEF ForwardTimeline, Positions
    <3>2. store' = store
      BY <2>3, <3>1
    <3> QED BY <1>2, <1>5, <1>7, <2>1, <2>5, <3>2 DEF StoreReflectsNewest
  <2>6. CASE newest = at
    BY <1>2, <1>5, <1>7, <2>1, <2>3, <2>6 DEF StoreReflectsNewest
  <2>7. CASE newest < at
    <3>1. store = Timeline[at] \/ Weight(store.status) < Weight(Timeline[at].status)
      BY <1>2, <2>1, <2>7 DEF ForwardTimeline, Positions
    <3>2. store' = Timeline[at]
      BY <2>3, <2>4, <3>1
    <3> QED BY <1>2, <1>5, <2>7, <3>1, <3>2 DEF StoreReflectsNewest
  <2> QED BY <1>2, <2>5, <2>6, <2>7
<1> QED BY <1>6, <1>7

LEMMA SerialInit == Init => SerialInv
  BY DEF Init, SerialInv, FoundIsStored, StoreReflectsNewest, Idle

LEMMA SerialNext ==
    ASSUME Serial, ForwardTimeline, IInv, SerialInv, [Next]_vars
    PROVE  SerialInv'
<1> USE DEF SerialInv
<1>t. TypeOK /\ reported \in Nat /\ newest \in Nat
  BY LenNat DEF IInv, TypeOK, Positions
<1>1. CASE ProviderReports \/ LeaveWindow
  BY <1>1, <1>t DEF ProviderReports, LeaveWindow, FoundIsStored, StoreReflectsNewest
<1>2. ASSUME NEW w \in Workers, NEW p \in Positions,
             StartWebhookJob(w, p) \/ StartReconcile(w) \/ FinishJob(w) \/ FailJob(w)
      PROVE  SerialInv'
  <2>1. slot'[w].pc # "write" /\ UNCHANGED <<store, newest, reported>>
    BY <1>2, <1>t
       DEF StartWebhookJob, StartReconcile, FinishJob, FailJob, Started, Idle, TypeOK
  <2> QED BY <2>1 DEF Serial, FoundIsStored, StoreReflectsNewest
<1>3. ASSUME NEW w \in Workers, StartReconcile(w) \/ FinishJob(w) \/ FailJob(w)
      PROVE  SerialInv'
  <2>1. slot'[w].pc # "write" /\ UNCHANGED <<store, newest, reported>>
    BY <1>3, <1>t DEF StartReconcile, FinishJob, FailJob, Started, Idle, TypeOK
  <2> QED BY <2>1 DEF Serial, FoundIsStored, StoreReflectsNewest
<1>4. ASSUME NEW w \in Workers, FindExisting(w)
      PROVE  SerialInv'
  <2>1. slot'[w].existing = store /\ UNCHANGED <<store, newest, reported>>
    BY <1>4, <1>t DEF FindExisting, TypeOK, Slots
  <2> QED BY <2>1 DEF Serial, FoundIsStored, StoreReflectsNewest
<1>5. ASSUME NEW w \in Workers, GuardedUpsert(w)
      PROVE  SerialInv'
  <2>1. slot'[w].pc = "publish"
    BY <1>5, <1>t DEF GuardedUpsert, TypeOK, Slots
  <2>2. reported' = reported
    BY <1>5 DEF GuardedUpsert
  <2> QED BY <1>5, <2>1, <2>2, <1>t, SerialUpsert DEF Serial, FoundIsStored
<1>6. CASE UNCHANGED vars
  BY <1>6 DEF vars, FoundIsStored, StoreReflectsNewest
<1> QED BY <1>1, <1>2, <1>3, <1>4, <1>5, <1>6 DEF Next, Serial

\* A single job slot keeps the document at the newest report written, in
\* whatever order lost, delayed, retried and fetched reports reach it.
THEOREM SerialReflectsNewest ==
    ASSUME Serial, ForwardTimeline
    PROVE  Spec => []StoreReflectsNewest
<1>1. IInv /\ SerialInv /\ [Next]_vars => SerialInv'
  BY SerialNext
<1>2. SerialInv => StoreReflectsNewest
  BY DEF SerialInv
<1> QED BY SerialInit, Invariance, <1>1, <1>2, PTL DEF Spec

\* A single job slot implements the terminal-protected register: no step ever
\* moves the document to a status that weighs less.
THEOREM SerialImplements ==
    ASSUME Serial, ForwardTimeline
    PROVE  Spec => Implements
<1>1. Init => Promise!Init
  BY DEF Init, Promise!Init
<1>2. IInv /\ IInv' /\ SerialInv /\ [Next]_vars => [Promise!Next]_store
  <2> SUFFICES ASSUME IInv, IInv', SerialInv, [Next]_vars, store' # store
               PROVE  Promise!Next
    OBVIOUS
  <2>1. PICK w \in Workers : GuardedUpsert(w)
    BY DEF Next, vars, Serial, ProviderReports, LeaveWindow, StartWebhookJob,
           StartReconcile, FindExisting, FinishJob, FailJob
  <2>2. store = NoRun \/ Weight(store.status) < Weight(store'.status)
    BY <2>1, SerialUpsert
  <2>3. \E p \in Positions : store' = Timeline[p]
    <3>1. newest' \in 1..reported /\ StoreReflectsNewest'
      BY <2>1, SerialUpsert
    <3>2. reported \in Positions \cup {0}
      BY DEF IInv, TypeOK
    <3> QED BY <3>1, <3>2, LenNat DEF StoreReflectsNewest, Positions
  <2>4. store' \in Report
    BY <2>3, TimelineReports
  <2>5. store = NoRun \/ store.status \in Statuses
    BY DEF IInv, TypeOK, Report
  <2> QED BY <2>2, <2>4, <2>5 DEF Promise!Next, Report
<1>3. IInv /\ SerialInv /\ [Next]_vars => SerialInv'
  BY SerialNext
<1> QED BY <1>1, <1>2, <1>3, SerialInit, Invariance, PTL
        DEF Spec, Implements, Promise!Spec
=============================================================================
