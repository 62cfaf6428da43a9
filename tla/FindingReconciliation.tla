------------------------ MODULE FindingReconciliation ------------------------
(***************************************************************************)
(* The scans of one comparable scope (project, repository, target,         *)
(* provider, scan type) and what reconcileFindings does to the findings of *)
(* the scans before.  Every scan adds a document for each key it finds, so *)
(* a key has as many documents as scans that found it; reconciliation acts *)
(* on the newest of the earlier ones only.                                 *)
(*                                                                         *)
(* With transactions a scan reads from a snapshot and commits all its      *)
(* writes at once; MongoDB aborts it when a document it updates has        *)
(* changed since, and withTransaction runs it again.  Without, every write *)
(* is a step of its own and the updates are those of a list read before.   *)
(*                                                                         *)
(* The job then has the policies evaluated.  The rule that counts open     *)
(* findings reads what scans have made of them by then.                    *)
(***************************************************************************)
EXTENDS Naturals, FiniteSets

CONSTANTS
    Keys,           \* findingIdentityKeys
    MaxScans,       \* bound: how many scans of the scope there are
    MaxCount        \* the threshold of a max_severity_count policy

ASSUME ScanAssumption ==
    IsFiniteSet(Keys) /\ MaxScans \in Nat \ {0} /\ MaxCount \in Nat

Scans == 1..MaxScans
Docs  == Scans \X Keys      \* the SecurityFinding of a scan for a key

VARIABLES
    env,        \* transactions: MongoDB has them; serial: one scan at a time
    finding,    \* the status of every SecurityFinding
    order,      \* createdAt: the scans that the findings of each are newer than
    scan,       \* the scans: where each is, what it found, what it read
    verdict,    \* what the rule said of a scan
    latest      \* history: the scan that completed last, 0 before

vars == <<env, finding, order, scan, verdict, latest>>

Decided == {"acknowledged", "false_positive"}
FindingStatus == {"none", "open", "resolved"} \cup Decided
ScanPc == {"none", "open", "created", "inserted", "updating", "completed",
           "judged", "dead"}

NoDocs  == [x \in Docs |-> "none"]
NewScan == [pc |-> "none", found |-> {}, seen |-> NoDocs, todo |-> {}]

TypeOK ==
    /\ env \in [transactions : BOOLEAN, serial : BOOLEAN]
    /\ finding \in [Docs -> FindingStatus]
    /\ order \in [Scans -> SUBSET Scans]
    /\ scan \in [Scans -> [pc : ScanPc, found : SUBSET Keys,
                           seen : [Docs -> FindingStatus], todo : SUBSET Docs]]
    /\ verdict \in [Scans -> {"none", "holds", "violated"}]
    /\ latest \in 0..MaxScans

Init ==
    /\ env \in [transactions : BOOLEAN, serial : BOOLEAN]
    /\ finding = NoDocs
    /\ order = [s \in Scans |-> {}]
    /\ scan = [s \in Scans |-> NewScan]
    /\ verdict = [s \in Scans |-> "none"]
    /\ latest = 0

-----------------------------------------------------------------------------
(***************************************************************************)
(* reconcileFindings.                                                      *)
(***************************************************************************)

Read(docs, s, k) == {x \in Docs : x[1] # s /\ x[2] = k /\ docs[x] # "none"}

\* Read with sort({createdAt: -1}): the first of those read.
Newest(read, x) ==
    /\ x \in read
    /\ \A y \in read : y[1] = x[1] \/ y[1] \in order[x[1]]

\* The newest document of a key among those read from other scans; the loop
\* skips all older ones (processedKeys).
ActsOn(docs, s, x) == Newest(Read(docs, s, x[2]), x)

ReconciledDecisionsToo(found, k, status) ==
    IF k \in found THEN (IF status = "resolved" THEN "open" ELSE status)
                   ELSE (IF status \in {"open", "acknowledged"} THEN "resolved" ELSE status)

\* Rules 1 to 6: what a document with this status becomes.
Reconciled(found, k, status) ==
    IF k \in found THEN (IF status = "resolved" THEN "open" ELSE status)
                   ELSE (IF status = "open" THEN "resolved" ELSE status)

\* The documents that scan s will update, going by what it read.
Updates(s, docs) ==
    {x \in Docs : /\ ActsOn(docs, s, x)
                  /\ Reconciled(scan[s].found, x[2], docs[x]) # docs[x]}

Inserted(s, docs) ==
    [x \in Docs |-> IF x[1] = s /\ x[2] \in scan[s].found THEN "open" ELSE docs[x]]

-----------------------------------------------------------------------------
(***************************************************************************)
(* processSecurityScanJob.                                                 *)
(***************************************************************************)

Running(s) == scan[s].pc \notin {"none", "completed", "judged", "dead"}

MayBegin(s) ==
    /\ scan[s].pc = "none"
    /\ \A r \in Scans : r < s => scan[r].pc # "none"
    /\ env.serial => \A r \in Scans : scan[r].pc \in {"none", "judged", "dead"}

\* The createdAt of what a scan inserts is newer than all there is; a transaction
\* that runs again inserts again.
Later(s) == [r \in Scans |-> IF r = s THEN Scans \ {s} ELSE order[r] \ {s}]

\* The transaction starts: its reads see the documents as they are now.
BeginTransaction(s) ==
    /\ env.transactions
    /\ MayBegin(s)
    /\ \E found \in SUBSET Keys :
          scan' = [scan EXCEPT ![s] = [pc |-> "open", found |-> found,
                                       seen |-> finding, todo |-> {}]]
    /\ order' = Later(s)
    /\ UNCHANGED <<env, finding, verdict, latest>>

Conflict(s) == \E x \in Updates(s, scan[s].seen) : finding[x] # scan[s].seen[x]

CommitRegardless(s) ==
    /\ scan[s].pc = "open"
    /\ finding' = LET old == scan[s].seen IN
         Inserted(s, [x \in Docs |-> IF x \in Updates(s, old)
                                       THEN Reconciled(scan[s].found, x[2], old[x])
                                       ELSE finding[x]])
    /\ scan' = [scan EXCEPT ![s].pc = "completed", ![s].seen = NoDocs]
    /\ latest' = s
    /\ UNCHANGED <<env, order, verdict>>

\* All writes at once, and the scan is completed.
Commit(s) ==
    /\ scan[s].pc = "open"
    /\ ~Conflict(s)
    /\ finding' = LET old == scan[s].seen IN
         Inserted(s, [x \in Docs |-> IF x \in Updates(s, old)
                                       THEN Reconciled(scan[s].found, x[2], old[x])
                                       ELSE finding[x]])
    /\ scan' = [scan EXCEPT ![s].pc = "completed", ![s].seen = NoDocs]
    /\ latest' = s
    /\ UNCHANGED <<env, order, verdict>>

\* A document it updates has changed: abort, and run the callback again.
RetryTransaction(s) ==
    /\ scan[s].pc = "open"
    /\ Conflict(s)
    /\ scan' = [scan EXCEPT ![s].seen = finding]
    /\ order' = Later(s)
    /\ UNCHANGED <<env, finding, verdict, latest>>

\* Without transactions: SecurityScan.create, in status processing.
CreateScan(s) ==
    /\ ~env.transactions
    /\ MayBegin(s)
    /\ \E found \in SUBSET Keys :
          scan' = [scan EXCEPT ![s].pc = "created", ![s].found = found]
    /\ UNCHANGED <<env, finding, order, verdict, latest>>

InsertFindings(s) ==
    /\ scan[s].pc = "created"
    /\ finding' = Inserted(s, finding)
    /\ order' = Later(s)
    /\ scan' = [scan EXCEPT ![s].pc = "inserted"]
    /\ UNCHANGED <<env, verdict, latest>>

\* The findings of all other scans, completed or processing, are read once.
ReadPrevious(s) ==
    /\ scan[s].pc = "inserted"
    /\ scan' = [scan EXCEPT ![s].pc = "updating", ![s].seen = finding,
                            ![s].todo = Updates(s, finding)]
    /\ UNCHANGED <<env, finding, order, verdict, latest>>

\* One updateOne by _id alone, going by the status read before.
UpdateFinding(s) ==
    /\ scan[s].pc = "updating"
    /\ \E x \in scan[s].todo :
          /\ finding' = [finding EXCEPT ![x] =
                           Reconciled(scan[s].found, x[2], scan[s].seen[x])]
          /\ scan' = [scan EXCEPT ![s].todo = @ \ {x}]
    /\ UNCHANGED <<env, order, verdict, latest>>

CompleteScan(s) ==
    /\ scan[s].pc = "updating"
    /\ scan[s].todo = {}
    /\ scan' = [scan EXCEPT ![s].pc = "completed", ![s].seen = NoDocs]
    /\ latest' = s
    /\ UNCHANGED <<env, finding, order, verdict>>

\* An error or a crash: a transaction leaves nothing, the steps what they wrote,
\* for a job that runs again finds the scan and does not go on.
Dies(s) ==
    /\ Running(s)
    /\ scan' = [scan EXCEPT ![s].pc = "dead", ![s].seen = NoDocs, ![s].todo = {}]
    /\ UNCHANGED <<env, finding, order, verdict, latest>>

OpenCountOfAll(s) == Cardinality({x \in Docs : finding[x] = "open"})

\* The findings of the scan that are open now; acknowledged, resolved and false
\* ones do not count.
OpenCount(s) == Cardinality({k \in Keys : finding[<<s, k>>] = "open"})

\* _evaluateMaxSeverityCount, when the job gets to it.
Evaluate(s) ==
    /\ scan[s].pc = "completed"
    /\ scan' = [scan EXCEPT ![s].pc = "judged"]
    /\ verdict' = [verdict EXCEPT ![s] = IF OpenCount(s) <= MaxCount THEN "holds" ELSE "violated"]
    /\ UNCHANGED <<env, finding, order, latest>>

\* The count fails or the worker dies: the scan is not evaluated again.
EvaluateFails(s) ==
    /\ scan[s].pc = "completed"
    /\ scan' = [scan EXCEPT ![s].pc = "judged"]
    /\ UNCHANGED <<env, finding, order, verdict, latest>>

\* Somebody acknowledges a finding or calls it a false positive: the schema and
\* the rules provide for it, the tests do it, no route of the API does yet.
Decide(x) ==
    /\ finding[x] = "open"
    /\ \E d \in Decided : finding' = [finding EXCEPT ![x] = d]
    /\ UNCHANGED <<env, order, scan, verdict, latest>>

Next ==
    \/ \E s \in Scans :
          \/ BeginTransaction(s) \/ Commit(s) \/ RetryTransaction(s)
          \/ CreateScan(s) \/ InsertFindings(s) \/ ReadPrevious(s)
          \/ UpdateFinding(s) \/ CompleteScan(s) \/ Dies(s)
          \/ Evaluate(s) \/ EvaluateFails(s)
    \/ \E x \in Docs : Decide(x)

Spec == Init /\ [][Next]_vars

-----------------------------------------------------------------------------
(***************************************************************************)
(* Properties.                                                             *)
(***************************************************************************)

\* With transactions, what a person decided about a finding is never changed by
\* a scan, not even by one that read the finding before the decision.
DecisionsStay ==
    [][env.transactions =>
         \A x \in Docs : finding[x] \in Decided => finding'[x] = finding[x]]_vars

\* The status of the newest document of a key.
KeyStatusOf(k) ==
    LET docs == Read(finding, 0, k) IN
    IF docs = {} THEN "none"
    ELSE finding[CHOOSE x \in docs : Newest(docs, x)]

\* Scans of the scope follow each other, each in a transaction.
Serially == env.serial /\ env.transactions

Overlapped == \E s \in Scans : Running(s) \/ scan[s].pc = "dead"

Undecided(s) == {k \in scan[s].found : finding[<<s, k>>] \notin Decided}

\* A scan is judged by its own report, though findings of it may have been
\* resolved by others before the count: no scan is held to have more than it
\* found, and when scans follow each other, none to have less.
JudgedByItsReport ==
    \A s \in Scans :
        /\ verdict[s] = "violated" => Cardinality(scan[s].found) > MaxCount
        /\ verdict[s] = "holds" /\ env.serial /\ env.transactions
              => Cardinality(Undecided(s)) <= MaxCount

DecisionsOn(k) == {finding[x] : x \in Read(finding, 0, k)} \cap Decided

\* Each key, as all its documents together tell of it: decided, when a person
\* has decided about any of them, and what its newest document says otherwise.
KeyView ==
    [k \in Keys |-> IF ~Serially THEN "none"
                    ELSE IF DecisionsOn(k) # {} THEN "decided" ELSE KeyStatusOf(k)]
DecisionView == [k \in Keys |-> IF Serially THEN DecisionsOn(k) ELSE {}]

Abstract == INSTANCE FindingLifecycle WITH status <- KeyView, decisions <- DecisionView

\* Transactions that follow each other keep the seven rules, of a reader who looks
\* for a decision among all documents of a key.
ImplementsLifecycle == Abstract!Spec

\* They do not keep them of one who reads the newest document: a key that is found
\* again gets a new one, which is open ("Previously `acknowledged` finding
\* re-detected -> stays `acknowledged`", securityReconciliation.service.js:21).
RedetectedStaysDecided ==
    [][Serially => \A k \in Keys :
          KeyStatusOf(k) \in Decided => KeyStatusOf(k)' = KeyStatusOf(k)]_vars

\* A finding that is open is in the newest scan, whatever document it is
\* ("open findings absent from newer scan -> resolved",
\* securityReconciliation.service.js:17).
NoStaleOpen ==
    env.serial /\ latest # 0 /\ ~Overlapped =>
        \A x \in Docs : finding[x] = "open" => x[2] \in scan[latest].found
=============================================================================
