-------------------- MODULE FindingReconciliationProofs --------------------
(***************************************************************************)
(* What holds of FindingReconciliation for every finite set of keys, every *)
(* number of scans and every threshold, with and without transactions, one *)
(* scan at a time or many.                                                 *)
(***************************************************************************)
EXTENDS FindingReconciliation, FiniteSetTheorems, TLAPS

(***************************************************************************)
(* The operators.                                                          *)
(***************************************************************************)

LEMMA DocParts ==
    /\ \A x \in Docs : x[1] \in Scans /\ x[2] \in Keys /\ x = <<x[1], x[2]>>
    /\ \A s \in Scans, k \in Keys : <<s, k>> \in Docs /\ <<s, k>>[1] = s /\ <<s, k>>[2] = k
  BY DEF Docs

\* The rules keep a decision, and never take a document away.
LEMMA ReconciledStatus ==
    ASSUME NEW found, NEW k, NEW status \in FindingStatus
    PROVE  /\ Reconciled(found, k, status) \in FindingStatus
           /\ status # "none" => Reconciled(found, k, status) # "none"
           /\ status \in Decided => Reconciled(found, k, status) = status
  BY DEF Reconciled, FindingStatus, Decided

\* What a scan updates is there, and is nothing a person has decided about.
LEMMA UpdatesUndecided ==
    ASSUME NEW s, NEW docs \in [Docs -> FindingStatus], NEW x \in Updates(s, docs)
    PROVE  x \in Docs /\ docs[x] # "none" /\ docs[x] \notin Decided
<1>1. /\ x \in Docs /\ docs[x] # "none"
      /\ Reconciled(scan[s].found, x[2], docs[x]) # docs[x]
  BY DEF Updates, ActsOn, Newest, Read
<1> QED BY <1>1, ReconciledStatus

-----------------------------------------------------------------------------
(***************************************************************************)
(* Where a scan is, and what it has written by then.                       *)
(***************************************************************************)

\* A scan is stored at once or step by step, whichever MongoDB allows.
PcOK ==
    \A s \in Scans :
        /\ env.transactions => scan[s].pc \notin {"created", "inserted", "updating"}
        /\ ~env.transactions => scan[s].pc # "open"
        /\ scan[s].pc # "updating" => scan[s].todo = {}

\* It has no findings before it has written them, and none it has not found.
NotYet ==
    \A s \in Scans :
        scan[s].pc \in {"none", "open", "created"} => (\A k \in Keys : finding[<<s, k>>] = "none")

OnlyFound == \A s \in Scans, k \in Keys : finding[<<s, k>>] # "none" => k \in scan[s].found

\* The documents it has read, and those it will update, are still there.
SeenThere ==
    \A s \in Scans :
        /\ scan[s].pc \in {"open", "updating"} =>
              (\A x \in Docs : scan[s].seen[x] # "none" => finding[x] # "none")
        /\ \A x \in scan[s].todo : scan[s].seen[x] # "none"

IInv == TypeOK /\ PcOK /\ NotYet /\ OnlyFound /\ SeenThere

ScanRecords == [pc : ScanPc, found : SUBSET Keys, seen : [Docs -> FindingStatus],
                todo : SUBSET Docs]

LEMMA NoDocsType == NoDocs \in [Docs -> FindingStatus] /\ (\A x \in Docs : NoDocs[x] = "none")
  BY DEF NoDocs, FindingStatus

LEMMA IInvInit == Init => IInv
<1> SUFFICES ASSUME Init PROVE IInv
  OBVIOUS
<1>1. NewScan \in ScanRecords /\ NewScan.pc = "none" /\ NewScan.todo = {}
  BY NoDocsType DEF NewScan, ScanRecords, ScanPc
<1>2. TypeOK
  BY <1>1, NoDocsType, ScanAssumption DEF Init, TypeOK, ScanRecords
<1>3. PcOK /\ NotYet /\ OnlyFound /\ SeenThere
  BY <1>1, NoDocsType, DocParts DEF Init, PcOK, NotYet, OnlyFound, SeenThere
<1> QED BY <1>2, <1>3 DEF IInv

\* A step of scan s, which leaves it as new: what the invariant asks of it.
LEMMA ScanStep ==
    ASSUME IInv, UNCHANGED env, NEW s \in Scans, NEW new \in ScanRecords,
           scan' = [scan EXCEPT ![s] = new],
           order' \in [Scans -> SUBSET Scans],
           verdict' \in [Scans -> {"none", "holds", "violated"}], latest' \in 0..MaxScans,
           env.transactions => new.pc \notin {"created", "inserted", "updating"},
           ~env.transactions => new.pc # "open",
           new.pc # "updating" => new.todo = {},
           new.found = scan[s].found \/ scan[s].pc = "none",
           new.pc \in {"none", "open", "created"} =>
               scan[s].pc \in {"none", "open", "created"} /\ finding' = finding,
           new.pc \in {"open", "updating"} =>
               (\A x \in Docs : new.seen[x] # "none" => finding[x] # "none"),
           \A x \in new.todo : new.seen[x] # "none",
           finding' \in [Docs -> FindingStatus],
           \A x \in Docs : finding[x] # "none" => finding'[x] # "none",
           \A x \in Docs : finding'[x] # "none" =>
                              finding[x] # "none" \/ (x[1] = s /\ x[2] \in new.found)
    PROVE  IInv'
<1> USE DEF IInv
<1>1. \A r \in Scans : scan'[r] = IF r = s THEN new ELSE scan[r]
  BY DEF TypeOK
<1>2. TypeOK'
  BY DEF TypeOK, ScanRecords
<1>3. PcOK'
  BY <1>1 DEF PcOK
<1>4. NotYet'
  BY <1>1, DocParts DEF NotYet
<1>5. OnlyFound'
  <2> SUFFICES ASSUME NEW r \in Scans, NEW k \in Keys, finding'[<<r, k>>] # "none"
               PROVE  k \in scan'[r].found
    BY DEF OnlyFound
  <2>1. CASE finding[<<r, k>>] # "none"
    BY <1>1, <2>1 DEF OnlyFound, NotYet
  <2>2. CASE r = s /\ k \in new.found
    BY <1>1, <2>2
  <2> QED BY <2>1, <2>2, DocParts
<1>6. SeenThere'
  BY <1>1 DEF SeenThere
<1> QED BY <1>2, <1>3, <1>4, <1>5, <1>6

LEMMA ScanIs ==
    ASSUME IInv, NEW s \in Scans
    PROVE  scan[s] \in ScanRecords /\ finding \in [Docs -> FindingStatus]
  BY DEF IInv, TypeOK, ScanRecords

\* What a commit leaves: its findings open, the updates made, the rest alone.
LEMMA CommitWrites ==
    ASSUME IInv, NEW s \in Scans, Commit(s)
    PROVE  LET found == scan[s].found
               seen  == scan[s].seen
           IN  /\ finding' \in [Docs -> FindingStatus]
               /\ \A x \in Docs :
                     finding'[x] = IF x[1] = s /\ x[2] \in found THEN "open"
                                   ELSE IF x \in Updates(s, seen) THEN Reconciled(found, x[2], seen[x])
                                   ELSE finding[x]
               /\ \A x \in Updates(s, seen) : /\ x \in Docs /\ finding[x] = seen[x]
                                              /\ seen[x] # "none" /\ seen[x] \notin Decided
<1> DEFINE found == scan[s].found
           seen  == scan[s].seen
           written == [x \in Docs |-> IF x \in Updates(s, seen) THEN Reconciled(found, x[2], seen[x])
                                                                ELSE finding[x]]
<1>1. seen \in [Docs -> FindingStatus] /\ finding \in [Docs -> FindingStatus]
  BY ScanIs DEF ScanRecords
<1>2. finding' = Inserted(s, written)
  BY DEF Commit
<1>3. \A x \in Updates(s, seen) : /\ x \in Docs /\ finding[x] = seen[x]
                                  /\ seen[x] # "none" /\ seen[x] \notin Decided
  BY <1>1, UpdatesUndecided DEF Commit, Conflict
<1>4. \A x \in Docs :
         finding'[x] = IF x[1] = s /\ x[2] \in found THEN "open"
                       ELSE IF x \in Updates(s, seen) THEN Reconciled(found, x[2], seen[x])
                       ELSE finding[x]
  BY <1>2 DEF Inserted
<1>5. \A x \in Docs : Reconciled(found, x[2], seen[x]) \in FindingStatus
  BY <1>1, ReconciledStatus
<1>6. finding' \in [Docs -> FindingStatus]
  <2>1. finding' = [x \in Docs |-> finding'[x]]
    BY <1>2 DEF Inserted
  <2>2. \A x \in Docs : finding'[x] \in FindingStatus
    BY <1>1, <1>4, <1>5 DEF FindingStatus
  <2> QED BY <2>1, <2>2
<1> QED BY <1>3, <1>4, <1>6

LEMMA ScanRange == \A s \in Scans : s \in 0..MaxScans
  BY ScanAssumption DEF Scans

LEMMA LaterType ==
    ASSUME TypeOK, NEW s \in Scans PROVE Later(s) \in [Scans -> SUBSET Scans]
  BY DEF Later, TypeOK

LEMMA TransactionStep ==
    ASSUME IInv, NEW s \in Scans, BeginTransaction(s) \/ Commit(s) \/ RetryTransaction(s)
    PROVE  IInv'
<1> USE DEF IInv
<1>0. /\ scan[s] \in ScanRecords /\ finding \in [Docs -> FindingStatus]
      /\ NoDocs \in [Docs -> FindingStatus] /\ \A x \in Docs : NoDocs[x] = "none"
  BY ScanIs, NoDocsType
<1>1. CASE BeginTransaction(s)
  <2>1. PICK found \in SUBSET Keys :
           scan' = [scan EXCEPT ![s] = [pc |-> "open", found |-> found,
                                        seen |-> finding, todo |-> {}]]
    BY <1>1 DEF BeginTransaction
  <2> DEFINE new == [pc |-> "open", found |-> found, seen |-> finding, todo |-> {}]
  <2>2. new \in ScanRecords
    BY <1>0 DEF ScanRecords, ScanPc
  <2>3. order' \in [Scans -> SUBSET Scans]
    BY <1>1, LaterType DEF BeginTransaction
  <2> QED BY <1>0, <1>1, <2>1, <2>2, <2>3, ScanStep DEF BeginTransaction, MayBegin, TypeOK
<1>2. CASE Commit(s)
  <2> DEFINE new == [scan[s] EXCEPT !.pc = "completed", !.seen = NoDocs]
  <2>1. /\ new \in ScanRecords /\ new.pc = "completed" /\ new.todo = {} /\ new.found = scan[s].found
        /\ scan' = [scan EXCEPT ![s] = new]
        /\ s \in 0..MaxScans
    BY <1>0, <1>2, ScanRange DEF Commit, ScanRecords, ScanPc, PcOK, TypeOK
  <2>2. /\ finding' \in [Docs -> FindingStatus]
        /\ \A x \in Docs : finding[x] # "none" => finding'[x] # "none"
        /\ \A x \in Docs : finding'[x] # "none" =>
                              finding[x] # "none" \/ (x[1] = s /\ x[2] \in new.found)
    <3>1. scan[s].seen \in [Docs -> FindingStatus]
      BY <1>0 DEF ScanRecords
    <3>2. \A x \in Updates(s, scan[s].seen) :
             Reconciled(scan[s].found, x[2], scan[s].seen[x]) # "none"
      BY <1>2, <3>1, ReconciledStatus, CommitWrites
    <3> QED BY <1>2, <2>1, <3>2, CommitWrites
  <2> HIDE DEF new
  <2> QED BY <1>2, <2>1, <2>2, ScanStep DEF Commit, TypeOK
<1>3. CASE RetryTransaction(s)
  <2> DEFINE new == [scan[s] EXCEPT !.seen = finding]
  <2>1. /\ new \in ScanRecords /\ scan[s].pc = "open" /\ new.pc = "open" /\ new.todo = {}
        /\ new.found = scan[s].found /\ new.seen = finding
        /\ scan' = [scan EXCEPT ![s] = new]
    BY <1>0, <1>3 DEF RetryTransaction, ScanRecords, PcOK
  <2>2. order' \in [Scans -> SUBSET Scans]
    BY <1>3, LaterType DEF RetryTransaction
  <2> HIDE DEF new
  <2> QED BY <1>0, <1>3, <2>1, <2>2, ScanStep DEF RetryTransaction, TypeOK, PcOK
<1> QED BY <1>1, <1>2, <1>3

LEMMA StepByStep ==
    ASSUME IInv, NEW s \in Scans,
           CreateScan(s) \/ InsertFindings(s) \/ ReadPrevious(s) \/ UpdateFinding(s) \/ CompleteScan(s)
    PROVE  IInv'
<1> USE DEF IInv
<1>0. /\ scan[s] \in ScanRecords /\ finding \in [Docs -> FindingStatus]
      /\ NoDocs \in [Docs -> FindingStatus] /\ \A x \in Docs : NoDocs[x] = "none"
  BY ScanIs, NoDocsType
<1>1. CASE CreateScan(s)
  <2>1. PICK found \in SUBSET Keys :
           scan' = [scan EXCEPT ![s] = [scan[s] EXCEPT !.pc = "created", !.found = found]]
    BY <1>1 DEF CreateScan, TypeOK
  <2> DEFINE new == [scan[s] EXCEPT !.pc = "created", !.found = found]
  <2>2. new \in ScanRecords /\ new.pc = "created" /\ new.todo = {} /\ scan[s].pc = "none"
    BY <1>0, <1>1 DEF CreateScan, MayBegin, ScanRecords, ScanPc, PcOK
  <2> HIDE DEF new
  <2> QED BY <1>0, <1>1, <2>1, <2>2, ScanStep DEF new, CreateScan, TypeOK
<1>2. CASE InsertFindings(s)
  <2> DEFINE new == [scan[s] EXCEPT !.pc = "inserted"]
  <2>1. /\ new \in ScanRecords /\ new.pc = "inserted" /\ new.todo = {}
        /\ new.found = scan[s].found /\ scan[s].pc = "created"
        /\ scan' = [scan EXCEPT ![s] = new]
    BY <1>0, <1>2 DEF InsertFindings, ScanRecords, ScanPc, PcOK
  <2>2. order' \in [Scans -> SUBSET Scans]
    BY <1>2, LaterType DEF InsertFindings
  <2>3. /\ finding' \in [Docs -> FindingStatus]
        /\ \A x \in Docs : finding[x] # "none" => finding'[x] # "none"
        /\ \A x \in Docs : finding'[x] # "none" =>
                              finding[x] # "none" \/ (x[1] = s /\ x[2] \in new.found)
    BY <1>0, <1>2, <2>1 DEF InsertFindings, Inserted, FindingStatus
  <2> HIDE DEF new
  <2> QED BY <1>2, <2>1, <2>2, <2>3, ScanStep DEF InsertFindings, TypeOK, PcOK
<1>3. CASE ReadPrevious(s)
  <2> DEFINE new == [scan[s] EXCEPT !.pc = "updating", !.seen = finding,
                                    !.todo = Updates(s, finding)]
  <2>1. \A x \in Updates(s, finding) : x \in Docs /\ finding[x] # "none"
    BY <1>0, UpdatesUndecided
  <2>2. /\ new \in ScanRecords /\ new.pc = "updating" /\ new.todo = Updates(s, finding)
        /\ new.found = scan[s].found /\ new.seen = finding /\ scan[s].pc = "inserted"
        /\ scan' = [scan EXCEPT ![s] = new]
    BY <1>0, <1>3, <2>1 DEF ReadPrevious, ScanRecords, ScanPc, TypeOK
  <2>3. /\ \A x \in Docs : new.seen[x] # "none" => finding[x] # "none"
        /\ \A x \in new.todo : new.seen[x] # "none"
    BY <2>1, <2>2
  <2>4. ~env.transactions /\ UNCHANGED <<env, finding, order, verdict, latest>>
    BY <1>3, <2>2 DEF ReadPrevious, PcOK
  <2> HIDE DEF new
  <2> QED BY <1>0, <2>2, <2>3, <2>4, ScanStep DEF TypeOK
<1>4. CASE UpdateFinding(s)
  <2>1. PICK x \in scan[s].todo :
           /\ finding' = [finding EXCEPT ![x] = Reconciled(scan[s].found, x[2], scan[s].seen[x])]
           /\ scan' = [scan EXCEPT ![s] = [scan[s] EXCEPT !.todo = scan[s].todo \ {x}]]
    BY <1>4 DEF UpdateFinding, TypeOK
  <2> DEFINE new == [scan[s] EXCEPT !.todo = scan[s].todo \ {x}]
  <2>2. /\ new \in ScanRecords /\ new.pc = "updating" /\ new.todo \subseteq scan[s].todo
        /\ new.found = scan[s].found /\ new.seen = scan[s].seen /\ scan[s].pc = "updating"
    BY <1>0, <1>4 DEF UpdateFinding, ScanRecords
  <2>3. /\ x \in Docs /\ scan[s].seen[x] \in FindingStatus /\ scan[s].seen[x] # "none"
        /\ finding[x] # "none"
    BY <1>0, <2>2 DEF ScanRecords, SeenThere
  <2>4. /\ Reconciled(scan[s].found, x[2], scan[s].seen[x]) \in FindingStatus \ {"none"}
    BY <2>3, ReconciledStatus
  <2>5. /\ finding' \in [Docs -> FindingStatus]
        /\ \A y \in Docs : finding[y] # "none" <=> finding'[y] # "none"
    BY <1>0, <2>1, <2>3, <2>4
  <2>6. /\ \A y \in Docs : new.seen[y] # "none" => finding[y] # "none"
        /\ \A y \in new.todo : new.seen[y] # "none"
    BY <2>2 DEF SeenThere
  <2> HIDE DEF new
  <2> QED BY <1>4, <2>1, <2>2, <2>5, <2>6, ScanStep DEF new, UpdateFinding, TypeOK, PcOK
<1>5. CASE CompleteScan(s)
  <2> DEFINE new == [scan[s] EXCEPT !.pc = "completed", !.seen = NoDocs]
  <2>1. /\ new \in ScanRecords /\ new.pc = "completed" /\ new.todo = {} /\ new.found = scan[s].found
        /\ scan' = [scan EXCEPT ![s] = new]
        /\ s \in 0..MaxScans
    BY <1>0, <1>5, ScanRange DEF CompleteScan, ScanRecords, ScanPc, TypeOK
  <2> HIDE DEF new
  <2> QED BY <1>0, <1>5, <2>1, ScanStep DEF CompleteScan, TypeOK
<1> QED BY <1>1, <1>2, <1>3, <1>4, <1>5

LEMMA EndStep ==
    ASSUME IInv, NEW s \in Scans, Dies(s) \/ Evaluate(s) \/ EvaluateFails(s)
    PROVE  IInv'
<1> USE DEF IInv
<1>0. /\ scan[s] \in ScanRecords /\ finding \in [Docs -> FindingStatus]
      /\ NoDocs \in [Docs -> FindingStatus]
  BY ScanIs, NoDocsType
<1>1. CASE Dies(s)
  <2> DEFINE new == [scan[s] EXCEPT !.pc = "dead", !.seen = NoDocs, !.todo = {}]
  <2>1. /\ new \in ScanRecords /\ new.pc = "dead" /\ new.todo = {} /\ new.found = scan[s].found
        /\ scan' = [scan EXCEPT ![s] = new]
    BY <1>0, <1>1 DEF Dies, ScanRecords, ScanPc
  <2> HIDE DEF new
  <2> QED BY <1>0, <1>1, <2>1, ScanStep DEF Dies, TypeOK
<1>2. CASE Evaluate(s) \/ EvaluateFails(s)
  <2> DEFINE new == [scan[s] EXCEPT !.pc = "judged"]
  <2>1. /\ new \in ScanRecords /\ new.pc = "judged" /\ new.todo = {} /\ new.found = scan[s].found
        /\ scan' = [scan EXCEPT ![s] = new]
    BY <1>0, <1>2 DEF Evaluate, EvaluateFails, ScanRecords, ScanPc, PcOK
  <2>2. verdict' \in [Scans -> {"none", "holds", "violated"}]
    BY <1>2 DEF Evaluate, EvaluateFails, TypeOK
  <2> HIDE DEF new
  <2> QED BY <1>0, <1>2, <2>1, <2>2, ScanStep DEF Evaluate, EvaluateFails, TypeOK
<1> QED BY <1>1, <1>2

LEMMA DecideStep ==
    ASSUME IInv, NEW x \in Docs, Decide(x)
    PROVE  /\ IInv' /\ UNCHANGED <<env, order, scan, verdict, latest>>
           /\ \A y \in Docs : \/ finding'[y] = finding[y]
                              \/ y = x /\ finding[y] = "open" /\ finding'[y] \in Decided
<1> USE DEF IInv
<1>1. PICK d \in Decided : finding[x] = "open" /\ finding' = [finding EXCEPT ![x] = d]
  BY DEF Decide
<1>2. /\ finding' \in [Docs -> FindingStatus]
      /\ \A y \in Docs : finding'[y] = IF y = x THEN d ELSE finding[y]
  BY <1>1 DEF TypeOK, FindingStatus
<1>3. \A y \in Docs : finding[y] # "none" <=> finding'[y] # "none"
  BY <1>1, <1>2 DEF Decided
<1>4. IInv'
  BY <1>2, <1>3, DocParts DEF Decide, TypeOK, PcOK, NotYet, OnlyFound, SeenThere
<1> QED BY <1>1, <1>2, <1>4 DEF Decide

LEMMA IInvNext == IInv /\ [Next]_vars => IInv'
<1> SUFFICES ASSUME IInv, [Next]_vars PROVE IInv'
  OBVIOUS
<1>1. CASE UNCHANGED vars
  BY <1>1 DEF vars, IInv, TypeOK, PcOK, NotYet, OnlyFound, SeenThere
<1> QED BY <1>1, TransactionStep, StepByStep, EndStep, DecideStep DEF Next

THEOREM Invariance == Spec => []IInv
  BY IInvInit, IInvNext, PTL DEF Spec

\* Every variable keeps its type.
THEOREM TypeCorrect == Spec => []TypeOK
<1>1. IInv => TypeOK
  BY DEF IInv
<1> QED BY <1>1, Invariance, PTL

-----------------------------------------------------------------------------
(***************************************************************************)
(* Decisions of people.                                                    *)
(***************************************************************************)

Act(s) ==
    \/ BeginTransaction(s) \/ Commit(s) \/ RetryTransaction(s)
    \/ CreateScan(s) \/ InsertFindings(s) \/ ReadPrevious(s)
    \/ UpdateFinding(s) \/ CompleteScan(s) \/ Dies(s)
    \/ Evaluate(s) \/ EvaluateFails(s)

\* With transactions the only step of a scan that writes findings is Commit.
LEMMA OnlyCommitWrites ==
    ASSUME IInv, env.transactions, NEW s \in Scans, Act(s)
    PROVE  Commit(s) \/ UNCHANGED finding
<1>1. ~InsertFindings(s) /\ ~UpdateFinding(s)
  BY DEF IInv, PcOK, InsertFindings, UpdateFinding
<1> QED BY <1>1 DEF Act, BeginTransaction, RetryTransaction, CreateScan, ReadPrevious, CompleteScan,
                    Dies, Evaluate, EvaluateFails

LEMMA DecisionsKept ==
    ASSUME IInv, [Next]_vars, env.transactions, NEW x \in Docs, finding[x] \in Decided
    PROVE  finding'[x] = finding[x]
<1>1. ASSUME NEW s \in Scans, Commit(s) PROVE finding'[x] = finding[x]
  <2>1. ~(x[1] = s /\ x[2] \in scan[s].found)
    <3>1. scan[s].pc = "open"
      BY <1>1 DEF Commit
    <3> QED BY <3>1, DocParts DEF IInv, NotYet, Decided
  <2>2. x \notin Updates(s, scan[s].seen)
    BY <1>1, CommitWrites
  <2> QED BY <1>1, <2>1, <2>2, CommitWrites
<1>2. ASSUME NEW y \in Docs, Decide(y) PROVE finding'[x] = finding[x]
  BY <1>2, DecideStep DEF Decided
<1>3. CASE UNCHANGED finding
  BY <1>3
<1> QED BY <1>1, <1>2, <1>3, OnlyCommitWrites DEF Next, vars, Act

\* With transactions no scan changes what a person decided about a finding, not
\* even one that read the finding before the decision.
THEOREM DecisionsAreKept == Spec => DecisionsStay
<1>1. IInv /\ [Next]_vars =>
        [env.transactions =>
           \A x \in Docs : finding[x] \in Decided => finding'[x] = finding[x]]_vars
  BY DecisionsKept
<1> QED BY <1>1, Invariance, PTL DEF Spec, DecisionsStay

-----------------------------------------------------------------------------
(***************************************************************************)
(* What a scan is judged by.                                               *)
(***************************************************************************)

Busy(s) == scan[s].pc \notin {"none", "judged", "dead"}

Alone == env.serial => (\A r, s \in Scans : Busy(r) /\ Busy(s) => r = s)

\* Between its commit and its evaluation nobody resolves a finding of a scan.
CompletedOK ==
    Serially =>
        \A s \in Scans : scan[s].pc = "completed" =>
            (\A k \in scan[s].found : finding[<<s, k>>] \in {"open"} \cup Decided)

VerdictOK == \A s \in Scans : verdict[s] # "none" => scan[s].pc = "judged"

JInv == Alone /\ CompletedOK /\ VerdictOK /\ JudgedByItsReport

\* Where a step of a scan leaves the scan.
LEMMA ActMoves ==
    ASSUME IInv, NEW s \in Scans, Act(s)
    PROVE  /\ UNCHANGED env
           /\ \A r \in Scans : r # s => scan'[r] = scan[r]
           /\ scan[s].pc \notin {"judged", "dead"}
           /\ scan'[s].pc # "none"
           /\ scan[s].pc = "none" => MayBegin(s) /\ scan'[s].pc \in {"open", "created"}
           /\ scan[s].pc # "none" => scan'[s].found = scan[s].found
           /\ scan[s].pc = "completed" <=> Evaluate(s) \/ EvaluateFails(s)
           /\ scan'[s].pc = "completed" => Commit(s) \/ CompleteScan(s)
           /\ verdict' = verdict \/ Evaluate(s)
<1>1. scan[s] \in ScanRecords /\ scan \in [Scans -> ScanRecords]
  BY DEF IInv, TypeOK, ScanRecords
<1>2. CASE BeginTransaction(s) \/ CreateScan(s)
  BY <1>1, <1>2 DEF BeginTransaction, CreateScan, MayBegin, ScanRecords, Evaluate, EvaluateFails
<1>3. CASE Commit(s) \/ RetryTransaction(s) \/ CompleteScan(s)
  BY <1>1, <1>3 DEF Commit, RetryTransaction, CompleteScan, ScanRecords, Evaluate, EvaluateFails
<1>4. CASE InsertFindings(s) \/ ReadPrevious(s) \/ UpdateFinding(s)
  BY <1>1, <1>4
     DEF InsertFindings, ReadPrevious, UpdateFinding, ScanRecords, Evaluate, EvaluateFails
<1>5. CASE Dies(s) \/ Evaluate(s) \/ EvaluateFails(s)
  BY <1>1, <1>5 DEF Dies, Running, ScanRecords, Evaluate, EvaluateFails
<1> QED BY <1>2, <1>3, <1>4, <1>5 DEF Act

\* When scans follow each other, all others are at rest while one moves.
LEMMA OthersAtRest ==
    ASSUME IInv, Alone, env.serial, NEW s \in Scans, Act(s), NEW r \in Scans, r # s
    PROVE  ~Busy(r)
  BY ActMoves DEF Alone, Busy, MayBegin

LEMMA FoundFinite ==
    ASSUME IInv, NEW s \in Scans
    PROVE  /\ IsFiniteSet(scan[s].found)
           /\ \A A \in SUBSET scan[s].found : /\ IsFiniteSet(A) /\ Cardinality(A) \in Nat
                                              /\ Cardinality(A) <= Cardinality(scan[s].found)
<1>1. scan[s].found \subseteq Keys
  BY DEF IInv, TypeOK
<1>2. IsFiniteSet(scan[s].found)
  BY <1>1, FS_Subset, ScanAssumption
<1> QED BY <1>2, FS_Subset, FS_CardinalityType

\* What the rule counts is part of what the scan found, and, when scans follow
\* each other, is all of it that nobody has decided about.
LEMMA Counted ==
    ASSUME IInv, CompletedOK, NEW s \in Scans, scan[s].pc = "completed"
    PROVE  LET open == {k \in Keys : finding[<<s, k>>] = "open"}
           IN  open \subseteq scan[s].found /\ (Serially => open = Undecided(s))
<1> DEFINE open == {k \in Keys : finding[<<s, k>>] = "open"}
<1>1. open \subseteq scan[s].found
  BY DEF IInv, OnlyFound
<1>2. scan[s].found \subseteq Keys
  BY DEF IInv, TypeOK
<1>3. ASSUME Serially PROVE open = Undecided(s)
  BY <1>1, <1>2, <1>3 DEF CompletedOK, Undecided, Decided
<1> QED BY <1>1, <1>3

LEMMA EvaluateStep ==
    ASSUME IInv, JInv, NEW s \in Scans, Evaluate(s)
    PROVE  /\ verdict'[s] = "violated" => Cardinality(scan[s].found) > MaxCount
           /\ verdict'[s] = "holds" /\ Serially => Cardinality(Undecided(s)) <= MaxCount
<1> DEFINE open == {k \in Keys : finding[<<s, k>>] = "open"}
<1>1. /\ scan[s].pc = "completed"
      /\ verdict'[s] = IF Cardinality(open) <= MaxCount THEN "holds" ELSE "violated"
  BY DEF IInv, TypeOK, Evaluate, OpenCount
<1>2. /\ open \subseteq scan[s].found
      /\ Serially => open = Undecided(s)
  BY <1>1, Counted DEF JInv
<1>3. /\ Cardinality(open) \in Nat /\ Cardinality(scan[s].found) \in Nat
      /\ Cardinality(open) <= Cardinality(scan[s].found)
  BY <1>2, FoundFinite
<1> HIDE DEF open
<1> QED BY <1>1, <1>2, <1>3, ScanAssumption

\* A scan that has its verdict keeps it, and of its findings no more become
\* undecided.
LEMMA JudgedStays ==
    ASSUME IInv, JInv, [Next]_vars, NEW s \in Scans, verdict[s] # "none"
    PROVE  /\ verdict'[s] = verdict[s] /\ scan'[s] = scan[s] /\ UNCHANGED env
           /\ Serially => Undecided(s)' \subseteq Undecided(s)
<1>1. scan[s].pc = "judged"
  BY DEF JInv, VerdictOK
<1>2. verdict'[s] = verdict[s] /\ scan'[s] = scan[s] /\ UNCHANGED env
  <2>1. ASSUME NEW r \in Scans, Act(r)
        PROVE  verdict'[s] = verdict[s] /\ scan'[s] = scan[s] /\ UNCHANGED env
    <3>1. r # s
      BY <1>1, <2>1, ActMoves
    <3> QED BY <2>1, <3>1, ActMoves DEF Evaluate, IInv, TypeOK
  <2> QED BY <2>1, DecideStep DEF Next, Act, vars
<1>3. ASSUME Serially PROVE Undecided(s)' \subseteq Undecided(s)
  <2>1. scan[s].found \subseteq Keys
    BY DEF IInv, TypeOK
  <2>2. \A k \in scan[s].found : finding[<<s, k>>] \in Decided => finding'[<<s, k>>] \in Decided
    BY <1>3, <2>1, DecisionsKept, DocParts DEF Serially
  <2> QED BY <1>2, <2>2 DEF Undecided
<1> QED BY <1>2, <1>3

LEMMA JInvInit == Init => JInv
<1> SUFFICES ASSUME Init PROVE JInv
  OBVIOUS
<1>1. \A s \in Scans : scan[s].pc = "none" /\ verdict[s] = "none"
  BY DEF Init, NewScan
<1> QED BY <1>1 DEF JInv, Alone, Busy, CompletedOK, VerdictOK, JudgedByItsReport

LEMMA JInvNext == IInv /\ JInv /\ [Next]_vars => JInv'
<1> SUFFICES ASSUME IInv, JInv, [Next]_vars PROVE JInv'
  OBVIOUS
<1>1. Alone'
  <2>1. ASSUME NEW s \in Scans, Act(s) PROVE Alone'
    <3>1. UNCHANGED env /\ \A r \in Scans : r # s => scan'[r] = scan[r]
      BY <2>1, ActMoves
    <3>2. env.serial => (\A r \in Scans : r # s => ~Busy(r))
      BY <2>1, OthersAtRest DEF JInv
    <3> QED BY <3>1, <3>2 DEF Alone, Busy
  <2> QED BY <2>1, DecideStep DEF Next, Act, vars, JInv, Alone, Busy
<1>2. CompletedOK'
  <2>1. ASSUME NEW s \in Scans, Act(s), Serially, NEW r \in Scans, scan'[r].pc = "completed"
        PROVE  \A k \in scan'[r].found : finding'[<<r, k>>] \in {"open"} \cup Decided
    <3>1. r = s
      BY <2>1, OthersAtRest, ActMoves DEF Busy, JInv, Serially
    <3>2. Commit(s)
      BY <2>1, <3>1, ActMoves DEF CompleteScan, IInv, PcOK, Serially
    <3>3. scan'[s].found = scan[s].found /\ scan[s].found \subseteq Keys
      BY <2>1, <3>2, ActMoves DEF Commit, IInv, TypeOK
    <3> QED BY <3>1, <3>2, <3>3, CommitWrites, DocParts
  <2>2. ASSUME NEW x \in Docs, Decide(x) PROVE CompletedOK'
    <3>1. \A s \in Scans : scan[s].found \subseteq Keys
      BY DEF IInv, TypeOK
    <3> QED BY <2>2, <3>1, DecideStep, DocParts DEF JInv, CompletedOK, Serially, Decided
  <2>3. CASE UNCHANGED vars
    BY <2>3 DEF vars, JInv, CompletedOK, Serially
  <2>4. ASSUME NEW s \in Scans, Act(s) PROVE CompletedOK'
    BY <2>1, <2>4, ActMoves DEF CompletedOK, Serially
  <2> QED BY <2>2, <2>3, <2>4 DEF Next, Act
<1>3. VerdictOK'
  <2>1. ASSUME NEW s \in Scans, Act(s) PROVE VerdictOK'
    <3>1. \A r \in Scans : r # s => scan'[r] = scan[r] /\ verdict'[r] = verdict[r]
      BY <2>1, ActMoves DEF Evaluate, IInv, TypeOK
    <3>2. CASE Evaluate(s)
      <4>1. scan'[s].pc = "judged"
        BY <3>2 DEF Evaluate, IInv, TypeOK
      <4> QED BY <3>1, <4>1 DEF JInv, VerdictOK
    <3>3. CASE verdict' = verdict
      BY <2>1, <3>1, <3>3, ActMoves DEF JInv, VerdictOK
    <3> QED BY <2>1, <3>2, <3>3, ActMoves
  <2> QED BY <2>1, DecideStep DEF Next, Act, vars, JInv, VerdictOK
<1>4. JudgedByItsReport'
  <2> SUFFICES ASSUME NEW s \in Scans, verdict'[s] # "none"
               PROVE  /\ verdict'[s] = "violated" => Cardinality(scan'[s].found) > MaxCount
                      /\ verdict'[s] = "holds" /\ Serially' => Cardinality(Undecided(s)') <= MaxCount
    BY DEF JudgedByItsReport, Serially
  <2>1. CASE verdict[s] # "none"
    <3>1. /\ verdict'[s] = verdict[s] /\ scan'[s] = scan[s] /\ Serially' = Serially
          /\ Serially => Undecided(s)' \subseteq Undecided(s)
      BY <2>1, JudgedStays DEF Serially
    <3>2. /\ verdict[s] = "violated" => Cardinality(scan[s].found) > MaxCount
          /\ verdict[s] = "holds" /\ Serially => Cardinality(Undecided(s)) <= MaxCount
      BY DEF JInv, JudgedByItsReport, Serially
    <3>3. Undecided(s) \subseteq scan[s].found
      BY DEF Undecided
    <3>4. IsFiniteSet(Undecided(s)) /\ Cardinality(Undecided(s)) \in Nat
      BY <3>3, FoundFinite
    <3>5. ASSUME Serially, verdict[s] = "holds" PROVE Cardinality(Undecided(s)') <= MaxCount
      <4>1. /\ Cardinality(Undecided(s)') \in Nat
            /\ Cardinality(Undecided(s)') <= Cardinality(Undecided(s))
        BY <3>1, <3>4, <3>5, FS_Subset, FS_CardinalityType
      <4> QED BY <3>2, <3>4, <3>5, <4>1, ScanAssumption
    <3> QED BY <3>1, <3>2, <3>5
  <2>2. CASE verdict[s] = "none"
    <3>1. Evaluate(s)
      <4>1. verdict' # verdict
        BY <2>2
      <4>2. PICK r \in Scans : Act(r) /\ Evaluate(r)
        BY <4>1, ActMoves, DecideStep DEF Next, Act, vars
      <4> QED BY <2>2, <4>2 DEF Evaluate, IInv, TypeOK
    <3>2. UNCHANGED <<env, finding>> /\ scan'[s].found = scan[s].found
      BY <3>1 DEF Evaluate, IInv, TypeOK
    <3>3. Undecided(s)' = Undecided(s) /\ Serially' = Serially
      BY <3>2 DEF Undecided, Serially
    <3> QED BY <3>1, <3>2, <3>3, EvaluateStep
  <2> QED BY <2>1, <2>2
<1> QED BY <1>1, <1>2, <1>3, <1>4 DEF JInv

\* No scan is held to have more findings than it reported, though others may
\* resolve findings of it before the rule counts them; and when transactions
\* follow each other none is held to have less than are still undecided.
THEOREM JudgedByReport == Spec => []JudgedByItsReport
<1>1. JInv => JudgedByItsReport
  BY DEF JInv
<1> QED BY <1>1, Invariance, JInvInit, JInvNext, PTL DEF Spec

-----------------------------------------------------------------------------
(***************************************************************************)
(* Transactions that follow each other implement the life of a finding.    *)
(***************************************************************************)

OrderOK == \A r, s \in Scans : r \in order[s] => s \notin order[r]

\* Of the documents of a key one is newer than all others.
NewestExists ==
    \A k \in Keys :
        Read(finding, 0, k) # {} => \E x \in Docs : Newest(Read(finding, 0, k), x)

OpenNewest ==
    \A r, s \in Scans : scan[s].pc = "open" /\ r # s => r \in order[s]

\* What a transaction has read is what there is, but for decisions made since.
SeenOK ==
    \A s \in Scans : scan[s].pc = "open" =>
        (\A x \in Docs : \/ finding[x] = scan[s].seen[x]
                         \/ scan[s].seen[x] = "open" /\ finding[x] \in Decided)

RInv == OrderOK /\ (Serially => NewestExists /\ OpenNewest /\ SeenOK)

LEMMA ReadAll ==
    ASSUME NEW k, NEW x
    PROVE  x \in Read(finding, 0, k) <=> x \in Docs /\ x[2] = k /\ finding[x] # "none"
<1>1. \A y \in Docs : y[1] # 0
  BY DocParts, ScanAssumption DEF Scans
<1> QED BY <1>1 DEF Read

\* The newest document of a key is the one the key is shown by.
LEMMA KeyStatusIs ==
    ASSUME OrderOK, NEW k \in Keys, NEW x \in Docs, Newest(Read(finding, 0, k), x)
    PROVE  KeyStatusOf(k) = finding[x]
<1> DEFINE docs == Read(finding, 0, k)
<1>1. x \in docs
  BY DEF Newest
<1>2. ASSUME NEW y \in docs, Newest(docs, y) PROVE y = x
  <2>1. y \in Docs /\ y[2] = k /\ x[2] = k
    BY <1>1, ReadAll
  <2>2. y[1] = x[1]
    BY <1>1, <1>2, <2>1, DocParts DEF Newest, OrderOK
  <2> QED BY <2>1, <2>2, DocParts
<1>3. (CHOOSE y \in docs : Newest(docs, y)) = x
  BY <1>1, <1>2
<1> QED BY <1>1, <1>3 DEF KeyStatusOf

LEMMA KeyStatusNone ==
    ASSUME NEW k \in Keys, Read(finding, 0, k) = {} PROVE KeyStatusOf(k) = "none"
  BY DEF KeyStatusOf

LEMMA LaterOrder ==
    ASSUME OrderOK, NEW s \in Scans, order' = Later(s)
    PROVE  OrderOK' /\ (\A r \in Scans : r # s => r \in order'[s])
<1>1. \A r \in Scans : order'[r] = IF r = s THEN Scans \ {s} ELSE order[r] \ {s}
  BY DEF Later
<1> QED BY <1>1 DEF OrderOK

\* A scan that has no documents may become the newest: no key is shown otherwise.
LEMMA LaterKeeps ==
    ASSUME IInv, NEW s \in Scans, scan[s].pc \in {"none", "open", "created"},
           order' = Later(s), UNCHANGED finding, NEW k \in Keys
    PROVE  /\ Read(finding, 0, k)' = Read(finding, 0, k)
           /\ \A x \in Docs :
                 Newest(Read(finding, 0, k), x)' <=> Newest(Read(finding, 0, k), x)
<1>1. \A r \in Scans : order'[r] = IF r = s THEN Scans \ {s} ELSE order[r] \ {s}
  BY DEF Later
<1>2. \A x \in Docs : finding[x] # "none" => x[1] # s
  BY DocParts DEF IInv, NotYet
<1>3. Read(finding, 0, k)' = Read(finding, 0, k)
  BY DEF Read
<1>4. \A y \in Read(finding, 0, k) : y \in Docs /\ y[1] # s /\ y[1] \in Scans
  BY <1>2, ReadAll, DocParts
<1>5. ASSUME NEW x \in Read(finding, 0, k), NEW y \in Read(finding, 0, k)
      PROVE  y[1] \in order'[x[1]] <=> y[1] \in order[x[1]]
  BY <1>1, <1>4
<1> QED BY <1>3, <1>5 DEF Newest

\* Before its commit a scan has read all documents there are of a key.
LEMMA ReadsAll ==
    ASSUME IInv, SeenOK, NEW s \in Scans, scan[s].pc = "open", NEW k
    PROVE  Read(scan[s].seen, s, k) = Read(finding, 0, k)
<1>1. \A x \in Docs : /\ finding[x] # "none" => x[1] # s
                      /\ scan[s].seen[x] # "none" <=> finding[x] # "none"
  BY DocParts DEF IInv, NotYet, SeenOK, Decided
<1> QED BY <1>1, ReadAll DEF Read

\* What a commit makes of a key.
LEMMA CommitKey ==
    ASSUME IInv, RInv, Serially, NEW s \in Scans, Commit(s), NEW k \in Keys
    PROVE  /\ k \in scan[s].found =>
                 Newest(Read(finding, 0, k), <<s, k>>)' /\ finding'[<<s, k>>] = "open"
           /\ k \notin scan[s].found =>
                 /\ Read(finding, 0, k)' = Read(finding, 0, k)
                 /\ \A x \in Docs : Newest(Read(finding, 0, k), x) =>
                       /\ Newest(Read(finding, 0, k), x)'
                       /\ finding'[x] = IF finding[x] = "open" THEN "resolved" ELSE finding[x]
<1>1. scan[s].pc = "open" /\ order' = order
  BY DEF Commit
<1>2. /\ \A x \in Docs :
            finding'[x] = IF x[1] = s /\ x[2] \in scan[s].found THEN "open"
                          ELSE IF x \in Updates(s, scan[s].seen)
                                 THEN Reconciled(scan[s].found, x[2], scan[s].seen[x])
                          ELSE finding[x]
      /\ \A x \in Updates(s, scan[s].seen) : /\ x \in Docs /\ finding[x] = scan[s].seen[x]
                                             /\ scan[s].seen[x] # "none"
                                             /\ scan[s].seen[x] \notin Decided
  BY CommitWrites
<1>3. ASSUME k \in scan[s].found
      PROVE  Newest(Read(finding, 0, k), <<s, k>>)' /\ finding'[<<s, k>>] = "open"
  <2>1. finding'[<<s, k>>] = "open" /\ <<s, k>> \in Docs
    BY <1>2, <1>3, DocParts
  <2>2. <<s, k>> \in Read(finding, 0, k)' /\ (\A y \in Read(finding, 0, k)' : y \in Docs)
    BY <2>1, DocParts, ScanAssumption DEF Read, Scans
  <2>3. \A y \in Docs : y[1] = s \/ y[1] \in order'[s]
    BY <1>1, DocParts DEF RInv, OpenNewest
  <2> QED BY <2>1, <2>2, <2>3, DocParts DEF Newest
<1>4. ASSUME k \notin scan[s].found
      PROVE  /\ Read(finding, 0, k)' = Read(finding, 0, k)
             /\ \A x \in Docs : Newest(Read(finding, 0, k), x) =>
                   /\ Newest(Read(finding, 0, k), x)'
                   /\ finding'[x] = IF finding[x] = "open" THEN "resolved" ELSE finding[x]
  <2>1. \A x \in Docs : x[2] = k /\ x \notin Updates(s, scan[s].seen) => finding'[x] = finding[x]
    BY <1>2, <1>4
  <2>2. ASSUME NEW x \in Docs, x[2] = k, x \in Updates(s, scan[s].seen)
        PROVE  /\ finding'[x] = IF finding[x] = "open" THEN "resolved" ELSE finding[x]
               /\ finding[x] # "none"
    BY <1>2, <1>4, <2>2 DEF Reconciled
  <2>3. Read(finding, 0, k)' = Read(finding, 0, k)
    BY <2>1, <2>2 DEF Read
  <2>4. ASSUME NEW x \in Docs, Newest(Read(finding, 0, k), x)
        PROVE  /\ Newest(Read(finding, 0, k), x)'
               /\ finding'[x] = IF finding[x] = "open" THEN "resolved" ELSE finding[x]
    <3>1. Newest(Read(finding, 0, k), x)'
      BY <1>1, <2>3, <2>4 DEF Newest
    <3>2. x[2] = k
      BY <2>4, ReadAll DEF Newest
    <3>3. ASSUME finding[x] = "open" PROVE x \in Updates(s, scan[s].seen)
      <4>1. scan[s].seen[x] = "open"
        BY <1>1, <3>3 DEF RInv, SeenOK, Decided
      <4>2. ActsOn(scan[s].seen, s, x)
        BY <1>1, <2>4, <3>2, ReadsAll DEF ActsOn, RInv
      <4> QED BY <1>4, <3>2, <4>1, <4>2 DEF Updates, Reconciled
    <3> QED BY <2>1, <2>2, <3>1, <3>2, <3>3
  <2> QED BY <2>3, <2>4
<1> QED BY <1>3, <1>4

LEMMA RInvInit == Init => RInv
<1> SUFFICES ASSUME Init PROVE RInv
  OBVIOUS
<1>1. OrderOK
  BY DEF Init, OrderOK
<1>2. \A s \in Scans : scan[s].pc = "none"
  BY DEF Init, NewScan
<1>3. NewestExists
  BY NoDocsType, ReadAll DEF Init, NewestExists
<1> QED BY <1>1, <1>2, <1>3 DEF RInv, OpenNewest, SeenOK

LEMMA OrderNext ==
    ASSUME IInv, OrderOK, [Next]_vars PROVE OrderOK'
<1>1. ASSUME NEW s \in Scans, Act(s) PROVE order' = order \/ order' = Later(s)
  BY <1>1 DEF Act, BeginTransaction, Commit, RetryTransaction, CreateScan, InsertFindings,
              ReadPrevious, UpdateFinding, CompleteScan, Dies, Evaluate, EvaluateFails
<1>2. CASE order' = order
  BY <1>2 DEF OrderOK
<1> QED BY <1>1, <1>2, LaterOrder, DecideStep DEF Next, Act, vars

\* When transactions follow each other, a step of a scan starts one, commits it,
\* or leaves the documents and their order alone.
LEMMA SerialAct ==
    ASSUME IInv, Serially, NEW s \in Scans, Act(s)
    PROVE  \/ /\ BeginTransaction(s) \/ RetryTransaction(s)
              /\ scan[s].pc \in {"none", "open"} /\ order' = Later(s) /\ UNCHANGED finding
              /\ scan'[s].pc = "open" /\ scan'[s].seen = finding
           \/ Commit(s) /\ scan'[s].pc = "completed"
           \/ UNCHANGED <<finding, order>> /\ scan'[s].pc # "open"
<1> USE DEF IInv, TypeOK, PcOK
<1>1. CASE BeginTransaction(s) \/ RetryTransaction(s)
  BY <1>1 DEF BeginTransaction, MayBegin, RetryTransaction
<1>2. CASE Commit(s)
  BY <1>2 DEF Commit
<1>3. CASE InsertFindings(s) \/ UpdateFinding(s) \/ CreateScan(s) \/ ReadPrevious(s) \/ CompleteScan(s)
  BY <1>3 DEF Serially, InsertFindings, UpdateFinding, CreateScan, ReadPrevious, CompleteScan
<1>4. CASE Dies(s) \/ Evaluate(s) \/ EvaluateFails(s)
  BY <1>4 DEF Dies, Evaluate, EvaluateFails
<1> QED BY <1>1, <1>2, <1>3, <1>4 DEF Act

LEMMA SerialActRInv ==
    ASSUME IInv, JInv, RInv, Serially, NEW s \in Scans, Act(s)
    PROVE  NewestExists' /\ OpenNewest' /\ SeenOK'
<1>1. \A r \in Scans : r # s => scan'[r].pc # "open"
  BY OthersAtRest, ActMoves DEF JInv, Serially, Busy
<1>2. CASE /\ BeginTransaction(s) \/ RetryTransaction(s)
           /\ scan[s].pc \in {"none", "open"} /\ order' = Later(s) /\ UNCHANGED finding
           /\ scan'[s].pc = "open" /\ scan'[s].seen = finding
  <2>1. NewestExists'
    <3> SUFFICES ASSUME NEW k \in Keys, Read(finding, 0, k)' # {}
                 PROVE  \E x \in Docs : Newest(Read(finding, 0, k), x)'
      BY DEF NewestExists
    <3> QED BY <1>2, LaterKeeps DEF RInv, NewestExists
  <2>2. OpenNewest'
    BY <1>1, <1>2, LaterOrder DEF RInv, OpenNewest
  <2>3. SeenOK'
    BY <1>1, <1>2 DEF SeenOK
  <2> QED BY <2>1, <2>2, <2>3
<1>3. CASE Commit(s) /\ scan'[s].pc = "completed"
  <2>1. NewestExists'
    <3> SUFFICES ASSUME NEW k \in Keys, Read(finding, 0, k)' # {}
                 PROVE  \E x \in Docs : Newest(Read(finding, 0, k), x)'
      BY DEF NewestExists
    <3>1. CASE k \in scan[s].found
      BY <1>3, <3>1, CommitKey, DocParts
    <3>2. CASE k \notin scan[s].found
      BY <1>3, <3>2, CommitKey DEF RInv, NewestExists
    <3> QED BY <3>1, <3>2
  <2> QED BY <1>1, <1>3, <2>1 DEF OpenNewest, SeenOK
<1>4. CASE UNCHANGED <<finding, order>> /\ scan'[s].pc # "open"
  <2>1. NewestExists'
    BY <1>4 DEF RInv, NewestExists, Newest, Read
  <2> QED BY <1>1, <1>4, <2>1 DEF OpenNewest, SeenOK
<1> QED BY <1>2, <1>3, <1>4, SerialAct

\* A decision takes no document away, so each key keeps its newest one.
LEMMA DecideKeeps ==
    ASSUME IInv, NEW x \in Docs, Decide(x), NEW k \in Keys
    PROVE  /\ Read(finding, 0, k)' = Read(finding, 0, k)
           /\ \A y \in Docs :
                 Newest(Read(finding, 0, k), y)' <=> Newest(Read(finding, 0, k), y)
<1>1. \A y \in Docs : finding[y] # "none" <=> finding'[y] # "none"
  BY DecideStep DEF Decided
<1>2. Read(finding, 0, k)' = Read(finding, 0, k)
  BY <1>1 DEF Read
<1> QED BY <1>2, DecideStep DEF Newest

LEMMA RInvNext == IInv /\ JInv /\ RInv /\ [Next]_vars => RInv'
<1> SUFFICES ASSUME IInv, JInv, RInv, [Next]_vars PROVE RInv'
  OBVIOUS
<1>1. OrderOK'
  BY OrderNext DEF RInv
<1>2. ASSUME NEW s \in Scans, Act(s), Serially' PROVE NewestExists' /\ OpenNewest' /\ SeenOK'
  <2>1. Serially
    BY <1>2, ActMoves DEF Serially
  <2> QED BY <1>2, <2>1, SerialActRInv
<1>3. ASSUME NEW x \in Docs, Decide(x), Serially'
      PROVE  NewestExists' /\ OpenNewest' /\ SeenOK'
  <2>1. Serially /\ UNCHANGED <<order, scan>>
    BY <1>3, DecideStep DEF Serially
  <2>2. NewestExists'
    <3> SUFFICES ASSUME NEW k \in Keys, Read(finding, 0, k)' # {}
                 PROVE  \E y \in Docs : Newest(Read(finding, 0, k), y)'
      BY DEF NewestExists
    <3> QED BY <1>3, <2>1, DecideKeeps DEF RInv, NewestExists
  <2>3. OpenNewest'
    BY <2>1 DEF RInv, OpenNewest
  <2>4. SeenOK'
    BY <1>3, <2>1, DecideStep DEF RInv, SeenOK, Decided
  <2> QED BY <2>2, <2>3, <2>4
<1>4. CASE UNCHANGED vars
  BY <1>4 DEF vars, RInv, OrderOK, Serially, NewestExists, OpenNewest, SeenOK, Newest, Read
<1> QED BY <1>1, <1>2, <1>3, <1>4 DEF Next, Act, RInv

\* A key by its newest document alone, whatever was decided about older ones.
NewestView == [k \in Keys |-> IF Serially THEN KeyStatusOf(k) ELSE "none"]

ViewOK ==
    \A k \in Keys :
        /\ Read(finding, 0, k) = {} => NewestView[k] = "none"
        /\ Read(finding, 0, k) # {} => (\E x \in Docs : Newest(Read(finding, 0, k), x))
        /\ \A x \in Docs : Newest(Read(finding, 0, k), x) =>
              x[2] = k /\ finding[x] # "none" /\ NewestView[k] = finding[x]

LEMMA ViewIs == RInv /\ Serially => ViewOK
<1> SUFFICES ASSUME RInv, Serially, NEW k \in Keys
             PROVE  /\ Read(finding, 0, k) = {} => NewestView[k] = "none"
                    /\ Read(finding, 0, k) # {} => (\E x \in Docs : Newest(Read(finding, 0, k), x))
                    /\ \A x \in Docs : Newest(Read(finding, 0, k), x) =>
                          x[2] = k /\ finding[x] # "none" /\ NewestView[k] = finding[x]
  BY DEF ViewOK
<1>1. NewestView[k] = KeyStatusOf(k)
  BY DEF NewestView, Serially
<1>2. \A x \in Docs : Newest(Read(finding, 0, k), x) => x[2] = k /\ finding[x] # "none"
  BY ReadAll DEF Newest
<1> QED BY <1>1, <1>2, KeyStatusIs, KeyStatusNone DEF RInv, NewestExists

LEMMA ViewIsNext == RInv' /\ Serially' => ViewOK'
  BY ViewIs, PTL

\* A step that leaves the newest document of a key, and its status, as they are
\* leaves the key as it is shown.
LEMMA KeyUnchanged ==
    ASSUME ViewOK, ViewOK', NEW k \in Keys, Read(finding, 0, k)' = Read(finding, 0, k),
           \A x \in Docs : Newest(Read(finding, 0, k), x) =>
                              Newest(Read(finding, 0, k), x)' /\ finding'[x] = finding[x]
    PROVE  NewestView'[k] = NewestView[k]
  BY DEF ViewOK

\* A key without decisions is known by its newest document.
LEMMA KeyViewIs ==
    ASSUME Serially, NEW k \in Keys
    PROVE  /\ KeyView[k] = IF DecisionsOn(k) # {} THEN "decided" ELSE NewestView[k]
           /\ DecisionView[k] = DecisionsOn(k)
  BY DEF KeyView, DecisionView, NewestView

LEMMA KeyViewIsNext ==
    ASSUME Serially', NEW k \in Keys
    PROVE  /\ KeyView'[k] = IF DecisionsOn(k)' # {} THEN "decided" ELSE NewestView'[k]
           /\ DecisionView'[k] = DecisionsOn(k)'
  BY DEF KeyView, DecisionView, NewestView

\* A key that nobody has decided about is none that its newest document shows so.
LEMMA NotDecided ==
    ASSUME IInv, ViewOK, Serially, NEW k \in Keys
    PROVE  /\ KeyView[k] = "decided" <=> DecisionsOn(k) # {}
           /\ Read(finding, 0, k) # {} => KeyView[k] # "none"
<1>1. NewestView[k] # "decided"
  BY DEF ViewOK, IInv, TypeOK, FindingStatus, Decided
<1>2. Read(finding, 0, k) # {} => NewestView[k] # "none"
  BY DEF ViewOK
<1> QED BY <1>1, <1>2, KeyViewIs

DecisionsOK ==
    \A k \in Keys, d \in Decided : d \in DecisionsOn(k) <=> \E s \in Scans : finding[<<s, k>>] = d

LEMMA DecisionsAre == DecisionsOK
<1> SUFFICES ASSUME NEW k \in Keys, NEW d \in Decided
             PROVE  d \in DecisionsOn(k) <=> \E s \in Scans : finding[<<s, k>>] = d
  BY DEF DecisionsOK
<1>1. d # "none"
  BY DEF Decided
<1>2. ASSUME d \in DecisionsOn(k) PROVE \E s \in Scans : finding[<<s, k>>] = d
  <2>1. PICK x \in Read(finding, 0, k) : finding[x] = d
    BY <1>2 DEF DecisionsOn
  <2>2. x \in Docs /\ x[2] = k
    BY <2>1, ReadAll
  <2> QED BY <2>1, <2>2, DocParts
<1>3. ASSUME NEW s \in Scans, finding[<<s, k>>] = d PROVE d \in DecisionsOn(k)
  <2>1. <<s, k>> \in Read(finding, 0, k)
    BY <1>1, <1>3, DocParts, ReadAll
  <2> QED BY <1>3, <2>1 DEF DecisionsOn
<1> QED BY <1>2, <1>3

LEMMA DecisionsAreNext == DecisionsOK'
  BY DecisionsAre, PTL

LEMMA DecisionsDecided ==
    ASSUME NEW k \in Keys
    PROVE  DecisionsOn(k) \subseteq Decided /\ DecisionsOn(k)' \subseteq Decided
  BY DEF DecisionsOn, Decided

\* Views are functions on the keys.
LEMMA ViewFunctions ==
    /\ KeyView = [k \in Keys |-> KeyView[k]] /\ KeyView' = [k \in Keys |-> KeyView'[k]]
    /\ DecisionView = [k \in Keys |-> DecisionView[k]]
    /\ DecisionView' = [k \in Keys |-> DecisionView'[k]]
  BY DEF KeyView, DecisionView

LEMMA SameViews ==
    ASSUME Serially, Serially',
           \A k \in Keys : NewestView'[k] = NewestView[k] /\ DecisionsOn(k)' = DecisionsOn(k)
    PROVE  UNCHANGED <<KeyView, DecisionView>>
<1>1. \A k \in Keys : KeyView'[k] = KeyView[k] /\ DecisionView'[k] = DecisionView[k]
  BY KeyViewIs, KeyViewIsNext
<1> HIDE DEF KeyView, DecisionView
<1> QED BY <1>1, ViewFunctions

\* A commit is the abstract scan of what was found: it takes no decision away and
\* makes none.
LEMMA CommitMaps ==
    ASSUME IInv, RInv, Serially, Serially', ViewOK, ViewOK', [Next]_vars,
           NEW s \in Scans, Commit(s)
    PROVE  Abstract!Next
<1> DEFINE found == scan[s].found
<1>1. found \in SUBSET Keys
  BY DEF IInv, TypeOK
<1>2. ASSUME NEW k \in Keys
      PROVE  NewestView'[k] = IF k \in found THEN "open"
                              ELSE IF NewestView[k] = "open" THEN "resolved" ELSE NewestView[k]
  <2>1. CASE k \in found
    <3>1. Newest(Read(finding, 0, k), <<s, k>>)' /\ finding'[<<s, k>>] = "open"
      BY <2>1, CommitKey
    <3>2. NewestView'[k] = finding'[<<s, k>>]
      BY <3>1, DocParts DEF ViewOK
    <3> QED BY <2>1, <3>1, <3>2
  <2>2. CASE k \notin found
    <3>1. /\ Read(finding, 0, k)' = Read(finding, 0, k)
          /\ \A x \in Docs : Newest(Read(finding, 0, k), x) =>
                /\ Newest(Read(finding, 0, k), x)'
                /\ finding'[x] = IF finding[x] = "open" THEN "resolved" ELSE finding[x]
      BY <2>2, CommitKey
    <3>2. CASE Read(finding, 0, k) = {}
      BY <2>2, <3>1, <3>2 DEF ViewOK
    <3>3. CASE Read(finding, 0, k) # {}
      <4>1. PICK x \in Docs : Newest(Read(finding, 0, k), x)
        BY <3>3 DEF ViewOK
      <4>2. NewestView[k] = finding[x] /\ NewestView'[k] = finding'[x]
        BY <3>1, <4>1 DEF ViewOK
      <4> QED BY <2>2, <3>1, <4>1, <4>2
    <3> QED BY <3>2, <3>3
  <2> QED BY <2>1, <2>2
<1>3. ASSUME NEW k \in Keys PROVE DecisionsOn(k)' = DecisionsOn(k)
  <2>1. \A x \in Docs : finding'[x] \in Decided \/ finding[x] \in Decided => finding'[x] = finding[x]
    <3>1. \A x \in Updates(s, scan[s].seen) :
             Reconciled(scan[s].found, x[2], scan[s].seen[x]) \notin Decided
      BY CommitWrites DEF Reconciled, Decided
    <3>2. \A x \in Docs : finding'[x] \in Decided => finding'[x] = finding[x]
      BY <3>1, CommitWrites DEF Decided
    <3> QED BY <3>2, DecisionsKept DEF Serially
  <2>2. \A r \in Scans : <<r, k>> \in Docs
    BY DocParts
  <2>3. \A d \in Decided : d \in DecisionsOn(k)' <=> d \in DecisionsOn(k)
    BY <2>1, <2>2, DecisionsAre, DecisionsAreNext DEF DecisionsOK
  <2> QED BY <2>3, DecisionsDecided
<1>4. ASSUME NEW k \in Keys
      PROVE  /\ KeyView'[k] = IF KeyView[k] = "decided" THEN "decided"
                              ELSE IF k \in found THEN "open"
                              ELSE IF KeyView[k] = "open" THEN "resolved" ELSE KeyView[k]
             /\ DecisionView'[k] = DecisionView[k]
  <2>1. KeyView[k] = "decided" <=> DecisionsOn(k) # {}
    BY NotDecided
  <2> QED BY <1>2, <1>3, <2>1, KeyViewIs, KeyViewIsNext
<1> HIDE DEF found
<1>5. Abstract!Scan(found)
  BY <1>4, ViewFunctions DEF Abstract!Scan
<1> QED BY <1>1, <1>5 DEF Abstract!Next

\* A decision about any document of a key is one about the key, for good.
LEMMA DecideMaps ==
    ASSUME IInv, Serially, Serially', ViewOK, ViewOK', NEW x \in Docs, Decide(x)
    PROVE  Abstract!Next
<1> DEFINE key == x[2]
<1>1. key \in Keys /\ x[1] \in Scans /\ x = <<x[1], key>>
  BY DocParts
<1>2. /\ finding[x] = "open" /\ finding'[x] \in Decided
      /\ \A y \in Docs : y # x => finding'[y] = finding[y]
  <2>1. finding[x] = "open" /\ finding'[x] \in Decided
    BY DEF Decide, IInv, TypeOK
  <2> QED BY <2>1, DecideStep
<1>3. ASSUME NEW k \in Keys, k # key
      PROVE  KeyView'[k] = KeyView[k] /\ DecisionView'[k] = DecisionView[k]
  <2>1. \A y \in Docs : Newest(Read(finding, 0, k), y) => y # x
    BY <1>3 DEF ViewOK
  <2>2. NewestView'[k] = NewestView[k]
    BY <1>2, <2>1, DecideKeeps, KeyUnchanged
  <2>3. \A r \in Scans : finding'[<<r, k>>] = finding[<<r, k>>]
    BY <1>2, <1>3, DocParts
  <2>4. DecisionsOn(k)' = DecisionsOn(k)
    <3>1. \A d \in Decided : d \in DecisionsOn(k)' <=> d \in DecisionsOn(k)
      BY <2>3, DecisionsAre, DecisionsAreNext DEF DecisionsOK
    <3> QED BY <3>1, DecisionsDecided
  <2> QED BY <2>2, <2>4, KeyViewIs, KeyViewIsNext
<1>4. DecisionsOn(key)' = DecisionsOn(key) \cup {finding'[x]}
  <2>1. \A r \in Scans : /\ <<r, key>> \in Docs
                         /\ <<r, key>> # x => finding'[<<r, key>>] = finding[<<r, key>>]
    BY <1>1, <1>2, DocParts
  <2>2. "open" \notin Decided
    BY DEF Decided
  <2> HIDE DEF key
  <2>3. \A d \in Decided : d \in DecisionsOn(key)' <=> d \in DecisionsOn(key) \/ d = finding'[x]
    <3> TAKE d \in Decided
    <3>1. ASSUME NEW r \in Scans, finding'[<<r, key>>] = d
          PROVE  finding[<<r, key>>] = d \/ d = finding'[x]
      BY <2>1, <3>1
    <3>2. ASSUME NEW r \in Scans, finding[<<r, key>>] = d PROVE finding'[<<r, key>>] = d
      BY <1>2, <2>1, <2>2, <3>2
    <3>3. d = finding'[x] => \E r \in Scans : finding'[<<r, key>>] = d
      BY <1>1
    <3> QED BY <1>1, <3>1, <3>2, <3>3, DecisionsAre, DecisionsAreNext DEF DecisionsOK
  <2> QED BY <1>1, <1>2, <2>3, DecisionsDecided
<1>5. KeyView'[key] = "decided" /\ DecisionView'[key] = DecisionView[key] \cup {finding'[x]}
  BY <1>1, <1>4, KeyViewIs, KeyViewIsNext
<1>6. KeyView[key] # "none"
  <2>1. x \in Read(finding, 0, key)
    BY <1>2, ReadAll
  <2> QED BY <1>1, <2>1, NotDecided
<1>7. finding'[x] \in Abstract!Decisions
  BY <1>2 DEF Abstract!Decisions, Decided
<1> HIDE DEF key
<1>8. /\ KeyView' = [KeyView EXCEPT ![key] = "decided"]
      /\ DecisionView' = [DecisionView EXCEPT ![key] = @ \cup {finding'[x]}]
  BY <1>1, <1>3, <1>5, ViewFunctions
<1> QED BY <1>1, <1>6, <1>7, <1>8 DEF Abstract!Next, Abstract!Decide

LEMMA StepMaps ==
    ASSUME IInv, JInv, RInv, RInv', [Next]_vars
    PROVE  [Abstract!Next]_<<KeyView, DecisionView>>
<1>1. UNCHANGED env
  BY ActMoves, DecideStep DEF Next, Act, vars
<1>2. CASE ~Serially
  BY <1>1, <1>2 DEF KeyView, DecisionView, Serially
<1>3. CASE Serially
  <2>1. ViewOK /\ ViewOK' /\ Serially'
    BY <1>1, <1>3, ViewIs, ViewIsNext DEF Serially
  <2>2. CASE UNCHANGED <<finding, order>>
    BY <1>1, <2>2 DEF KeyView, DecisionView, DecisionsOn, KeyStatusOf, Newest, Read, Serially
  <2>3. ASSUME NEW s \in Scans, Act(s)
        PROVE  Abstract!Next \/ UNCHANGED <<KeyView, DecisionView>>
    <3>1. CASE /\ scan[s].pc \in {"none", "open"} /\ order' = Later(s) /\ UNCHANGED finding
      <4>1. \A k \in Keys : NewestView'[k] = NewestView[k]
        BY <2>1, <3>1, LaterKeeps, KeyUnchanged
      <4>2. \A k \in Keys : DecisionsOn(k)' = DecisionsOn(k)
        BY <3>1 DEF DecisionsOn, Read
      <4> QED BY <1>3, <2>1, <4>1, <4>2, SameViews
    <3>2. CASE Commit(s)
      BY <1>3, <2>1, <3>2, CommitMaps
    <3> QED BY <1>3, <2>2, <2>3, <3>1, <3>2, SerialAct
  <2>4. ASSUME NEW x \in Docs, Decide(x) PROVE Abstract!Next
    BY <1>3, <2>1, <2>4, DecideMaps
  <2>5. CASE UNCHANGED vars
    BY <2>2, <2>5 DEF vars
  <2> QED BY <2>3, <2>4, <2>5 DEF Next, Act
<1> QED BY <1>2, <1>3

\* Transactions that follow each other keep the rules of reconciliation: a key that
\* nobody decided about is opened by the scans that find it and resolved by those
\* that do not; what people decided about it stays, and they alone add to it.
THEOREM ReconciliationImplements == Spec => ImplementsLifecycle
<1>1. Init => Abstract!Init
  <2> SUFFICES ASSUME Init PROVE /\ KeyView = [k \in Keys |-> "none"]
                                 /\ DecisionView = [k \in Keys |-> {}]
    BY DEF Abstract!Init
  <2>1. \A k \in Keys : Read(finding, 0, k) = {}
    BY NoDocsType, ReadAll DEF Init
  <2>2. \A k \in Keys : DecisionsOn(k) = {} /\ KeyStatusOf(k) = "none"
    BY <2>1, KeyStatusNone DEF DecisionsOn
  <2> QED BY <2>2 DEF KeyView, DecisionView
<1>2. IInv /\ JInv /\ RInv /\ RInv' /\ [Next]_vars => [Abstract!Next]_<<KeyView, DecisionView>>
  BY StepMaps
<1> QED BY <1>1, <1>2, Invariance, JInvInit, JInvNext, RInvInit, RInvNext, PTL
        DEF Spec, ImplementsLifecycle, Abstract!Spec
=============================================================================
