--------------------------- MODULE WorkspaceProofs ---------------------------
(***************************************************************************)
(* What holds of one project for any number of requests, syncs, issues,    *)
(* commits, integrations and credentials.  A behaviour of Workspace moves  *)
(* either the issues, or the links, or the repository; the theorems about  *)
(* these hold as well when all of them move together (Together).           *)
(***************************************************************************)
EXTENDS Workspace, FiniteSetTheorems, TLAPS

WorkNext == (TrackingNext /\ UNCHANGED syncVars) \/ VcsNext

\* A project, its requests and its repository, with nothing held still.
Together == TrackingInit /\ SyncInit /\ NothingPushed /\ [][WorkNext]_workVars

-----------------------------------------------------------------------------
(***************************************************************************)
(* The invariant of issues and requests.                                   *)
(***************************************************************************)

ReqRecords   == [pc : ReqPc, id : Nat, number : Nat, old : Statuses, new : Statuses]
IssueRecords == [id : Nat, number : Nat, status : Statuses, first : Statuses]
GitRecords   == [number : Nat, about : Nat]

WorkType ==
    /\ counter \in Nat /\ born \in Nat
    /\ issues \subseteq IssueRecords
    /\ req \in [Requests -> ReqRecords]
    /\ github \in [Items -> GitRecords]

\* The counter is never behind a number that is in use.
Counted ==
    /\ \A i \in issues : i.number \in 1..counter
    /\ \A x \in Items : github[x].number \in 0..counter
    /\ \A r \in Requests : req[r].pc = "numbered" => req[r].number \in 1..counter

\* A number stands for one issue, for ever: what mentions it is about that one.
OneNumber ==
    /\ \A i, j \in issues : i.number = j.number => i.id = j.id
    /\ \A r \in Requests : req[r].pc = "numbered" =>
          /\ \A i \in issues : i.number # req[r].number
          /\ \A x \in Items : github[x].number # req[r].number
    /\ \A q, r \in Requests :
          req[q].pc = "numbered" /\ req[r].pc = "numbered" /\ req[q].number = req[r].number => q = r
    /\ \A x \in Items, i \in issues : i.number = github[x].number => i.id = github[x].about

\* An item is linked to nothing but the number it mentions, and will not be by a
\* sync that looked its keys up.
LinksOK ==
    /\ \A w \in rows : w.item \in Items /\ w.links \subseteq {github[w.item].number} \ {0}
    /\ \A s \in Syncs : \A x \in sync[s].item :
          x \in Items /\ sync[s].keys \subseteq {github[x].number} \ {0}

WorkInv == WorkType /\ Counted /\ OneNumber /\ LinksOK /\ TrailHasStatus

LEMMA WorkBorrows == WorkInv => NoBorrowedHistory
  BY DEF WorkInv, OneNumber, LinksOK, NoBorrowedHistory

LEMMA IdleType == Idle \in ReqRecords /\ Idle.pc = "idle"
  BY TrackingAssumption DEF Idle, ReqRecords, ReqPc

LEMMA Numbered ==
    ASSUME NEW old \in ReqRecords, NEW n \in Nat
    PROVE  LET new == [old EXCEPT !.pc = "numbered", !.number = n]
           IN  new \in ReqRecords /\ new.pc = "numbered" /\ new.number = n
  BY DEF ReqRecords, ReqPc

LEMMA Created ==
    ASSUME NEW old \in ReqRecords, NEW n \in Nat
    PROVE  LET new == [old EXCEPT !.pc = "created", !.id = n]
           IN  new \in ReqRecords /\ new.pc = "created"
  BY DEF ReqRecords, ReqPc

LEMMA IssueType ==
    ASSUME NEW id \in Nat, NEW number \in Nat, NEW status \in Statuses
    PROVE  [id |-> id, number |-> number, status |-> status, first |-> status] \in IssueRecords
  BY DEF IssueRecords

\* A step of request r that leaves it as new, and makes no number and no issue.
LEMMA RequestMoves ==
    ASSUME WorkInv, NEW r \in Requests, NEW new \in ReqRecords,
           req' = [req EXCEPT ![r] = new],
           UNCHANGED <<counter, born, github, rows, sync>>,
           new.pc # "numbered",
           issues' \subseteq IssueRecords,
           \A j \in issues' : \E i \in issues : i.id = j.id /\ i.number = j.number
    PROVE  WorkType' /\ Counted' /\ OneNumber' /\ LinksOK'
<1> USE DEF WorkInv
<1>1. \A q \in Requests : req'[q] = IF q = r THEN new ELSE req[q]
  BY DEF WorkType
<1>2. WorkType'
  BY DEF WorkType
<1>3. Counted'
  BY <1>1 DEF Counted
<1>4. OneNumber'
  <2>1. \A i, j \in issues' : i.number = j.number => i.id = j.id
    BY DEF OneNumber
  <2>2. \A q \in Requests : req'[q].pc = "numbered" =>
            /\ \A i \in issues' : i.number # req'[q].number
            /\ \A x \in Items : github'[x].number # req'[q].number
    BY <1>1 DEF OneNumber
  <2>3. \A p, q \in Requests : req'[p].pc = "numbered" /\ req'[q].pc = "numbered"
                                 /\ req'[p].number = req'[q].number => p = q
    BY <1>1 DEF OneNumber
  <2>4. \A x \in Items, i \in issues' : i.number = github'[x].number => i.id = github'[x].about
    BY DEF OneNumber
  <2> QED BY <2>1, <2>2, <2>3, <2>4 DEF OneNumber
<1>5. LinksOK'
  BY DEF LinksOK
<1> QED BY <1>2, <1>3, <1>4, <1>5

\* A request that has saved nothing explains no status.
LEMMA TrailStays ==
    ASSUME WorkInv, NEW r \in Requests, NEW new \in ReqRecords,
           req' = [req EXCEPT ![r] = new], req[r].pc # "saved",
           issues' \subseteq issues, trail \subseteq trail', lost \subseteq lost'
    PROVE  TrailHasStatus'
<1>1. \A q \in Requests : q # r => req'[q] = req[q]
  BY DEF WorkInv, WorkType
<1> SUFFICES ASSUME NEW i \in issues'
             PROVE  \/ i.status = i.first
                    \/ i.id \in lost'
                    \/ \E e \in trail' : e.id = i.id /\ e.new = i.status
                    \/ \E q \in Requests : /\ req'[q].pc = "saved" /\ req'[q].id = i.id
                                           /\ req'[q].new = i.status /\ req'[q].old # i.status
  BY DEF TrailHasStatus
<1>2. i \in issues
  OBVIOUS
<1>3. CASE \E q \in Requests : /\ req[q].pc = "saved" /\ req[q].id = i.id
                               /\ req[q].new = i.status /\ req[q].old # i.status
  BY <1>1, <1>3
<1> QED BY <1>2, <1>3 DEF WorkInv, TrailHasStatus

\* The steps that leave a request as new, and nothing else that matters here.
LEMMA PlainMove ==
    ASSUME WorkInv, NEW r \in Requests, NEW new \in ReqRecords,
           req' = [req EXCEPT ![r] = new], req[r].pc # "saved", new.pc # "numbered",
           UNCHANGED <<counter, born, issues, trail, lost, github, rows, sync>>
    PROVE  WorkInv'
<1>1. issues' \subseteq IssueRecords
  BY DEF WorkInv, WorkType
<1>2. WorkType' /\ Counted' /\ OneNumber' /\ LinksOK'
  BY <1>1, RequestMoves
<1>3. TrailHasStatus'
  BY TrailStays
<1> QED BY <1>2, <1>3 DEF WorkInv

LEMMA BeginStep ==
    ASSUME WorkInv, NEW r \in Requests, UNCHANGED syncVars,
           StartCreate(r) \/ FindIssue(r) \/ FindForDelete(r) \/ FindForComment(r)
    PROVE  WorkInv'
<1> USE DEF WorkInv, syncVars
<1>1. CASE StartCreate(r)
  <2> DEFINE new == [Idle EXCEPT !.pc = "creating"]
  <2>1. new \in ReqRecords /\ new.pc = "creating"
    BY IdleType DEF ReqRecords, ReqPc
  <2>2. req' = [req EXCEPT ![r] = new] /\ req[r].pc = "idle"
    BY <1>1 DEF StartCreate, Begin, Move
  <2> HIDE DEF new
  <2> QED BY <1>1, <2>1, <2>2, PlainMove DEF StartCreate
<1>2. CASE FindIssue(r)
  <2>1. PICK i \in issues, status \in Statuses :
           Begin(r, [Idle EXCEPT !.pc = "found", !.id = i.id, !.old = i.status, !.new = status])
    BY <1>2 DEF FindIssue
  <2> DEFINE new == [Idle EXCEPT !.pc = "found", !.id = i.id, !.old = i.status, !.new = status]
  <2>2. new \in ReqRecords /\ new.pc = "found"
    BY IdleType DEF ReqRecords, ReqPc, WorkType, IssueRecords
  <2>3. req' = [req EXCEPT ![r] = new] /\ req[r].pc = "idle"
    BY <2>1 DEF Begin, Move
  <2> HIDE DEF new
  <2> QED BY <1>2, <2>2, <2>3, PlainMove DEF FindIssue
<1>3. CASE FindForDelete(r) \/ FindForComment(r)
  <2>1. PICK i \in issues, pc \in {"deleting", "commenting"} :
           Begin(r, [Idle EXCEPT !.pc = pc, !.id = i.id])
    BY <1>3 DEF FindForDelete, FindForComment
  <2> DEFINE new == [Idle EXCEPT !.pc = pc, !.id = i.id]
  <2>2. new \in ReqRecords /\ new.pc = pc
    BY IdleType DEF ReqRecords, ReqPc, WorkType, IssueRecords
  <2>3. req' = [req EXCEPT ![r] = new] /\ req[r].pc = "idle"
    BY <2>1 DEF Begin, Move
  <2> HIDE DEF new
  <2> QED BY <1>3, <2>2, <2>3, PlainMove DEF FindForDelete, FindForComment
<1> QED BY <1>1, <1>2, <1>3

LEMMA EndRequestStep ==
    ASSUME WorkInv, NEW r \in Requests, UNCHANGED syncVars,
           AnnounceIssue(r) \/ CreateComment(r) \/ AnnounceComment(r) \/ DeleteIssue(r)
    PROVE  WorkInv'
<1> USE DEF WorkInv, syncVars
<1>1. CASE AnnounceIssue(r) \/ AnnounceComment(r)
  <2>1. req' = [req EXCEPT ![r] = Idle] /\ req[r].pc # "saved"
    BY <1>1 DEF AnnounceIssue, AnnounceComment, Finish
  <2> QED BY <1>1, <2>1, IdleType, PlainMove DEF AnnounceIssue, AnnounceComment
<1>2. CASE CreateComment(r)
  <2> DEFINE new == [req[r] EXCEPT !.pc = "commented"]
  <2>1. new \in ReqRecords /\ new.pc = "commented"
    BY DEF ReqRecords, ReqPc, WorkType
  <2>2. req' = [req EXCEPT ![r] = new] /\ req[r].pc = "commenting"
    BY <1>2 DEF CreateComment, Move
  <2> HIDE DEF new
  <2> QED BY <1>2, <2>1, <2>2, PlainMove DEF CreateComment
<1>3. CASE DeleteIssue(r)
  <2>1. /\ req' = [req EXCEPT ![r] = Idle] /\ req[r].pc # "saved"
        /\ issues' \subseteq issues /\ issues' \subseteq IssueRecords
        /\ UNCHANGED <<counter, born, trail, lost, github, rows, sync>>
    BY <1>3 DEF DeleteIssue, Finish, WorkType
  <2>2. \A j \in issues' : \E i \in issues : i.id = j.id /\ i.number = j.number
    BY <2>1
  <2>3. WorkType' /\ Counted' /\ OneNumber' /\ LinksOK'
    BY <2>1, <2>2, IdleType, RequestMoves
  <2>4. TrailHasStatus'
    BY <2>1, IdleType, TrailStays
  <2> QED BY <2>3, <2>4
<1> QED BY <1>1, <1>2, <1>3

\* The next number is one that nothing has had.
LEMMA NextSequenceStep ==
    ASSUME WorkInv, NEW r \in Requests, UNCHANGED syncVars, NextSequence(r)
    PROVE  WorkInv'
<1> USE DEF WorkInv, syncVars
<1> DEFINE new == [req[r] EXCEPT !.pc = "numbered", !.number = counter + 1]
<1>0. counter + 1 \in Nat /\ req[r] \in ReqRecords
  BY DEF WorkType
<1>1. new \in ReqRecords /\ new.pc = "numbered" /\ new.number = counter + 1
  BY <1>0, Numbered
<1>2. /\ req' = [req EXCEPT ![r] = new] /\ req[r].pc = "creating"
      /\ counter' = counter + 1
      /\ UNCHANGED <<issues, trail, lost, born, github, rows, sync>>
  BY DEF NextSequence, Move
<1> HIDE DEF new
<1>3. \A q \in Requests : req'[q] = IF q = r THEN new ELSE req[q]
  BY <1>2 DEF WorkType
<1>4. WorkType'
  BY <1>1, <1>2 DEF WorkType
<1>5. /\ \A i \in issues : i.number \in 1..counter /\ i.number # counter + 1
      /\ \A x \in Items : github[x].number \in 0..counter /\ github[x].number # counter + 1
      /\ \A q \in Requests : req[q].pc = "numbered" =>
            req[q].number \in 1..counter /\ req[q].number # counter + 1
  BY DEF Counted, WorkType
<1>6. Counted'
  <2>1. 1..counter \subseteq 1..(counter + 1) /\ 0..counter \subseteq 0..(counter + 1)
        /\ counter + 1 \in 1..(counter + 1)
    BY DEF WorkType
  <2> QED BY <1>1, <1>2, <1>3, <1>5, <2>1 DEF Counted
<1>7. OneNumber'
  BY <1>1, <1>2, <1>3, <1>5 DEF OneNumber
<1>8. LinksOK'
  BY <1>2 DEF LinksOK
<1>9. TrailHasStatus'
  BY <1>1, <1>2, TrailStays
<1> QED BY <1>4, <1>6, <1>7, <1>8, <1>9

LEMMA InsertIssueStep ==
    ASSUME WorkInv, NEW r \in Requests, UNCHANGED syncVars, InsertIssue(r)
    PROVE  WorkInv'
<1> USE DEF WorkInv, syncVars
<1>1. CASE UNCHANGED <<issues, born>> /\ Finish(r)
  <2>1. req' = [req EXCEPT ![r] = Idle] /\ req[r].pc # "saved"
    BY <1>1 DEF InsertIssue, Finish
  <2> QED BY <1>1, <2>1, IdleType, PlainMove DEF InsertIssue
<1>2. CASE born' = born + 1
  <2>1. PICK status \in Statuses :
           issues' = issues \cup {[id |-> born + 1, number |-> req[r].number,
                                   status |-> status, first |-> status]}
    BY <1>2 DEF InsertIssue, WorkType
  <2> DEFINE issue == [id |-> born + 1, number |-> req[r].number, status |-> status, first |-> status]
             new   == [req[r] EXCEPT !.pc = "created", !.id = born + 1]
  <2>2. /\ new \in ReqRecords /\ new.pc = "created"
        /\ issue \in IssueRecords /\ issue.number = req[r].number /\ issue.status = issue.first
    <3>1. born + 1 \in Nat /\ req[r] \in ReqRecords
      BY DEF WorkType
    <3>2. req[r].number \in Nat
      BY <3>1 DEF ReqRecords
    <3> QED BY <3>1, <3>2, Created, IssueType
  <2>3. /\ req' = [req EXCEPT ![r] = new] /\ req[r].pc = "numbered"
        /\ issues' = issues \cup {issue}
        /\ UNCHANGED <<counter, trail, lost, github, rows, sync>>
    BY <1>2, <2>1 DEF InsertIssue, Move, WorkType
  <2> HIDE DEF new, issue
  <2>4. \A q \in Requests : req'[q] = IF q = r THEN new ELSE req[q]
    BY <2>3 DEF WorkType
  <2>5. WorkType'
    BY <1>2, <2>2, <2>3 DEF WorkType
  <2>6. Counted'
    BY <2>2, <2>3, <2>4 DEF Counted
  <2>7. OneNumber'
    <3>1. \A i, j \in issues' : i.number = j.number => i.id = j.id
      BY <2>2, <2>3 DEF OneNumber
    <3>2. \A q \in Requests : req'[q].pc = "numbered" => q # r /\ req'[q] = req[q]
      BY <2>2, <2>4
    <3>3. \A q \in Requests : req'[q].pc = "numbered" =>
              /\ \A i \in issues' : i.number # req'[q].number
              /\ \A x \in Items : github'[x].number # req'[q].number
      BY <2>2, <2>3, <3>2 DEF OneNumber
    <3>4. \A p, q \in Requests : req'[p].pc = "numbered" /\ req'[q].pc = "numbered"
                                   /\ req'[p].number = req'[q].number => p = q
      BY <3>2 DEF OneNumber
    <3>5. \A x \in Items, i \in issues' : i.number = github'[x].number => i.id = github'[x].about
      BY <2>2, <2>3 DEF OneNumber
    <3> QED BY <3>1, <3>3, <3>4, <3>5 DEF OneNumber
  <2>8. LinksOK'
    BY <2>3 DEF LinksOK
  <2>9. TrailHasStatus'
    <3> SUFFICES ASSUME NEW i \in issues'
                 PROVE  \/ i.status = i.first
                        \/ i.id \in lost'
                        \/ \E e \in trail' : e.id = i.id /\ e.new = i.status
                        \/ \E q \in Requests : /\ req'[q].pc = "saved" /\ req'[q].id = i.id
                                               /\ req'[q].new = i.status /\ req'[q].old # i.status
      BY DEF TrailHasStatus
    <3>1. CASE i = issue
      BY <2>2, <3>1
    <3>2. CASE i \in issues
      <4>1. \A q \in Requests : req[q].pc = "saved" => req'[q] = req[q]
        BY <2>3, <2>4
      <4> QED BY <2>3, <3>2, <4>1 DEF TrailHasStatus
    <3> QED BY <2>3, <3>1, <3>2
  <2> QED BY <2>5, <2>6, <2>7, <2>8, <2>9
<1> QED BY <1>1, <1>2 DEF InsertIssue

\* A save that changes the status is the one that will tell of it.
LEMMA SaveIssueStep ==
    ASSUME WorkInv, NEW r \in Requests, UNCHANGED syncVars, SaveIssue(r)
    PROVE  WorkInv'
<1> USE DEF WorkInv, syncVars
<1>0. UNCHANGED <<counter, born, trail, lost, github, rows, sync>> /\ req[r].pc = "found"
  BY DEF SaveIssue
<1>1. CASE Finish(r) /\ UNCHANGED issues
  BY <1>0, <1>1, IdleType, PlainMove DEF Finish
<1>2. CASE Move(r, [req[r] EXCEPT !.pc = "saved"]) /\ Stored(r) # {}
  <2> DEFINE new == [req[r] EXCEPT !.pc = "saved"]
             saved(i) == [i EXCEPT !.status = IF req[r].new = req[r].old THEN @ ELSE req[r].new]
  <2>1. /\ new \in ReqRecords /\ new.pc = "saved" /\ new.id = req[r].id
        /\ new.old = req[r].old /\ new.new = req[r].new
        /\ req' = [req EXCEPT ![r] = new]
    BY <1>2 DEF ReqRecords, ReqPc, WorkType, Move
  <2>2. issues' = (issues \ Stored(r)) \cup {saved(i) : i \in Stored(r)}
    BY <1>2 DEF SaveIssue
  <2>3. \A i \in Stored(r) :
           /\ i \in issues /\ i.id = req[r].id
           /\ saved(i) \in IssueRecords /\ saved(i).id = i.id /\ saved(i).number = i.number
           /\ saved(i).first = i.first
           /\ saved(i).status = IF req[r].new = req[r].old THEN i.status ELSE req[r].new
    BY DEF Stored, WorkType, IssueRecords, ReqRecords
  <2>4. \A j \in issues' : \/ j \in issues
                           \/ \E i \in Stored(r) : j = saved(i)
    BY <2>2
  <2> HIDE DEF new, saved
  <2>5. issues' \subseteq IssueRecords
    BY <2>3, <2>4 DEF WorkType
  <2>6. \A j \in issues' : \E i \in issues : i.id = j.id /\ i.number = j.number
    BY <2>3, <2>4
  <2>7. WorkType' /\ Counted' /\ OneNumber' /\ LinksOK'
    BY <1>0, <2>1, <2>5, <2>6, RequestMoves
  <2>8. TrailHasStatus'
    <3>1. \A q \in Requests : req'[q] = IF q = r THEN new ELSE req[q]
      BY <2>1 DEF WorkType
    <3> SUFFICES ASSUME NEW j \in issues'
                 PROVE  \/ j.status = j.first
                        \/ j.id \in lost'
                        \/ \E e \in trail' : e.id = j.id /\ e.new = j.status
                        \/ \E q \in Requests : /\ req'[q].pc = "saved" /\ req'[q].id = j.id
                                               /\ req'[q].new = j.status /\ req'[q].old # j.status
      BY DEF TrailHasStatus
    <3>2. ASSUME NEW i \in issues, i.id = j.id, i.status = j.status, i.first = j.first
          PROVE  \/ j.status = j.first
                 \/ j.id \in lost'
                 \/ \E e \in trail' : e.id = j.id /\ e.new = j.status
                 \/ \E q \in Requests : /\ req'[q].pc = "saved" /\ req'[q].id = j.id
                                        /\ req'[q].new = j.status /\ req'[q].old # j.status
      <4>1. \A q \in Requests : req[q].pc = "saved" => req'[q] = req[q]
        BY <1>0, <3>1
      <4> QED BY <1>0, <3>2, <4>1 DEF TrailHasStatus
    <3>3. CASE j \in issues
      BY <3>2, <3>3
    <3>4. ASSUME NEW i \in Stored(r), j = saved(i)
          PROVE  \/ j.status = j.first
                 \/ j.id \in lost'
                 \/ \E e \in trail' : e.id = j.id /\ e.new = j.status
                 \/ \E q \in Requests : /\ req'[q].pc = "saved" /\ req'[q].id = j.id
                                        /\ req'[q].new = j.status /\ req'[q].old # j.status
      <4>1. CASE req[r].new = req[r].old
        BY <2>3, <3>2, <3>4, <4>1
      <4>2. CASE req[r].new # req[r].old
        <5>1. j.status = req[r].new /\ j.id = req[r].id
          BY <2>3, <3>4, <4>2
        <5> QED BY <2>1, <3>1, <4>2, <5>1
      <4> QED BY <4>1, <4>2
    <3> QED BY <2>4, <3>3, <3>4
  <2> QED BY <2>7, <2>8
<1> QED BY <1>1, <1>2 DEF SaveIssue

\* A request that ends, having told of its status or having died.
LEMMA TellStep ==
    ASSUME WorkInv, NEW r \in Requests, UNCHANGED syncVars, AnnounceUpdate(r) \/ RequestDies(r)
    PROVE  WorkInv'
<1> USE DEF WorkInv, syncVars
<1>1. /\ req' = [req EXCEPT ![r] = Idle]
      /\ UNCHANGED <<counter, born, issues, github, rows, sync>>
      /\ trail \subseteq trail' /\ lost \subseteq lost'
  BY DEF AnnounceUpdate, RequestDies, Finish
<1>2. WorkType' /\ Counted' /\ OneNumber' /\ LinksOK'
  <2>1. issues' \subseteq IssueRecords
    BY <1>1 DEF WorkType
  <2> QED BY <1>1, <2>1, IdleType, RequestMoves
<1>3. TrailHasStatus'
  <2>1. CASE req[r].pc # "saved"
    BY <1>1, <2>1, IdleType, TrailStays
  <2>2. CASE req[r].pc = "saved"
    <3>1. \A i \in issues : i.id = req[r].id /\ req[r].new = i.status /\ req[r].old # i.status =>
             i.id \in lost' \/ \E e \in trail' : e.id = i.id /\ e.new = i.status
      <4>1. CASE RequestDies(r)
        BY <2>2, <4>1 DEF RequestDies
      <4>2. CASE AnnounceUpdate(r)
        <5> SUFFICES ASSUME NEW i \in issues, i.id = req[r].id, req[r].new = i.status,
                            req[r].old # i.status
                     PROVE  \E e \in trail' : e.id = i.id /\ e.new = i.status
          OBVIOUS
        <5>1. Stored(r) # {}
          BY DEF Stored
        <5>2. [id |-> req[r].id, old |-> req[r].old, new |-> req[r].new] \in trail'
          BY <4>2, <5>1 DEF AnnounceUpdate
        <5> QED BY <5>2
      <4> QED BY <4>1, <4>2
    <3>2. \A q \in Requests : q # r => req'[q] = req[q]
      BY <1>1 DEF WorkType
    <3> SUFFICES ASSUME NEW i \in issues
                 PROVE  \/ i.status = i.first
                        \/ i.id \in lost'
                        \/ \E e \in trail' : e.id = i.id /\ e.new = i.status
                        \/ \E q \in Requests : /\ req'[q].pc = "saved" /\ req'[q].id = i.id
                                               /\ req'[q].new = i.status /\ req'[q].old # i.status
      BY <1>1 DEF TrailHasStatus
    <3> QED BY <1>1, <3>1, <3>2 DEF TrailHasStatus
  <2> QED BY <2>1, <2>2
<1> QED BY <1>2, <1>3

LEMMA RequestStepWork ==
    ASSUME WorkInv, NEW r \in Requests, UNCHANGED syncVars, RequestStep(r) PROVE WorkInv'
  BY BeginStep, EndRequestStep, NextSequenceStep, InsertIssueStep, SaveIssueStep, TellStep
     DEF RequestStep

LEMMA SetUpWork == ASSUME WorkInv, UNCHANGED syncVars, SetUp PROVE WorkInv'
<1> USE DEF WorkInv, syncVars
<1>1. /\ UNCHANGED <<issues, req, trail, born, lost, github, rows, sync>>
      /\ counter' = counter \/ (counter = 0 /\ counter' = InitialCounter)
  BY DEF SetUp, CreateProject, CreateCounter, CreateOwner, SetupDies, NoCounter
<1>2. counter' \in Nat /\ counter' >= counter
  BY <1>1, TrackingAssumption DEF WorkType
<1>3. 1..counter \subseteq 1..counter' /\ 0..counter \subseteq 0..counter'
  BY <1>2 DEF WorkType
<1>4. WorkType'
  BY <1>1, <1>2 DEF WorkType
<1>5. Counted'
  BY <1>1, <1>3 DEF Counted
<1>6. OneNumber' /\ LinksOK' /\ TrailHasStatus'
  BY <1>1 DEF OneNumber, LinksOK, TrailHasStatus
<1> QED BY <1>4, <1>5, <1>6

-----------------------------------------------------------------------------
(***************************************************************************)
(* The repository.                                                         *)
(***************************************************************************)

SyncRecords == [pc : SyncPc, repo : Nat, todo : SUBSET Items, got : SUBSET Items,
                item : SUBSET Items, keys : SUBSET Nat]
RepoRecords == [connection : {"none", "connected", "syncing", "failed"},
                last : {"none", "success", "failed"}]
RowRecords  == [repo : Nat, item : Items, links : SUBSET Nat]
DropRecords == [pc : DropPc, repo : Nat]

VcsType ==
    /\ repos \in Nat
    /\ repo \in RepoRecords
    /\ sync \in [Syncs -> SyncRecords]
    /\ drop \in DropRecords

\* Of the repository of a disconnect nothing else is made of on the way.
DropOK == drop.pc # "idle" => Is(drop.repo)

\* A sync that no disconnect has met writes to the repository there is, and
\* nothing of that has been deleted.
SyncOK ==
    \A s \in Syncs : sync[s].pc # "idle" /\ sync[s].repo \notin overlapped =>
        Is(sync[s].repo) /\ drop.pc \in {"idle", "found"}

\* What no overlap left behind belongs to the repository there is.
RowsOK ==
    \A w \in rows :
        /\ w.item \in Items
        /\ w.repo \notin overlapped =>
              /\ Is(w.repo) /\ drop.pc # "pulls"
              /\ drop.pc = "commits" => w.item \notin Commits

OneRow == \A v, w \in rows : v.repo = w.repo /\ v.item = w.item => v = w

Covered(id, items) == \A x \in items : \E w \in rows : w.repo = id /\ w.item = x

\* What a sync has fetched and is not about to write it has written.
FetchedOK ==
    \A s \in Syncs : sync[s].pc \in {"commits", "pulls"} /\ sync[s].repo \notin overlapped =>
        Covered(sync[s].repo, sync[s].got \ sync[s].todo)

CompleteOK ==
    Connected /\ repo.last = "success" /\ drop.pc \in {"idle", "found"} /\ repos \notin overlapped
        => Covered(repos, synced)

VcsInv == VcsType /\ DropOK /\ SyncOK /\ RowsOK /\ OneRow /\ FetchedOK /\ CompleteOK

LEMMA VcsShows == VcsInv => SuccessIsComplete /\ ShownOnce
<1> SUFFICES ASSUME VcsInv PROVE SuccessIsComplete /\ ShownOnce
  OBVIOUS
<1>1. SuccessIsComplete
  BY DEF VcsInv, CompleteOK, Covered, SuccessIsComplete
<1>2. ShownOnce
  <2> SUFFICES ASSUME NEW v \in rows, NEW w \in rows, v.item = w.item,
                      v.repo \notin overlapped, w.repo \notin overlapped
               PROVE  v = w
    BY DEF ShownOnce
  <2>1. v.repo = repos /\ w.repo = repos
    BY DEF VcsInv, RowsOK, Is
  <2> QED BY <2>1 DEF VcsInv, OneRow
<1> QED BY <1>1, <1>2

LEMMA NoSyncType == NoSync \in SyncRecords /\ NoSync.pc = "idle"
  BY DEF NoSync, SyncRecords, SyncPc

LEMMA SyncInitInv == SyncInit => VcsInv
<1> SUFFICES ASSUME SyncInit PROVE VcsInv
  OBVIOUS
<1> USE DEF SyncInit
<1>1. VcsType
  BY NoSyncType DEF VcsType, RepoRecords, NoRepo, DropRecords, DropPc
<1>2. DropOK /\ RowsOK /\ OneRow
  BY DEF DropOK, RowsOK, OneRow
<1>3. SyncOK /\ FetchedOK
  BY NoSyncType DEF SyncOK, FetchedOK
<1>4. CompleteOK
  BY DEF CompleteOK, Connected, NoRepo
<1> QED BY <1>1, <1>2, <1>3, <1>4 DEF VcsInv

LEMMA ConnectVcs == ASSUME VcsInv, ConnectRepository PROVE VcsInv'
<1> USE DEF VcsInv
<1>1. /\ ~Connected /\ repos' = repos + 1 /\ repo' = NewRepo
      /\ UNCHANGED <<rows, sync, drop, overlapped, synced>>
  BY DEF ConnectRepository
<1>2. VcsType'
  BY <1>1 DEF VcsType, RepoRecords, NewRepo
<1>3. drop.pc = "idle" /\ (\A w \in rows : w.item \in Items /\ w.repo \in overlapped)
      /\ (\A s \in Syncs : sync[s].pc # "idle" => sync[s].repo \in overlapped)
  BY <1>1 DEF DropOK, RowsOK, SyncOK, Is
<1>4. DropOK' /\ SyncOK' /\ RowsOK' /\ OneRow' /\ FetchedOK'
  BY <1>1, <1>3 DEF DropOK, SyncOK, RowsOK, OneRow, FetchedOK, Covered
<1>5. CompleteOK'
  BY <1>1 DEF CompleteOK, NewRepo
<1> QED BY <1>2, <1>4, <1>5

LEMMA DisconnectVcs == ASSUME VcsInv, Disconnect PROVE VcsInv'
<1> USE DEF VcsInv
<1>1. CASE BeginDisconnect
  <2>1. /\ drop.pc = "idle" /\ Connected /\ drop' = [pc |-> "found", repo |-> repos]
        /\ UNCHANGED <<repos, repo, rows, sync, overlapped, synced>>
    BY <1>1 DEF BeginDisconnect
  <2>2. VcsType' /\ DropOK'
    BY <2>1 DEF VcsType, DropRecords, DropPc, DropOK, Is, Connected
  <2>3. SyncOK' /\ RowsOK' /\ OneRow' /\ FetchedOK' /\ CompleteOK'
    BY <2>1 DEF SyncOK, RowsOK, OneRow, FetchedOK, CompleteOK, Covered, Is, Connected
  <2> QED BY <2>2, <2>3
<1>2. CASE DeleteCommits
  <2>1. /\ drop.pc = "found" /\ rows' = rows \ RowsOf(drop.repo, Commits)
        /\ drop' = [drop EXCEPT !.pc = "commits"]
        /\ overlapped' = IF Running(drop.repo) THEN overlapped \cup {drop.repo} ELSE overlapped
        /\ UNCHANGED <<repos, repo, sync, synced>>
    BY <1>2 DEF DeleteCommits
  <2>2. Is(drop.repo) /\ drop' \in DropRecords /\ drop'.pc = "commits" /\ drop'.repo = drop.repo
    BY <2>1 DEF DropOK, VcsType, DropRecords, DropPc
  <2>3. VcsType' /\ DropOK'
    BY <2>1, <2>2 DEF VcsType, DropOK, Is, Connected
  <2>4. \A s \in Syncs : sync[s].pc # "idle" => sync[s].repo \in overlapped'
    BY <2>1, <2>2 DEF SyncOK, Is, Running
  <2>5. RowsOK'
    BY <2>1, <2>2 DEF RowsOK, RowsOf, Is, Connected
  <2>6. SyncOK' /\ FetchedOK' /\ CompleteOK' /\ OneRow'
    BY <2>1, <2>2, <2>4 DEF SyncOK, FetchedOK, CompleteOK, OneRow
  <2> QED BY <2>3, <2>5, <2>6
<1>3. CASE DeletePullRequests
  <2>1. /\ drop.pc = "commits" /\ rows' = rows \ RowsOf(drop.repo, PullRequests)
        /\ drop' = [drop EXCEPT !.pc = "pulls"]
        /\ UNCHANGED <<repos, repo, sync, overlapped, synced>>
    BY <1>3 DEF DeletePullRequests
  <2>2. Is(drop.repo) /\ drop' \in DropRecords /\ drop'.pc = "pulls" /\ drop'.repo = drop.repo
    BY <2>1 DEF DropOK, VcsType, DropRecords, DropPc
  <2>3. VcsType' /\ DropOK'
    BY <2>1, <2>2 DEF VcsType, DropOK, Is, Connected
  <2>4. \A s \in Syncs : sync[s].pc # "idle" => sync[s].repo \in overlapped
    BY <2>1 DEF SyncOK
  <2>5. RowsOK'
    <3> SUFFICES ASSUME NEW w \in rows' PROVE w.item \in Items /\ w.repo \in overlapped
      BY <2>1 DEF RowsOK
    <3>1. w.item \in Commits \/ w.repo # drop.repo
      BY <2>1 DEF RowsOK, RowsOf, Items
    <3> QED BY <2>1, <2>2, <3>1 DEF RowsOK, Is
  <2>6. SyncOK' /\ FetchedOK' /\ CompleteOK' /\ OneRow'
    BY <2>1, <2>2, <2>4 DEF SyncOK, FetchedOK, CompleteOK, OneRow
  <2> QED BY <2>3, <2>5, <2>6
<1>4. CASE DeleteRepository
  <2>1. /\ drop.pc = "pulls" /\ repo' = NoRepo
        /\ drop' = [pc |-> "idle", repo |-> 0]
        /\ UNCHANGED <<repos, rows, sync, overlapped, synced>>
    BY <1>4 DEF DeleteRepository, DropOK
  <2>2. VcsType' /\ DropOK'
    BY <2>1 DEF VcsType, RepoRecords, NoRepo, DropRecords, DropPc, DropOK
  <2>3. /\ \A s \in Syncs : sync[s].pc # "idle" => sync[s].repo \in overlapped
        /\ \A w \in rows : w.item \in Items /\ w.repo \in overlapped
    BY <2>1 DEF SyncOK, RowsOK
  <2>4. SyncOK' /\ RowsOK' /\ FetchedOK' /\ CompleteOK' /\ OneRow'
    BY <2>1, <2>3 DEF SyncOK, RowsOK, FetchedOK, CompleteOK, OneRow, NoRepo, Connected
  <2> QED BY <2>2, <2>4
<1>5. CASE DisconnectDies
  <2>1. /\ drop.pc \in {"commits", "pulls"} /\ drop' = [pc |-> "idle", repo |-> 0]
        /\ overlapped' = overlapped \cup {drop.repo}
        /\ UNCHANGED <<repos, repo, rows, sync, synced>>
    BY <1>5 DEF DisconnectDies
  <2>2. VcsType' /\ DropOK'
    BY <2>1 DEF VcsType, DropRecords, DropPc, DropOK
  <2>3. /\ \A s \in Syncs : sync[s].pc # "idle" => sync[s].repo \in overlapped
        /\ \A w \in rows : w.item \in Items /\ w.repo \in overlapped'
        /\ repos \in overlapped'
    BY <2>1 DEF SyncOK, RowsOK, DropOK, Is
  <2>4. SyncOK' /\ RowsOK' /\ FetchedOK' /\ CompleteOK' /\ OneRow'
    BY <2>1, <2>3 DEF SyncOK, RowsOK, FetchedOK, CompleteOK, OneRow
  <2> QED BY <2>2, <2>4
<1> QED BY <1>1, <1>2, <1>3, <1>4, <1>5 DEF Disconnect

\* A step of sync s, which goes on as new, beside the documents it writes.
LEMMA SyncMoves ==
    ASSUME VcsInv, NEW s \in Syncs, NEW new \in SyncRecords,
           sync' = [sync EXCEPT ![s] = new],
           UNCHANGED <<repos, rows, drop, overlapped>>,
           repo' \in RepoRecords, Connected' = Connected,
           new.pc # "idle" => sync[s].pc # "idle" /\ new.repo = sync[s].repo,
           new.pc \in {"commits", "pulls"} /\ new.repo \notin overlapped =>
               Covered(new.repo, new.got \ new.todo),
           CompleteOK'
    PROVE  VcsInv'
<1> USE DEF VcsInv
<1>1. \A t \in Syncs : sync'[t] = IF t = s THEN new ELSE sync[t]
  BY DEF VcsType
<1>2. VcsType'
  BY DEF VcsType
<1>3. DropOK' /\ RowsOK' /\ OneRow'
  BY DEF DropOK, RowsOK, OneRow, Is
<1>4. SyncOK'
  BY <1>1 DEF SyncOK, Is
<1>5. FetchedOK'
  BY <1>1 DEF FetchedOK, Covered
<1> QED BY <1>2, <1>3, <1>4, <1>5

LEMMA SyncIs ==
    ASSUME VcsInv, NEW s \in Syncs PROVE sync[s] \in SyncRecords /\ repo \in RepoRecords
  BY DEF VcsInv, VcsType

\* What a sync that ends says of the repository, if that is still there.
LEMMA StatusIs ==
    ASSUME VcsInv, NEW id, NEW new \in RepoRecords, new.connection # "none", Status(id, new)
    PROVE  repo' \in RepoRecords /\ (UNCHANGED repos => Connected' = Connected)
  BY DEF VcsInv, VcsType, Status, Is, Connected

LEMMA SameComplete ==
    ASSUME VcsInv, UNCHANGED <<repos, rows, drop, overlapped, synced>>,
           Connected' = Connected, repo'.last = "success" => repo.last = "success"
    PROVE  CompleteOK'
  BY DEF VcsInv, CompleteOK, Covered

LEMMA BeginSyncVcs == ASSUME VcsInv, NEW s \in Syncs, BeginSync(s) PROVE VcsInv'
<1> USE DEF VcsInv
<1> DEFINE new == [NoSync EXCEPT !.pc = "begun", !.repo = repos]
<1>1. new \in SyncRecords /\ new.pc = "begun" /\ new.repo = repos
  BY NoSyncType DEF SyncRecords, SyncPc, VcsType
<1>2. /\ Connected /\ sync' = [sync EXCEPT ![s] = new]
      /\ overlapped' = IF drop.pc # "idle" THEN overlapped \cup {repos} ELSE overlapped
      /\ UNCHANGED <<repos, repo, rows, drop, synced>>
  BY DEF BeginSync, Go
<1> HIDE DEF new
<1>3. \A t \in Syncs : sync'[t] = IF t = s THEN new ELSE sync[t]
  BY <1>2 DEF VcsType
<1>4. VcsType'
  BY <1>1, <1>2 DEF VcsType
<1>5. DropOK' /\ RowsOK' /\ OneRow'
  BY <1>2 DEF DropOK, RowsOK, OneRow, Is, Connected
<1>6. SyncOK'
  BY <1>1, <1>2, <1>3 DEF SyncOK, Is, Connected
<1>7. FetchedOK' /\ CompleteOK'
  BY <1>1, <1>2, <1>3 DEF FetchedOK, CompleteOK, Covered, Connected
<1> QED BY <1>4, <1>5, <1>6, <1>7

LEMMA FetchVcs ==
    ASSUME VcsInv, NEW s \in Syncs, MarkSyncing(s) \/ FetchCommits(s) \/ FetchPullRequests(s)
    PROVE  VcsInv'
<1> USE DEF VcsInv
<1>0. sync[s] \in SyncRecords /\ repo \in RepoRecords
  BY SyncIs
<1>1. CASE MarkSyncing(s)
  <2> DEFINE new   == [sync[s] EXCEPT !.pc = "fetching"]
             state == [repo EXCEPT !.connection = "syncing"]
  <2>1. /\ new \in SyncRecords /\ new.pc = "fetching" /\ new.repo = sync[s].repo
        /\ state \in RepoRecords /\ state.connection = "syncing" /\ state.last = repo.last
    BY <1>0 DEF SyncRecords, SyncPc, RepoRecords
  <2>2. /\ sync[s].pc = "begun" /\ sync' = [sync EXCEPT ![s] = new]
        /\ Status(sync[s].repo, state)
        /\ UNCHANGED <<repos, rows, drop, overlapped, synced>>
    BY <1>1 DEF MarkSyncing, Go
  <2> HIDE DEF new, state
  <2>3. repo' \in RepoRecords /\ Connected' = Connected /\ repo'.last = repo.last
    BY <2>1, <2>2, StatusIs DEF Status
  <2>4. CompleteOK'
    BY <2>2, <2>3, SameComplete
  <2> QED BY <2>1, <2>2, <2>3, <2>4, SyncMoves
<1>2. CASE FetchCommits(s)
  <2> DEFINE found == OnGitHub \cap Commits
             new   == [sync[s] EXCEPT !.pc = "commits", !.todo = found, !.got = found]
  <2>1. /\ new \in SyncRecords /\ new.pc = "commits" /\ new.repo = sync[s].repo
        /\ new.got \ new.todo = {}
    BY <1>0 DEF SyncRecords, SyncPc, OnGitHub
  <2>2. /\ sync[s].pc = "fetching" /\ sync' = [sync EXCEPT ![s] = new]
        /\ UNCHANGED <<repos, repo, rows, drop, overlapped, synced>>
    BY <1>2 DEF FetchCommits, Go
  <2> HIDE DEF new
  <2>3. CompleteOK' /\ Connected' = Connected
    BY <2>2, SameComplete DEF Connected
  <2>4. Covered(new.repo, new.got \ new.todo)
    BY <2>1 DEF Covered
  <2> QED BY <1>0, <2>1, <2>2, <2>3, <2>4, SyncMoves
<1>3. CASE FetchPullRequests(s)
  <2> DEFINE found == OnGitHub \cap PullRequests
             new   == [sync[s] EXCEPT !.pc = "pulls", !.todo = found, !.got = @ \cup found]
  <2>1. /\ new \in SyncRecords /\ new.pc = "pulls" /\ new.repo = sync[s].repo
        /\ new.got \ new.todo \subseteq sync[s].got
    BY <1>0 DEF SyncRecords, SyncPc, OnGitHub
  <2>2. /\ sync[s].pc = "commits" /\ sync[s].todo = {} /\ sync' = [sync EXCEPT ![s] = new]
        /\ UNCHANGED <<repos, repo, rows, drop, overlapped, synced>>
    BY <1>3 DEF FetchPullRequests, Go
  <2> HIDE DEF new
  <2>3. CompleteOK' /\ Connected' = Connected
    BY <2>2, SameComplete DEF Connected
  <2>4. new.repo \notin overlapped => Covered(new.repo, new.got \ new.todo)
    BY <2>1, <2>2 DEF FetchedOK, Covered
  <2> QED BY <1>0, <2>1, <2>2, <2>3, <2>4, SyncMoves
<1> QED BY <1>1, <1>2, <1>3

LEMMA EndSyncVcs ==
    ASSUME VcsInv, NEW s \in Syncs,
           FinishSync(s) \/ HandleSyncFailure(s) \/ SyncThrows(s) \/ SyncDies(s)
    PROVE  VcsInv'
<1> USE DEF VcsInv
<1>0. sync[s] \in SyncRecords /\ repo \in RepoRecords
  BY SyncIs
<1>1. CASE FinishSync(s)
  <2> DEFINE state == [connection |-> "connected", last |-> "success"]
  <2>1. state \in RepoRecords /\ state.connection # "none"
    BY DEF RepoRecords
  <2>2. /\ sync[s].pc = "pulls" /\ sync[s].todo = {} /\ sync' = [sync EXCEPT ![s] = NoSync]
        /\ Status(sync[s].repo, state)
        /\ synced' = IF Is(sync[s].repo) THEN sync[s].got ELSE synced
        /\ UNCHANGED <<repos, rows, drop, overlapped>>
    BY <1>1 DEF FinishSync
  <2>3. repo' \in RepoRecords /\ Connected' = Connected
    BY <2>1, <2>2, StatusIs
  <2>4. CompleteOK'
    <3>1. CASE Is(sync[s].repo)
      BY <2>2, <3>1 DEF CompleteOK, FetchedOK, Covered, Is
    <3>2. CASE ~Is(sync[s].repo)
      BY <2>2, <2>3, <3>2, SameComplete DEF Status
    <3> QED BY <3>1, <3>2
  <2> QED BY <2>2, <2>3, <2>4, NoSyncType, SyncMoves
<1>2. CASE HandleSyncFailure(s)
  <2> DEFINE state == [connection |-> "failed", last |-> "failed"]
  <2>1. state \in RepoRecords /\ state.connection # "none"
    BY DEF RepoRecords
  <2>2. /\ sync' = [sync EXCEPT ![s] = NoSync]
        /\ Status(sync[s].repo, state)
        /\ UNCHANGED <<repos, rows, drop, overlapped, synced>>
    BY <1>2 DEF HandleSyncFailure
  <2>3. /\ repo' \in RepoRecords /\ Connected' = Connected
        /\ repo'.last = "success" => repo.last = "success"
    BY <2>1, <2>2, StatusIs DEF Status
  <2>4. CompleteOK'
    BY <2>2, <2>3, SameComplete
  <2> QED BY <2>2, <2>3, <2>4, NoSyncType, SyncMoves
<1>3. CASE SyncThrows(s)
  <2> DEFINE new == [NoSync EXCEPT !.pc = "failing", !.repo = sync[s].repo]
  <2>1. new \in SyncRecords /\ new.pc = "failing" /\ new.repo = sync[s].repo
    BY <1>0, NoSyncType DEF SyncRecords, SyncPc
  <2>2. /\ sync[s].pc # "idle" /\ sync' = [sync EXCEPT ![s] = new]
        /\ UNCHANGED <<repos, repo, rows, drop, overlapped, synced>>
    BY <1>3 DEF SyncThrows, Go
  <2> HIDE DEF new
  <2>3. CompleteOK' /\ Connected' = Connected
    BY <2>2, SameComplete DEF Connected
  <2> QED BY <1>0, <2>1, <2>2, <2>3, SyncMoves
<1>4. CASE SyncDies(s)
  <2>1. /\ sync' = [sync EXCEPT ![s] = NoSync]
        /\ UNCHANGED <<repos, repo, rows, drop, overlapped, synced>>
    BY <1>4 DEF SyncDies
  <2>2. CompleteOK' /\ Connected' = Connected
    BY <2>1, SameComplete DEF Connected
  <2> QED BY <1>0, <2>1, <2>2, NoSyncType, SyncMoves
<1> QED BY <1>1, <1>2, <1>3, <1>4

\* An upsert keeps what is there and adds what it writes.
LEMMA UpsertCovers ==
    ASSUME NEW s \in Syncs, NEW x, Upsert(s, x)
    PROVE  /\ \A id, y : (\E w \in rows : w.repo = id /\ w.item = y) =>
                            (\E w \in rows' : w.repo = id /\ w.item = y)
           /\ \E w \in rows' : w.repo = sync[s].repo /\ w.item = x
<1> DEFINE row == [repo |-> sync[s].repo, item |-> x, links |-> sync[s].keys]
<1>1. row \in rows' /\ row.repo = sync[s].repo /\ row.item = x
  BY DEF Upsert
<1>2. \A w \in rows : w \in rows' \/ (w.repo = sync[s].repo /\ w.item = x)
  BY DEF Upsert, RowsOf
<1> HIDE DEF row
<1> QED BY <1>1, <1>2

LEMMA ValidateVcs == ASSUME WorkType, VcsInv, NEW s \in Syncs, ValidateKeys(s) PROVE VcsInv'
<1>1. PICK x \in sync[s].todo :
         sync' = [sync EXCEPT ![s] = [sync[s] EXCEPT !.item = {x}, !.keys = ValidKeys(x)]]
  BY DEF ValidateKeys, Go
<1> DEFINE new == [sync[s] EXCEPT !.item = {x}, !.keys = ValidKeys(x)]
<1>2. sync[s] \in SyncRecords /\ x \in Items /\ ValidKeys(x) \subseteq Nat
  BY SyncIs DEF SyncRecords, ValidKeys, WorkType, IssueRecords
<1>3. /\ new \in SyncRecords /\ new.pc = sync[s].pc /\ new.repo = sync[s].repo
      /\ new.got = sync[s].got /\ new.todo = sync[s].todo
  BY <1>2 DEF SyncRecords
<1>4. /\ sync' = [sync EXCEPT ![s] = new]
      /\ UNCHANGED <<repos, repo, rows, drop, overlapped, synced>>
  BY <1>1 DEF ValidateKeys
<1> HIDE DEF new
<1>5. repo' \in RepoRecords /\ Connected' = Connected /\ CompleteOK'
  BY <1>4, SyncIs, SameComplete DEF Connected
<1> QED BY <1>3, <1>4, <1>5, SyncMoves DEF VcsInv, FetchedOK

LEMMA UpsertVcs == ASSUME VcsInv, NEW s \in Syncs, UpsertItem(s) PROVE VcsInv'
<1> USE DEF VcsInv
<1>1. PICK x \in sync[s].item :
         /\ Upsert(s, x)
         /\ sync' = [sync EXCEPT ![s] = [sync[s] EXCEPT !.todo = sync[s].todo \ {x},
                                                        !.item = {}, !.keys = {}]]
  BY DEF UpsertItem, Go
<1> DEFINE new == [sync[s] EXCEPT !.todo = sync[s].todo \ {x}, !.item = {}, !.keys = {}]
           row == [repo |-> sync[s].repo, item |-> x, links |-> sync[s].keys]
<1>2. /\ new \in SyncRecords /\ new.pc = sync[s].pc /\ new.repo = sync[s].repo
      /\ new.got = sync[s].got /\ new.todo = sync[s].todo \ {x}
      /\ x \in Items
  BY SyncIs DEF SyncRecords
<1>3. /\ sync[s].pc \in {"commits", "pulls"} /\ sync' = [sync EXCEPT ![s] = new]
      /\ UNCHANGED <<repos, repo, drop, overlapped, synced>>
  BY <1>1 DEF UpsertItem
<1>4. /\ rows' = (rows \ RowsOf(sync[s].repo, {x})) \cup {row}
      /\ row.repo = sync[s].repo /\ row.item = x
  BY <1>1 DEF Upsert
<1> HIDE DEF new, row
<1>5. \A t \in Syncs : sync'[t] = IF t = s THEN new ELSE sync[t]
  BY <1>3 DEF VcsType
<1>6. VcsType' /\ DropOK' /\ SyncOK'
  BY <1>2, <1>3, <1>5 DEF VcsType, DropOK, SyncOK, Is, Connected
<1>7. RowsOK'
  <2>1. row.item \in Items /\ (row.repo \notin overlapped => Is(row.repo) /\ drop.pc \in {"idle", "found"})
    BY <1>2, <1>3, <1>4 DEF SyncOK
  <2>2. \A w \in rows' : w \in rows \/ w = row
    BY <1>4
  <2> QED BY <1>3, <2>1, <2>2 DEF RowsOK, Is, Connected
<1>8. OneRow'
  BY <1>4 DEF OneRow, RowsOf
<1>9. FetchedOK'
  <2> SUFFICES ASSUME NEW t \in Syncs, sync'[t].pc \in {"commits", "pulls"},
                      sync'[t].repo \notin overlapped',
                      NEW y \in sync'[t].got \ sync'[t].todo
               PROVE  \E w \in rows' : w.repo = sync'[t].repo /\ w.item = y
    BY DEF FetchedOK, Covered
  <2>1. sync[t].pc \in {"commits", "pulls"} /\ sync[t].repo \notin overlapped
        /\ sync'[t].repo = sync[t].repo
    BY <1>2, <1>3, <1>5
  <2>2. y \in sync[t].got \ sync[t].todo \/ (t = s /\ y = x)
    BY <1>2, <1>5
  <2>3. CASE y \in sync[t].got \ sync[t].todo
    <3>1. \E w \in rows : w.repo = sync[t].repo /\ w.item = y
      BY <2>1, <2>3 DEF FetchedOK, Covered
    <3> QED BY <1>1, <2>1, <3>1, UpsertCovers
  <2> QED BY <1>1, <2>1, <2>2, <2>3, UpsertCovers
<1>10. CompleteOK'
  <2> SUFFICES ASSUME Connected', repo'.last = "success", drop'.pc \in {"idle", "found"},
                      repos' \notin overlapped', NEW y \in synced'
               PROVE  \E w \in rows' : w.repo = repos' /\ w.item = y
    BY DEF CompleteOK, Covered
  <2>1. \E w \in rows : w.repo = repos /\ w.item = y
    BY <1>3 DEF CompleteOK, Covered, Connected
  <2> QED BY <1>1, <1>3, <2>1, UpsertCovers
<1> QED BY <1>6, <1>7, <1>8, <1>9, <1>10

LEMMA BranchesVcs == ASSUME VcsInv, BranchesFail PROVE VcsInv'
<1> USE DEF VcsInv
<1> DEFINE state == [connection |-> "failed", last |-> "failed"]
<1>1. /\ Connected /\ repo' = state /\ state \in RepoRecords
      /\ state.connection = "failed" /\ state.last = "failed"
      /\ UNCHANGED <<repos, rows, sync, drop, overlapped, synced>>
  BY DEF BranchesFail, Status, Is, RepoRecords
<1>2. Connected' = Connected
  BY <1>1 DEF Connected
<1>3. CompleteOK'
  BY <1>1, <1>2, SameComplete
<1> QED BY <1>1, <1>2, <1>3
        DEF VcsType, DropOK, SyncOK, RowsOK, OneRow, FetchedOK, Covered, Is

LEMMA VcsStepVcs == ASSUME WorkType, VcsInv, VcsNext PROVE VcsInv'
<1>1. ASSUME NEW x \in Items, Push(x) PROVE VcsInv'
  BY <1>1 DEF Push, VcsInv, VcsType, DropOK, SyncOK, RowsOK, OneRow, FetchedOK, CompleteOK,
              Covered, Is, Connected
<1>2. ASSUME NEW s \in Syncs, SyncStep(s) \/ SyncThrows(s) \/ SyncDies(s) PROVE VcsInv'
  BY <1>2, BeginSyncVcs, FetchVcs, ValidateVcs, UpsertVcs, EndSyncVcs DEF SyncStep
<1> QED BY <1>1, <1>2, ConnectVcs, DisconnectVcs, BranchesVcs DEF VcsNext

LEMMA VcsKept == ASSUME VcsInv, UNCHANGED syncVars PROVE VcsInv'
  BY DEF syncVars, VcsInv, VcsType, DropOK, SyncOK, RowsOK, OneRow, FetchedOK, CompleteOK,
         Covered, Is, Connected

-----------------------------------------------------------------------------
(***************************************************************************)
(* The repository and the issues.                                          *)
(***************************************************************************)

\* What is pushed is about the one issue that has the number it mentions.
LEMMA PushWork == ASSUME WorkInv, NEW x \in Items, Push(x) PROVE WorkInv'
<1> USE DEF WorkInv
<1>1. PICK i \in issues : github' = [github EXCEPT ![x] = [number |-> i.number, about |-> i.id]]
  BY DEF Push
<1>2. /\ github[x].number = 0
      /\ UNCHANGED <<counter, born, issues, req, trail, lost, rows, sync>>
  BY DEF Push, NotOnGitHub, trackVars
<1>3. /\ github' \in [Items -> GitRecords]
      /\ \A y \in Items : github'[y] = IF y = x THEN [number |-> i.number, about |-> i.id]
                                                ELSE github[y]
  BY <1>1 DEF WorkType, IssueRecords, GitRecords
<1>4. WorkType'
  BY <1>2, <1>3 DEF WorkType
<1>5. Counted'
  BY <1>2, <1>3 DEF Counted, WorkType
<1>6. OneNumber'
  BY <1>2, <1>3 DEF OneNumber
<1>7. LinksOK'
  BY <1>2, <1>3 DEF LinksOK
<1>8. TrailHasStatus'
  BY <1>2 DEF TrailHasStatus
<1> QED BY <1>4, <1>5, <1>6, <1>7, <1>8

\* The other steps of the repository leave the issues and GitHub alone.
LEMMA RowsWork ==
    ASSUME WorkInv, UNCHANGED <<counter, born, issues, req, trail, lost, github>>,
           \A w \in rows' : \/ w \in rows
                            \/ w.item \in Items /\ w.links \subseteq {github[w.item].number} \ {0},
           \A s \in Syncs : \A x \in sync'[s].item :
               \/ x \in sync[s].item /\ sync'[s].keys = sync[s].keys
               \/ x \in Items /\ sync'[s].keys \subseteq {github[x].number} \ {0}
    PROVE  WorkInv'
  BY DEF WorkInv, WorkType, Counted, OneNumber, LinksOK, TrailHasStatus

\* What a sync finds valid is the number the item mentions.
LEMMA ValidateWork == ASSUME WorkInv, VcsInv, NEW s \in Syncs, ValidateKeys(s) PROVE WorkInv'
<1>1. PICK x \in sync[s].todo :
         sync' = [sync EXCEPT ![s] = [sync[s] EXCEPT !.item = {x}, !.keys = ValidKeys(x)]]
  BY DEF ValidateKeys, Go
<1>2. x \in Items /\ sync[s] \in SyncRecords /\ sync \in [Syncs -> SyncRecords]
  BY SyncIs DEF SyncRecords, VcsInv, VcsType
<1>3. ValidKeys(x) \subseteq {github[x].number} \ {0}
  BY DEF ValidKeys, WorkInv, Counted
<1>4. \A t \in Syncs : /\ t # s => sync'[t] = sync[t]
                       /\ t = s => sync'[t].item = {x} /\ sync'[t].keys = ValidKeys(x)
  BY <1>1, <1>2 DEF SyncRecords
<1>5. UNCHANGED <<rows, counter, born, issues, req, trail, lost, github>>
  BY DEF ValidateKeys, trackVars
<1> QED BY <1>2, <1>3, <1>4, <1>5, RowsWork

\* A sync writes the keys it has looked up, though issues may have come and gone.
LEMMA UpsertWork == ASSUME WorkInv, VcsInv, NEW s \in Syncs, UpsertItem(s) PROVE WorkInv'
<1>1. PICK x \in sync[s].item :
         /\ Upsert(s, x)
         /\ sync' = [sync EXCEPT ![s] = [sync[s] EXCEPT !.todo = sync[s].todo \ {x},
                                                        !.item = {}, !.keys = {}]]
  BY DEF UpsertItem, Go
<1>2. x \in Items /\ sync[s].keys \subseteq {github[x].number} \ {0}
  BY DEF WorkInv, LinksOK
<1> DEFINE row == [repo |-> sync[s].repo, item |-> x, links |-> sync[s].keys]
<1>3. /\ row.item = x /\ row.links = sync[s].keys
      /\ \A w \in rows' : w \in rows \/ w = row
  BY <1>1 DEF Upsert
<1> HIDE DEF row
<1>4. \A t \in Syncs : t # s => sync'[t] = sync[t]
  BY <1>1 DEF VcsInv, VcsType
<1>5. sync'[s].item = {}
  BY <1>1, SyncIs DEF SyncRecords, VcsInv, VcsType
<1>6. UNCHANGED <<counter, born, issues, req, trail, lost, github>>
  BY DEF UpsertItem, trackVars
<1> QED BY <1>2, <1>3, <1>4, <1>5, <1>6, RowsWork

\* The other steps of a sync write no rows and look up no keys.
LEMMA SyncItems ==
    ASSUME VcsInv, NEW s \in Syncs, SyncStep(s) \/ SyncThrows(s) \/ SyncDies(s),
           ~UpsertItem(s), ~ValidateKeys(s)
    PROVE  /\ UNCHANGED <<rows, counter, born, issues, req, trail, lost, github>>
           /\ \A t \in Syncs : \A x \in sync'[t].item :
                 x \in sync[t].item /\ sync'[t].keys = sync[t].keys
<1>1. UNCHANGED <<rows, counter, born, issues, req, trail, lost, github>>
  BY DEF SyncStep, BeginSync, MarkSyncing, FetchCommits, FetchPullRequests, FinishSync,
         HandleSyncFailure, SyncThrows, SyncDies, trackVars
<1>2. sync \in [Syncs -> SyncRecords] /\ sync[s] \in SyncRecords
  BY DEF VcsInv, VcsType
<1>3. /\ \A t \in Syncs : t # s => sync'[t] = sync[t]
      /\ \/ sync'[s].item = {}
         \/ sync'[s].item = sync[s].item /\ sync'[s].keys = sync[s].keys
  <2>1. CASE MarkSyncing(s)
    BY <1>2, <2>1 DEF MarkSyncing, Go, SyncRecords
  <2>2. CASE FetchCommits(s)
    BY <1>2, <2>2 DEF FetchCommits, Go, SyncRecords
  <2>3. CASE FetchPullRequests(s)
    BY <1>2, <2>3 DEF FetchPullRequests, Go, SyncRecords
  <2>4. CASE BeginSync(s)
    BY <1>2, <2>4 DEF BeginSync, Go, NoSync
  <2>5. CASE FinishSync(s) \/ HandleSyncFailure(s) \/ SyncDies(s)
    BY <1>2, <2>5 DEF FinishSync, HandleSyncFailure, SyncDies, NoSync
  <2>6. CASE SyncThrows(s)
    BY <1>2, <2>6 DEF SyncThrows, Go, NoSync
  <2> QED BY <2>1, <2>2, <2>3, <2>4, <2>5, <2>6 DEF SyncStep
<1> QED BY <1>1, <1>3

LEMMA VcsStepWork == ASSUME WorkInv, VcsInv, VcsNext PROVE WorkInv'
<1>1. ASSUME ConnectRepository \/ Disconnect \/ BranchesFail PROVE WorkInv'
  <2>1. rows' \subseteq rows /\ UNCHANGED <<counter, born, issues, req, trail, lost, github, sync>>
    BY <1>1 DEF ConnectRepository, Disconnect, BeginDisconnect, DeleteCommits, DeletePullRequests,
                DeleteRepository, DisconnectDies, BranchesFail, trackVars
  <2> QED BY <2>1, RowsWork
<1>2. ASSUME NEW s \in Syncs, SyncStep(s) \/ SyncThrows(s) \/ SyncDies(s),
             ~UpsertItem(s), ~ValidateKeys(s)
      PROVE  WorkInv'
  BY <1>2, SyncItems, RowsWork
<1> QED BY <1>1, <1>2, PushWork, ValidateWork, UpsertWork DEF VcsNext

LEMMA WorkNextInv == WorkInv /\ VcsInv /\ [WorkNext]_workVars => WorkInv' /\ VcsInv'
<1> SUFFICES ASSUME WorkInv, VcsInv, [WorkNext]_workVars PROVE WorkInv' /\ VcsInv'
  OBVIOUS
<1>1. CASE TrackingNext /\ UNCHANGED syncVars
  BY <1>1, RequestStepWork, SetUpWork, VcsKept DEF TrackingNext
<1>2. CASE VcsNext
  BY <1>2, VcsStepWork, VcsStepVcs DEF WorkInv
<1>3. CASE UNCHANGED workVars
  <2>1. UNCHANGED syncVars /\ UNCHANGED <<rows, sync, counter, born, issues, req, trail, lost, github>>
    BY <1>3 DEF workVars, syncVars, trackVars
  <2> QED BY <2>1, VcsKept, RowsWork
<1> QED BY <1>1, <1>2, <1>3 DEF WorkNext

LEMMA TrackingInitInv ==
    ASSUME SyncInit, TrackingInit, NothingPushed PROVE WorkInv
<1>1. WorkType
  BY IdleType DEF TrackingInit, NothingPushed, NotOnGitHub, WorkType, GitRecords, NoCounter
<1>2. Counted /\ OneNumber
  BY IdleType DEF TrackingInit, NothingPushed, NotOnGitHub, Counted, OneNumber, NoCounter
<1>3. LinksOK /\ TrailHasStatus
  BY DEF SyncInit, NoSync, TrackingInit, LinksOK, TrailHasStatus
<1> QED BY <1>1, <1>2, <1>3 DEF WorkInv

\* With an issue from the beginning, and what was pushed for it.
LEMMA ProjectInitInv ==
    ASSUME SyncInit, NEW withIssue \in BOOLEAN, ProjectInit(withIssue),
           NothingPushed \/ (withIssue /\ AllPushed)
    PROVE  WorkInv
<1> DEFINE issue == [id |-> 1, number |-> counter, status |-> "open", first |-> "open"]
<1>1. /\ counter \in Nat /\ (withIssue => counter >= 1)
      /\ issues = IF withIssue THEN {issue} ELSE {}
      /\ req = [r \in Requests |-> Idle] /\ born = Cardinality(issues)
  BY TrackingAssumption DEF ProjectInit
<1>2. born = IF withIssue THEN 1 ELSE 0
  BY <1>1, FS_EmptySet, FS_Singleton
<1>3. issue \in IssueRecords /\ issue.id = 1 /\ issue.number = counter /\ issue.status = issue.first
  BY <1>1, TrackingAssumption DEF IssueRecords
<1> HIDE DEF issue
<1>4. \A x \in Items : /\ github[x] \in GitRecords /\ github[x].number \in 0..counter
                       /\ withIssue => github[x].number = 0 \/ github[x].about = 1
  BY <1>1, <1>2 DEF NothingPushed, AllPushed, NotOnGitHub, GitRecords
<1>5. github \in [Items -> GitRecords]
  BY <1>4 DEF NothingPushed, AllPushed
<1>6. WorkType
  BY <1>1, <1>2, <1>3, <1>5, IdleType DEF WorkType
<1>7. Counted /\ OneNumber
  BY <1>1, <1>3, <1>4, IdleType DEF Counted, OneNumber
<1>8. LinksOK /\ TrailHasStatus
  BY <1>1, <1>3 DEF SyncInit, NoSync, LinksOK, TrailHasStatus
<1> QED BY <1>6, <1>7, <1>8 DEF WorkInv

LEMMA InitInv == Init => WorkInv /\ VcsInv
<1> SUFFICES ASSUME Init PROVE WorkInv /\ VcsInv
  OBVIOUS
<1>1. VcsInv
  BY SyncInitInv DEF Init
<1>2. \/ TrackingInit /\ NothingPushed
      \/ ProjectInit(FALSE) /\ NothingPushed
      \/ ProjectInit(TRUE) /\ AllPushed
  BY DEF Init
<1> QED BY <1>1, <1>2, TrackingInitInv, ProjectInitInv DEF Init

\* A behaviour of Workspace moves the project as Together does.
LEMMA SpecMoves == [Next]_workspaceVars => [WorkNext]_workVars
<1> SUFFICES ASSUME [Next]_workspaceVars PROVE [WorkNext]_workVars
  OBVIOUS
<1>1. OneRequest \in Requests /\ OneSync \in Syncs
  BY WorkspaceAssumption DEF OneRequest, OneSync
<1>2. CASE LinkNext
  <2>1. CASE KeyStep(OneRequest) /\ UNCHANGED syncVars
    <3>1. RequestStep(OneRequest)
      BY <2>1 DEF KeyStep, RequestStep
    <3> HIDE DEF OneRequest
    <3> QED BY <1>1, <2>1, <3>1 DEF WorkNext, TrackingNext
  <2>2. CASE \/ \E x \in Items : Push(x)
             \/ ConnectRepository
             \/ SyncStep(OneSync) \/ SyncThrows(OneSync) \/ SyncDies(OneSync)
    BY <1>1, <2>2 DEF WorkNext, VcsNext
  <2> QED BY <1>2, <2>1, <2>2 DEF LinkNext
<1> QED BY <1>2 DEF Next, workspaceVars, WorkNext

LEMMA WorkInvariance == Spec => [](WorkInv /\ VcsInv)
<1>1. WorkInv /\ VcsInv /\ [Next]_workspaceVars => WorkInv' /\ VcsInv'
  BY SpecMoves, WorkNextInv
<1> QED BY <1>1, InitInv, PTL DEF Spec

LEMMA TogetherInvariance == Together => [](WorkInv /\ VcsInv)
<1>1. SyncInit /\ TrackingInit /\ NothingPushed => WorkInv /\ VcsInv
  BY TrackingInitInv, SyncInitInv
<1> QED BY <1>1, WorkNextInv, PTL DEF Together

\* The activity of an issue never shows work that was done for another one: a
\* number is given once, though issues are deleted and links are found by number.
THEOREM NothingBorrowed == Spec => []NoBorrowedHistory
  BY WorkInvariance, WorkBorrows, PTL

\* The same while issues, links and repository move together.
THEOREM NothingBorrowedTogether == Together => []NoBorrowedHistory
  BY TogetherInvariance, WorkBorrows, PTL

LEMMA WorkExplains == WorkInv => TrailHasStatus
  BY DEF WorkInv

\* The audit log tells how each issue came to its status, however requests
\* overlap, unless the one that set it died before it told.
THEOREM StatusExplained == Spec => []TrailHasStatus
  BY WorkInvariance, WorkExplains, PTL

\* A repository shown as synchronised has all that its last sync fetched.
THEOREM SuccessComplete == Spec => []SuccessIsComplete
  BY WorkInvariance, VcsShows, PTL

\* An item is shown once, by the repository there is, whatever was connected
\* before, unless a disconnect failed or met a sync.
THEOREM ItemsShownOnce == Spec => []ShownOnce
  BY WorkInvariance, VcsShows, PTL

\* Both while issues are made, changed and deleted beside the syncs.
THEOREM SyncsTogether == Together => [](SuccessIsComplete /\ ShownOnce)
  BY TogetherInvariance, VcsShows, PTL

-----------------------------------------------------------------------------
(***************************************************************************)
(* Integrations.                                                           *)
(***************************************************************************)

AllNames == Names \cup {Unset, Original.name}
DocRecords == [is : {"stored", "unborn", "deleted"}, name : AllNames,
               active : Active \cup {Unset}, secret : Nat, error : Nat]
SetRecords == [name : AllNames, active : Active \cup {Unset}, secret : Nat]
CallRecords == [pc : {"idle", "insert", "save", "answer"}, id : Ids \cup {Unset}, set : SetRecords]

SecretsType ==
    /\ minted \in Nat
    /\ integration \in [Ids -> DocRecords]
    /\ call \in [Callers -> CallRecords]

SecretOf(c) == call[c].set.secret

\* A request that is about to write a credential it has been given.
Pending(c) == call[c].pc \in {"insert", "save"} /\ SecretOf(c) # 0

CallsOK ==
    \A c \in Callers :
        /\ SecretOf(c) <= minted
        /\ call[c].pc = "idle" => SecretOf(c) = 0
        /\ call[c].pc = "insert" => SecretOf(c) # 0
        /\ call[c].pc # "idle" => call[c].id \in Ids

\* No two requests have the same credential, and what is to be written is
\* neither in force anywhere nor a thing of the past.
NewSecrets ==
    /\ \A c, d \in Callers : SecretOf(c) # 0 /\ SecretOf(c) = SecretOf(d) => c = d
    /\ \A c \in Callers : Pending(c) =>
          /\ SecretOf(c) \notin past
          /\ \A i \in Ids : IsStored(i) => integration[i].secret # SecretOf(c)

\* No two integrations have the same credential.
OwnSecrets ==
    \A i, j \in Ids :
        IsStored(i) /\ IsStored(j) /\ integration[i].secret = integration[j].secret => i = j

Bounded ==
    /\ \A p \in past : p \in 0..minted
    /\ \A i \in Ids : IsStored(i) => integration[i].secret <= minted
    /\ 0 \in known

SecretsInv ==
    SecretsType /\ CallsOK /\ NewSecrets /\ OwnSecrets /\ Bounded /\ NoSecretReturns /\ SecretIsKnown

LEMMA SecretsInit == IntegrationsInit => SecretsInv
<1> SUFFICES ASSUME IntegrationsInit PROVE SecretsInv
  OBVIOUS
<1> USE DEF IntegrationsInit
<1>1. NoCall \in CallRecords /\ NoCall.pc = "idle" /\ NoCall.set.secret = 0
  BY DEF NoCall, Nothing, CallRecords, SetRecords, AllNames
<1>2. Original \in DocRecords /\ Original.secret = 0
  BY DEF Original, DocRecords, AllNames, Active
<1>3. Missing("unborn") \in DocRecords /\ Missing("unborn").is # "stored"
  BY DEF Missing, DocRecords, AllNames, Active
<1>4. PICK old \in {{}} \cup {{i} : i \in Ids} :
         integration = [i \in Ids |-> IF i \in old THEN Original ELSE Missing("unborn")]
  OBVIOUS
<1>5. \A i \in Ids : IsStored(i) => i \in old /\ integration[i].secret = 0
  BY <1>2, <1>3, <1>4 DEF IsStored
<1>6. SecretsType
  BY <1>1, <1>2, <1>3, <1>4 DEF SecretsType
<1>7. CallsOK /\ NewSecrets
  BY <1>1 DEF CallsOK, NewSecrets, SecretOf, Pending
<1>8. OwnSecrets /\ Bounded /\ NoSecretReturns
  BY <1>4, <1>5 DEF OwnSecrets, Bounded, NoSecretReturns
<1>9. SecretIsKnown
  BY <1>5 DEF SecretIsKnown
<1> QED BY <1>6, <1>7, <1>8, <1>9 DEF SecretsInv

\* A request that is given a credential is given one nobody has had.
LEMMA StartSecrets ==
    ASSUME SecretsInv, NEW c \in Callers, NEW pc \in {"insert", "save"}, NEW i \in Ids,
           NEW set \in SetRecords, set.secret \in {0, minted + 1},
           pc = "insert" => set.secret # 0, StartCall(c, pc, i, set)
    PROVE  SecretsInv'
<1> USE DEF SecretsInv
<1> DEFINE new == [pc |-> pc, id |-> i, set |-> set]
<1>1. /\ new \in CallRecords /\ new.pc = pc /\ new.id = i /\ new.set = set
      /\ call' = [call EXCEPT ![c] = new] /\ call[c].pc = "idle"
      /\ UNCHANGED <<kind, integration, known, past>>
  BY DEF StartCall, CallRecords
<1>2. minted' = minted + (IF set.secret = 0 THEN 0 ELSE 1)
  BY DEF StartCall
<1>3. minted' \in Nat /\ minted <= minted' /\ set.secret <= minted'
      /\ (set.secret # 0 => set.secret > minted)
  BY <1>2 DEF SecretsType
<1> HIDE DEF new
<1>4. \A d \in Callers : call'[d] = IF d = c THEN new ELSE call[d]
  BY <1>1 DEF SecretsType
<1>5. SecretsType'
  BY <1>1, <1>3 DEF SecretsType
<1>6. \A d \in Callers : SecretOf(d) \in Nat /\ SecretOf(d) <= minted
  BY DEF SecretsType, CallsOK, SecretOf, CallRecords, SetRecords
<1>7. CallsOK'
  BY <1>1, <1>3, <1>4, <1>6, <1>5 DEF CallsOK, SecretOf, SecretsType
<1>8. NewSecrets'
  <2>1. \A p \in past : p # set.secret \/ set.secret = 0
    BY <1>3 DEF Bounded, SecretsType
  <2>2. \A j \in Ids : IsStored(j) => integration[j].secret # set.secret \/ set.secret = 0
    BY <1>3 DEF Bounded, SecretsType, DocRecords
  <2>3. \A d \in Callers : SecretOf(d) # set.secret \/ set.secret = 0
    BY <1>3, <1>6 DEF SecretsType
  <2>4. \A d \in Callers : SecretOf(d)' = IF d = c THEN set.secret ELSE SecretOf(d)
    BY <1>1, <1>4 DEF SecretOf
  <2>5. \A a, b \in Callers : SecretOf(a)' # 0 /\ SecretOf(a)' = SecretOf(b)' => a = b
    BY <2>3, <2>4 DEF NewSecrets
  <2>6. ASSUME NEW d \in Callers, Pending(d)'
        PROVE  /\ SecretOf(d)' \notin past'
               /\ \A j \in Ids : IsStored(j)' => integration'[j].secret # SecretOf(d)'
    <3>1. CASE d = c
      BY <1>1, <2>1, <2>2, <2>4, <2>6, <3>1 DEF Pending, IsStored
    <3>2. CASE d # c
      <4>1. Pending(d) /\ SecretOf(d)' = SecretOf(d)
        BY <1>4, <2>4, <2>6, <3>2 DEF Pending
      <4> QED BY <1>1, <4>1 DEF NewSecrets, IsStored
    <3> QED BY <3>1, <3>2
  <2> QED BY <2>5, <2>6 DEF NewSecrets
<1>9. OwnSecrets' /\ NoSecretReturns'
  BY <1>1 DEF OwnSecrets, NoSecretReturns, IsStored
<1>10. Bounded'
  <2>1. 0..minted \subseteq 0..minted'
    BY <1>3 DEF SecretsType
  <2>2. \A j \in Ids : IsStored(j) => integration[j].secret <= minted'
    BY <1>3 DEF Bounded, SecretsType, DocRecords
  <2> QED BY <1>1, <2>1, <2>2 DEF Bounded, IsStored
<1>11. SecretIsKnown'
  <2>1. SecretOf(c) = 0 /\ 0 \in known
    BY <1>1 DEF CallsOK, Bounded
  <2>2. \A d \in Callers : d # c => SecretOf(d)' = SecretOf(d)
    BY <1>4 DEF SecretOf
  <2> QED BY <1>1, <2>1, <2>2 DEF SecretIsKnown, SecretOf, IsStored
<1> QED BY <1>5, <1>7, <1>8, <1>9, <1>10, <1>11

LEMMA CreateSecrets ==
    ASSUME SecretsInv, NEW c \in Callers, NEW i \in Ids, NEW n \in Names,
           \/ CreateSecurityIntegration(c, i, n) \/ CreateOrchestrationIntegration(c, i, n)
           \/ CreateJenkinsIntegration(c, i, n)
    PROVE  SecretsInv'
<1> DEFINE set == [name |-> n, active |-> "on", secret |-> minted + 1]
<1>1. StartCall(c, "insert", i, set)
  BY DEF CreateSecurityIntegration, CreateOrchestrationIntegration, CreateJenkinsIntegration, NewSecret
<1>2. minted + 1 \in Nat /\ minted + 1 # 0
  BY DEF SecretsInv, SecretsType
<1>3. set \in SetRecords /\ set.secret = minted + 1
  BY <1>2 DEF SetRecords, AllNames, Active
<1> HIDE DEF set
<1> QED BY <1>1, <1>2, <1>3, StartSecrets

LEMMA ChangeSecrets ==
    ASSUME SecretsInv, NEW c \in Callers, NEW i \in Ids,
           \/ UpdateSecurityIntegration(c, i) \/ UpdateOrchestrationIntegration(c, i)
           \/ RotateSecurityIntegrationSecret(c, i)
    PROVE  SecretsInv'
<1>1. PICK set \in SetRecords : set.secret \in {0, minted + 1} /\ StartCall(c, "save", i, set)
  <2>0. minted + 1 \in Nat
    BY DEF SecretsInv, SecretsType
  <2>1. CASE UpdateSecurityIntegration(c, i)
    <3>1. PICK n \in Names \cup {Unset}, a \in Active \cup {Unset} :
             StartCall(c, "save", i, [name |-> n, active |-> a, secret |-> 0])
      BY <2>1 DEF UpdateSecurityIntegration, Modified
    <3>2. [name |-> n, active |-> a, secret |-> 0] \in SetRecords
      BY DEF SetRecords, AllNames
    <3> QED BY <3>1, <3>2
  <2>2. CASE UpdateOrchestrationIntegration(c, i)
    <3>1. PICK n \in Names \cup {Unset}, secret \in {0, minted + 1} :
             StartCall(c, "save", i, [name |-> n, active |-> Unset, secret |-> secret])
      BY <2>2 DEF UpdateOrchestrationIntegration, Modified, NewSecret
    <3>2. secret \in Nat
      BY <2>0
    <3>3. [name |-> n, active |-> Unset, secret |-> secret] \in SetRecords
      BY <3>2 DEF SetRecords, AllNames
    <3> QED BY <3>1, <3>3
  <2>3. CASE RotateSecurityIntegrationSecret(c, i)
    <3> DEFINE set == [Nothing EXCEPT !.secret = minted + 1]
    <3>1. StartCall(c, "save", i, set)
      BY <2>3 DEF RotateSecurityIntegrationSecret, NewSecret
    <3>2. set \in SetRecords /\ set.secret = minted + 1
      BY <2>0 DEF SetRecords, AllNames, Nothing
    <3> QED BY <3>1, <3>2
  <2> QED BY <2>1, <2>2, <2>3
<1> QED BY <1>1, StartSecrets

\* A write that puts the credential of request c in force, in place of the one
\* there was, which is past.
LEMMA WriteSecrets ==
    ASSUME SecretsInv, NEW c \in Callers, NEW i \in Ids, NEW doc \in DocRecords,
           call[c].pc \in {"insert", "save"},
           call' = [call EXCEPT ![c] = [call[c] EXCEPT !.pc = "answer"]],
           integration' = [integration EXCEPT ![i] = doc],
           \/ Pending(c) /\ doc.secret = SecretOf(c)
           \/ IsStored(i) /\ doc.secret = integration[i].secret,
           \A p \in past' : \/ p \in past
                            \/ IsStored(i) /\ p = integration[i].secret /\ doc.secret # p,
           UNCHANGED <<kind, observer, minted, known>>
    PROVE  SecretsInv'
<1> USE DEF SecretsInv
<1> DEFINE new == [call[c] EXCEPT !.pc = "answer"]
<1>1. /\ new \in CallRecords /\ new.pc = "answer" /\ new.id = call[c].id /\ new.set = call[c].set
      /\ call' = [call EXCEPT ![c] = new]
  BY DEF SecretsType, CallRecords
<1> HIDE DEF new
<1>2. /\ \A d \in Callers : call'[d] = IF d = c THEN new ELSE call[d]
      /\ \A j \in Ids : integration'[j] = IF j = i THEN doc ELSE integration[j]
  BY <1>1 DEF SecretsType
<1>3. SecretsType'
  BY <1>1 DEF SecretsType
<1>4. \A d \in Callers : SecretOf(d)' = SecretOf(d)
  BY <1>1, <1>2 DEF SecretOf
<1>5. CallsOK'
  BY <1>1, <1>2, <1>4 DEF CallsOK
<1>6. \A d \in Callers : Pending(d)' => d # c /\ Pending(d)
  BY <1>1, <1>2, <1>4 DEF Pending
<1>7. \A j \in Ids : IsStored(j)' => j = i \/ (IsStored(j) /\ integration'[j] = integration[j])
  BY <1>2 DEF IsStored
<1>8. \A j \in Ids : j # i /\ IsStored(j) => integration[j].secret # doc.secret
  BY DEF NewSecrets, OwnSecrets
<1>9. NewSecrets'
  <2>1. ASSUME NEW d \in Callers, Pending(d)'
        PROVE  /\ SecretOf(d)' \notin past'
               /\ \A j \in Ids : IsStored(j)' => integration'[j].secret # SecretOf(d)'
    <3>1. /\ d # c /\ Pending(d) /\ SecretOf(d) # 0
          /\ SecretOf(d) \notin past
          /\ \A j \in Ids : IsStored(j) => integration[j].secret # SecretOf(d)
      BY <1>6, <2>1 DEF NewSecrets, Pending
    <3>2. doc.secret # SecretOf(d)
      BY <3>1 DEF NewSecrets
    <3> QED BY <1>2, <1>4, <1>7, <3>1, <3>2
  <2> QED BY <1>4, <2>1 DEF NewSecrets
<1>10. OwnSecrets'
  BY <1>2, <1>7, <1>8 DEF OwnSecrets
<1>11. Bounded'
  <2>1. doc.secret <= minted
    BY DEF CallsOK, Bounded
  <2>2. \A p \in past' : p \in 0..minted
    BY DEF Bounded, SecretsType, DocRecords
  <2> QED BY <1>2, <1>7, <2>1, <2>2 DEF Bounded
<1>12. NoSecretReturns'
  <2>1. doc.secret \notin past'
    BY DEF NewSecrets, NoSecretReturns
  <2>2. \A j \in Ids : j # i /\ IsStored(j) => integration[j].secret \notin past'
    BY DEF NoSecretReturns, OwnSecrets
  <2> QED BY <1>2, <1>7, <2>1, <2>2 DEF NoSecretReturns
<1>13. SecretIsKnown'
  <2> SUFFICES ASSUME kind # "orchestration", NEW j \in Ids, IsStored(j)'
               PROVE  \/ integration'[j].secret \in known
                      \/ \E d \in Callers : integration'[j].secret = SecretOf(d)'
    BY DEF SecretIsKnown, SecretOf
  <2>1. \/ IsStored(j) /\ integration'[j].secret = integration[j].secret
        \/ integration'[j].secret = SecretOf(c)
    BY <1>2, <1>7
  <2> QED BY <1>4, <2>1 DEF SecretIsKnown, SecretOf
<1> QED BY <1>3, <1>5, <1>9, <1>10, <1>11, <1>12, <1>13

\* A request that ends, having told its caller or having nothing in force to tell.
LEMMA EndSecrets ==
    ASSUME SecretsInv, NEW c \in Callers, call' = [call EXCEPT ![c] = NoCall],
           UNCHANGED <<kind, integration, observer, minted, past>>,
           known \subseteq known',
           \/ Pending(c)
           \/ kind # "orchestration" => SecretOf(c) \in known'
    PROVE  SecretsInv'
<1> USE DEF SecretsInv
<1>1. NoCall \in CallRecords /\ NoCall.pc = "idle" /\ NoCall.set.secret = 0
  BY DEF NoCall, Nothing, CallRecords, SetRecords, AllNames
<1>2. \A d \in Callers : call'[d] = IF d = c THEN NoCall ELSE call[d]
  BY DEF SecretsType
<1>3. \A d \in Callers : SecretOf(d)' = IF d = c THEN 0 ELSE SecretOf(d)
  BY <1>1, <1>2 DEF SecretOf
<1>4. SecretsType' /\ CallsOK'
  BY <1>1, <1>2, <1>3 DEF SecretsType, CallsOK
<1>5. NewSecrets'
  <2>1. \A d \in Callers : Pending(d)' => d # c /\ Pending(d) /\ SecretOf(d)' = SecretOf(d)
    BY <1>1, <1>2, <1>3 DEF Pending
  <2> QED BY <1>3, <2>1 DEF NewSecrets, IsStored
<1>6. OwnSecrets' /\ Bounded' /\ NoSecretReturns'
  BY DEF OwnSecrets, Bounded, NoSecretReturns, IsStored
<1>7. SecretIsKnown'
  <2> SUFFICES ASSUME kind # "orchestration", NEW j \in Ids, IsStored(j)
               PROVE  \/ integration[j].secret \in known'
                      \/ \E d \in Callers : integration[j].secret = SecretOf(d)'
    BY DEF SecretIsKnown, SecretOf, IsStored
  <2>1. CASE integration[j].secret \in known
    BY <2>1
  <2>2. ASSUME NEW d \in Callers, integration[j].secret = SecretOf(d) PROVE
           \/ integration[j].secret \in known'
           \/ \E e \in Callers : integration[j].secret = SecretOf(e)'
    <3>1. CASE d = c
      BY <2>2, <3>1 DEF NewSecrets
    <3>2. CASE d # c
      BY <1>3, <2>2, <3>2
    <3> QED BY <3>1, <3>2
  <2> QED BY <2>1, <2>2 DEF SecretIsKnown, SecretOf
<1> QED BY <1>4, <1>5, <1>6, <1>7

LEMMA InsertSaveSecrets ==
    ASSUME SecretsInv, NEW c \in Callers, Insert(c) \/ Save(c) PROVE SecretsInv'
<1> USE DEF SecretsInv
<1> DEFINE i == call[c].id  set == call[c].set
<1>0. /\ call[c] \in CallRecords /\ set \in SetRecords
      /\ call[c].pc \in {"insert", "save"} /\ i \in Ids /\ integration[i] \in DocRecords
  BY DEF SecretsType, CallRecords, CallsOK, Insert, Save
<1>1. CASE Fail(c) /\ UNCHANGED past
  <2>1. /\ call' = [call EXCEPT ![c] = NoCall]
        /\ UNCHANGED <<kind, integration, observer, minted, past, known>>
    BY <1>1 DEF Fail, Insert, Save
  <2>2. Pending(c) \/ SecretOf(c) \in known
    BY <1>0 DEF Pending, Bounded
  <2> QED BY <2>1, <2>2, EndSecrets
<1>2. CASE Insert(c) /\ ~(Fail(c) /\ UNCHANGED past)
  <2> DEFINE doc == [is |-> "stored", name |-> set.name, active |-> set.active,
                     secret |-> set.secret, error |-> 0]
  <2>1. doc \in DocRecords /\ doc.secret = SecretOf(c)
    BY <1>0 DEF DocRecords, SetRecords, SecretOf
  <2>2. /\ call[c].pc = "insert" /\ integration' = [integration EXCEPT ![i] = doc]
        /\ call' = [call EXCEPT ![c] = [call[c] EXCEPT !.pc = "answer"]]
        /\ UNCHANGED <<kind, observer, minted, known, past>>
    BY <1>2 DEF Insert
  <2>3. Pending(c)
    BY <2>2 DEF Pending, CallsOK
  <2> HIDE DEF doc, i
  <2> QED BY <1>0, <2>1, <2>2, <2>3, WriteSecrets DEF i
<1>3. CASE Save(c) /\ ~(Fail(c) /\ UNCHANGED past)
  <2> DEFINE doc == [integration[i] EXCEPT
                       !.name   = IF set.name = Unset THEN @ ELSE set.name,
                       !.active = IF set.active = Unset THEN @ ELSE set.active,
                       !.secret = IF set.secret = 0 THEN @ ELSE set.secret]
  <2>1. /\ doc \in DocRecords
        /\ doc.secret = IF set.secret = 0 THEN integration[i].secret ELSE set.secret
    BY <1>0 DEF DocRecords, SetRecords
  <2>2. /\ call[c].pc = "save" /\ IsStored(i) /\ integration' = [integration EXCEPT ![i] = doc]
        /\ past' = IF set.secret \in {0, integration[i].secret} THEN past
                   ELSE past \cup {integration[i].secret}
        /\ call' = [call EXCEPT ![c] = [call[c] EXCEPT !.pc = "answer"]]
        /\ UNCHANGED <<kind, observer, minted, known>>
    BY <1>0, <1>3 DEF Save, SecretsType
  <2>3. \/ Pending(c) /\ doc.secret = SecretOf(c)
        \/ IsStored(i) /\ doc.secret = integration[i].secret
    BY <2>1, <2>2 DEF Pending, SecretOf
  <2>4. \A p \in past' : \/ p \in past
                         \/ IsStored(i) /\ p = integration[i].secret /\ doc.secret # p
    BY <2>1, <2>2
  <2> HIDE DEF doc, i
  <2> QED BY <1>0, <2>1, <2>2, <2>3, <2>4, WriteSecrets DEF i
<1> QED BY <1>1, <1>2, <1>3

LEMMA AnswerSecrets ==
    ASSUME SecretsInv, NEW c \in Callers, Answer(c) \/ CallDies(c) PROVE SecretsInv'
<1>1. /\ call' = [call EXCEPT ![c] = NoCall]
      /\ UNCHANGED <<kind, integration, observer, minted, past>>
      /\ known' = IF kind = "orchestration" THEN known ELSE known \cup {SecretOf(c)}
  BY DEF Answer, CallDies, Told, SecretOf
<1> QED BY <1>1, EndSecrets

\* Steps that leave every credential where it is, or take one away with its
\* integration.
LEMMA KeepSecrets ==
    ASSUME SecretsInv, UNCHANGED <<kind, call, minted, known, past>>,
           integration' \in [Ids -> DocRecords],
           \A i \in Ids : integration'[i].is = "stored" =>
              IsStored(i) /\ integration'[i].secret = integration[i].secret
    PROVE  SecretsInv'
<1> USE DEF SecretsInv
<1>1. SecretsType' /\ CallsOK'
  BY DEF SecretsType, CallsOK, SecretOf
<1>2. NewSecrets' /\ OwnSecrets' /\ Bounded'
  BY DEF NewSecrets, OwnSecrets, Bounded, SecretOf, Pending, IsStored
<1>3. NoSecretReturns' /\ SecretIsKnown'
  BY DEF NoSecretReturns, SecretIsKnown, IsStored
<1> QED BY <1>1, <1>2, <1>3

LEMMA JobSecrets ==
    ASSUME SecretsInv,
           \/ \E i \in Ids : Delete(i) \/ \E o \in Observers : StartJob(o, i)
           \/ \E o \in Observers : EndJob(o)
    PROVE  SecretsInv'
<1> USE DEF SecretsInv
<1>1. ASSUME NEW i \in Ids, Delete(i) PROVE SecretsInv'
  <2>1. Missing("deleted") \in DocRecords /\ Missing("deleted").is = "deleted"
    BY DEF Missing, DocRecords, AllNames, Active
  <2>2. /\ integration' = [integration EXCEPT ![i] = Missing("deleted")]
        /\ UNCHANGED <<kind, call, minted, known, past>>
    BY <1>1 DEF Delete
  <2> QED BY <2>1, <2>2, KeepSecrets DEF SecretsType, IsStored
<1>2. ASSUME NEW i \in Ids, NEW o \in Observers, StartJob(o, i) PROVE SecretsInv'
  BY <1>2, KeepSecrets DEF StartJob, SecretsType, IsStored
<1>3. ASSUME NEW o \in Observers, EndJob(o) PROVE SecretsInv'
  <2> DEFINE i == observer[o].id  token == observer[o].token
  <2>1. /\ integration' = IF IsStored(i) THEN [integration EXCEPT ![i] = Note(@, token)]
                          ELSE integration
        /\ UNCHANGED <<kind, call, minted, known, past>>
    BY <1>3 DEF EndJob
  <2>2. \A t \in BadTokens : t \in Nat
    <3>1. \A t \in 1..MaxSecrets : t \in Nat
      BY IntegrationsAssumption
    <3> QED BY <3>1, IntegrationsAssumption
  <2>3. \A doc \in DocRecords : /\ Note(doc, token) \in DocRecords
                                /\ Note(doc, token).is = doc.is
                                /\ Note(doc, token).secret = doc.secret
    BY <2>2 DEF Note, DocRecords
  <2> HIDE DEF i, token
  <2>4. CASE i \in Ids /\ IsStored(i)
    <3> DEFINE new == Note(integration[i], token)
    <3>1. /\ new \in DocRecords /\ new.is = integration[i].is
          /\ new.secret = integration[i].secret
      BY <2>3, <2>4 DEF SecretsType
    <3>2. integration' = [integration EXCEPT ![i] = new]
      BY <2>1, <2>4
    <3> HIDE DEF new
    <3> QED BY <2>1, <2>4, <3>1, <3>2, KeepSecrets DEF SecretsType, IsStored
  <2>5. CASE ~(i \in Ids /\ IsStored(i))
    <3>1. integration' = integration
      BY <2>1, <2>5 DEF SecretsType
    <3> QED BY <2>1, <3>1, KeepSecrets DEF SecretsType, IsStored
  <2> QED BY <2>4, <2>5
<1> QED BY <1>1, <1>2, <1>3

LEMMA SecretsNext ==
    SecretsInv /\ (IntegrationsNext \/ UNCHANGED integrationVars) => SecretsInv'
<1>1. ASSUME SecretsInv, IntegrationsNext PROVE SecretsInv'
  BY <1>1, CreateSecrets, ChangeSecrets, InsertSaveSecrets, AnswerSecrets, JobSecrets
     DEF IntegrationsNext
<1>2. ASSUME SecretsInv, UNCHANGED integrationVars PROVE SecretsInv'
  <2>1. /\ UNCHANGED <<kind, call, minted, known, past, integration>>
    BY <1>2 DEF integrationVars
  <2> QED BY <1>2, <2>1, KeepSecrets DEF SecretsInv, SecretsType, IsStored
<1> QED BY <1>1, <1>2

LEMMA SecretsInvariance == Spec => []SecretsInv
<1>1. Init => SecretsInv
  BY SecretsInit DEF Init
<1>2. [Next]_workspaceVars => IntegrationsNext \/ UNCHANGED integrationVars
  BY DEF Next, workspaceVars
<1>3. SecretsInv /\ [Next]_workspaceVars => SecretsInv'
  BY <1>2, SecretsNext
<1> QED BY <1>1, <1>3, PTL DEF Spec

LEMMA SecretsShow == SecretsInv => NoSecretReturns /\ SecretIsKnown
  BY DEF SecretsInv

\* A credential that was replaced is never back in force, whatever updates and
\* rotations of the same integration overlap with its replacement.
THEOREM NoSecretComesBack == Spec => []NoSecretReturns
  BY SecretsInvariance, SecretsShow, PTL

\* The secret in force was told to a caller, however rotations overlap, unless
\* the request that set it is still at it.
THEOREM SecretInForceKnown == Spec => []SecretIsKnown
  BY SecretsInvariance, SecretsShow, PTL
=============================================================================
