---------------------------- MODULE IssueTracking ----------------------------
(***************************************************************************)
(* One project: its creation in three writes, the counter that numbers its *)
(* issues, and the requests that create, change, comment on and delete     *)
(* issues, each one a chain of database calls between which other requests *)
(* run.  The audit log listens to the events of these requests; a request  *)
(* does not wait for its write and a failed one is only logged.            *)
(***************************************************************************)
EXTENDS Naturals, FiniteSets

CONSTANTS
    Requests,       \* requests that may be in the API process at a time
    Statuses,       \* ISSUE_STATUS_VALUES
    InitialCounter, \* INITIAL_ISSUE_COUNTER
    MaxIssues,      \* bound: how many issues are ever created
    MaxCalls,       \* bound: how many requests change what exists
    MaxFaults       \* bound: processes that die, writes of the log that fail

ASSUME TrackingAssumption ==
    /\ "open" \in Statuses
    /\ InitialCounter \in Nat /\ MaxIssues \in Nat /\ MaxCalls \in Nat

VARIABLES
    setup,      \* createProject: how far it is
    counter,    \* ProjectCounter.currentSeq, NoCounter without a document
    issues,     \* the Issue documents
    comments,   \* the Comment documents: the issues they belong to
    req,        \* the requests
    trail,      \* the AuditLog entries of changes of status
    born,       \* history: how many issues there have been
    lost,       \* history: the issues a request saved and died before telling
    budget      \* what is left of the bounds

trackVars == <<setup, counter, issues, comments, req, trail, born, lost, budget>>

NoCounter == 0
Numbers == 1..(InitialCounter + MaxIssues + MaxCalls)
IssueIds == 1..MaxIssues
\* first, a history field, is the status the issue was created with.
Issue == [id : IssueIds, number : Numbers, status : Statuses, first : Statuses]
Idle == [pc |-> "idle", id |-> 0, number |-> 0, old |-> "open", new |-> "open"]
ReqPc == {"idle", "creating", "numbered", "created", "found", "saved",
          "deleting", "commenting", "commented"}
Setup == {"none", "project", "counter", "done", "failed"}

TrackingTypeOK ==
    /\ setup \in Setup
    /\ counter \in Numbers \cup {NoCounter}
    /\ issues \subseteq Issue
    /\ \A i, j \in issues : i.id = j.id \/ i.number = j.number => i = j
    /\ comments \subseteq IssueIds
    /\ req \in [Requests -> [pc : ReqPc, id : IssueIds \cup {0}, number : Numbers \cup {0},
                             old : Statuses, new : Statuses]]
    /\ trail \subseteq [id : IssueIds, old : Statuses, new : Statuses]
    /\ born \in 0..MaxIssues
    /\ lost \subseteq IssueIds
    /\ budget \in [calls : 0..MaxCalls, faults : 0..MaxFaults]

TrackingInit ==
    /\ setup = "none"
    /\ counter = NoCounter
    /\ issues = {}
    /\ comments = {}
    /\ req = [r \in Requests |-> Idle]
    /\ trail = {}
    /\ born = 0
    /\ lost = {}
    /\ budget = [calls |-> MaxCalls, faults |-> MaxFaults]

-----------------------------------------------------------------------------
(***************************************************************************)
(* createProject.  The project can be reached from its first write on: an  *)
(* administrator of the platform needs no membership.                      *)
(***************************************************************************)

CreateProject ==
    /\ setup = "none"
    /\ setup' = "project"
    /\ UNCHANGED <<counter, issues, comments, req, trail, born, lost, budget>>

\* The counter of a project is unique: an issue may have made one before.
CreateCounter ==
    /\ setup = "project"
    /\ IF counter = NoCounter
         THEN /\ counter' = InitialCounter
              /\ setup' = "counter"
         ELSE /\ setup' = "failed"
              /\ UNCHANGED counter
    /\ UNCHANGED <<issues, comments, req, trail, born, lost, budget>>

CreateOwner ==
    /\ setup = "counter"
    /\ setup' = "done"
    /\ UNCHANGED <<counter, issues, comments, req, trail, born, lost, budget>>

SetupDies ==
    /\ setup \in {"project", "counter"}
    /\ budget.faults > 0
    /\ setup' = "failed"
    /\ budget' = [budget EXCEPT !.faults = @ - 1]
    /\ UNCHANGED <<counter, issues, comments, req, trail, born, lost>>

SetUp == CreateProject \/ CreateCounter \/ CreateOwner \/ SetupDies

-----------------------------------------------------------------------------
(***************************************************************************)
(* The requests.                                                           *)
(***************************************************************************)

Move(r, new) == req' = [req EXCEPT ![r] = new]
Finish(r) == req' = [req EXCEPT ![r] = Idle]

Begin(r, new) ==
    /\ req[r].pc = "idle"
    /\ setup # "none"
    /\ budget.calls > 0
    /\ budget' = [budget EXCEPT !.calls = @ - 1]
    /\ Move(r, new)

Stored(r) == {i \in issues : i.id = req[r].id}

\* Project.findById.
StartCreate(r) ==
    /\ Begin(r, [Idle EXCEPT !.pc = "creating"])
    /\ UNCHANGED <<setup, counter, issues, comments, trail, born, lost>>

\* Mutant: the next number is derived from the issues there are.
NextSequenceByCount(r) ==
    /\ req[r].pc = "creating"
    /\ counter' = counter + 1
    /\ Move(r, [req[r] EXCEPT !.pc = "numbered", !.number = Cardinality(issues) + 1])
    /\ UNCHANGED <<setup, issues, comments, trail, born, lost, budget>>

\* One findOneAndUpdate increments and reads; when there is no counter the
\* upsert makes one, and $inc leaves no room for the default of the schema.
NextSequence(r) ==
    /\ req[r].pc = "creating"
    /\ counter' = counter + 1
    /\ Move(r, [req[r] EXCEPT !.pc = "numbered", !.number = counter + 1])
    /\ UNCHANGED <<setup, issues, comments, trail, born, lost, budget>>

\* The indexes on issueKey and on the number of a project are unique.
InsertIssue(r) ==
    /\ req[r].pc = "numbered"
    /\ IF \E i \in issues : i.number = req[r].number
         THEN /\ Finish(r)
              /\ UNCHANGED <<issues, born>>
         ELSE /\ born < MaxIssues
              /\ born' = born + 1
              /\ \E status \in Statuses :
                    issues' = issues \cup {[id |-> born + 1, number |-> req[r].number,
                                            status |-> status, first |-> status]}
              /\ Move(r, [req[r] EXCEPT !.pc = "created", !.id = born + 1])
    /\ UNCHANGED <<setup, counter, comments, trail, lost, budget>>

\* The event 'issue.created'; its audit entry says nothing of the status.
AnnounceIssue(r) ==
    /\ req[r].pc = "created"
    /\ Finish(r)
    /\ UNCHANGED <<setup, counter, issues, comments, trail, born, lost, budget>>

FindIssue(r) ==
    /\ \E i \in issues, new \in Statuses :
          Begin(r, [Idle EXCEPT !.pc = "found", !.id = i.id, !.old = i.status, !.new = new])
    /\ UNCHANGED <<setup, counter, issues, comments, trail, born, lost>>

\* save() writes the paths that changed since the document was read, or none,
\* and throws when the document has gone.
SaveIssue(r) ==
    /\ req[r].pc = "found"
    /\ IF Stored(r) = {}
         THEN /\ Finish(r)
              /\ UNCHANGED issues
         ELSE /\ Move(r, [req[r] EXCEPT !.pc = "saved"])
              /\ issues' = (issues \ Stored(r)) \cup
                    {[i EXCEPT !.status = IF req[r].new = req[r].old THEN @ ELSE req[r].new]
                       : i \in Stored(r)}
    /\ UNCHANGED <<setup, counter, comments, trail, born, lost, budget>>

\* Mutant: the new status is compared with that of the document it is in.
AnnounceUpdateAssigned(r) ==
    /\ req[r].pc = "saved"
    /\ Finish(r)
    /\ trail' = IF \E i \in Stored(r) : i.status # req[r].new
                  THEN trail \cup {[id |-> req[r].id, old |-> req[r].old, new |-> req[r].new]}
                  ELSE trail
    /\ UNCHANGED <<setup, counter, issues, comments, born, lost, budget>>

\* The document is read again and the events are emitted at once.  When it has
\* gone the listener of the audit log throws, and nothing is written.
AnnounceUpdate(r) ==
    /\ req[r].pc = "saved"
    /\ Finish(r)
    /\ trail' = IF Stored(r) # {} /\ req[r].new # req[r].old
                  THEN trail \cup {[id |-> req[r].id, old |-> req[r].old, new |-> req[r].new]}
                  ELSE trail
    /\ UNCHANGED <<setup, counter, issues, comments, born, lost, budget>>

FindForDelete(r) ==
    /\ \E i \in issues : Begin(r, [Idle EXCEPT !.pc = "deleting", !.id = i.id])
    /\ UNCHANGED <<setup, counter, issues, comments, trail, born, lost>>

\* Comments and links stay; no listener follows the event 'issue.deleted'.
DeleteIssue(r) ==
    /\ req[r].pc = "deleting"
    /\ issues' = issues \ Stored(r)
    /\ Finish(r)
    /\ UNCHANGED <<setup, counter, comments, trail, born, lost, budget>>

FindForComment(r) ==
    /\ \E i \in issues : Begin(r, [Idle EXCEPT !.pc = "commenting", !.id = i.id])
    /\ UNCHANGED <<setup, counter, issues, comments, trail, born, lost>>

CreateComment(r) ==
    /\ req[r].pc = "commenting"
    /\ comments' = comments \cup {req[r].id}
    /\ Move(r, [req[r] EXCEPT !.pc = "commented"])
    /\ UNCHANGED <<setup, counter, issues, trail, born, lost, budget>>

AnnounceComment(r) ==
    /\ req[r].pc = "commented"
    /\ Finish(r)
    /\ UNCHANGED <<setup, counter, issues, comments, trail, born, lost, budget>>

\* The process dies, a call to the database fails, or the entry of the log is
\* lost: what the request has written stays, the rest is not done.
RequestDies(r) ==
    /\ req[r].pc # "idle"
    /\ budget.faults > 0
    /\ budget' = [budget EXCEPT !.faults = @ - 1]
    /\ Finish(r)
    /\ lost' = IF req[r].pc = "saved" THEN lost \cup {req[r].id} ELSE lost
    /\ UNCHANGED <<setup, counter, issues, comments, trail, born>>

RequestStep(r) ==
    \/ StartCreate(r) \/ NextSequence(r) \/ InsertIssue(r) \/ AnnounceIssue(r)
    \/ FindIssue(r) \/ SaveIssue(r) \/ AnnounceUpdate(r)
    \/ FindForDelete(r) \/ DeleteIssue(r)
    \/ FindForComment(r) \/ CreateComment(r) \/ AnnounceComment(r)
    \/ RequestDies(r)

TrackingNext == SetUp \/ \E r \in Requests : RequestStep(r)

-----------------------------------------------------------------------------
(***************************************************************************)
(* Properties.                                                             *)
(***************************************************************************)

\* Whoever reads the audit log finds out how an issue came to its status: it
\* is the one it was created with, or an entry names it as the new one, or the
\* request that set it is about to write that entry; updateIssue compares and
\* saves in separate steps, and requests overlap.  Only a request that failed
\* after its save leaves a status nobody can explain.
TrailHasStatus ==
    \A i \in issues :
        \/ i.status = i.first
        \/ i.id \in lost
        \/ \E e \in trail : e.id = i.id /\ e.new = i.status
        \/ \E r \in Requests : /\ req[r].pc = "saved" /\ req[r].id = i.id
                               /\ req[r].new = i.status /\ req[r].old # i.status

=============================================================================
