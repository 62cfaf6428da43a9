------------------------------- MODULE Workspace -------------------------------
(***************************************************************************)
(* The parts of the API around one project: its issues and its repository, *)
(* which meet in the links between them; its integrations; and the page of *)
(* an issue, which is reached by events alone.  The last two share no      *)
(* variable with the others.                                               *)
(* To keep the instance small a behaviour moves one of these:              *)
(*   "issues"       the project and its requests, which overlap;           *)
(*   "links"        issues that are created and deleted one at a time, and *)
(*                  one sync of the repository at a time;                  *)
(*   "repository"   connections, disconnects and overlapping syncs beside  *)
(*                  an issue that stays and what was pushed for it;        *)
(*   "view"         the page;                                              *)
(*   "integrations" requests on integrations, and jobs that use them.      *)
(***************************************************************************)
EXTENDS VcsSync, LiveView, Integrations

\* Some request may come, and some sync.
ASSUME WorkspaceAssumption == Requests # {} /\ Syncs # {}

VARIABLE focus

workspaceVars == <<workVars, viewVars, integrationVars, focus>>

TypeOK ==
    /\ TrackingTypeOK
    /\ SyncTypeOK
    /\ ViewTypeOK
    /\ IntegrationsTypeOK

NothingPushed == github = [x \in Items |-> NotOnGitHub]
AllPushed == github = [x \in Items |-> [number |-> counter, about |-> born]]

\* A project that has been created in full, with or without an issue.
ProjectInit(withIssue) ==
    /\ setup = "done"
    /\ counter = IF withIssue THEN InitialCounter + 1 ELSE InitialCounter
    /\ issues = IF withIssue
                  THEN {[id |-> 1, number |-> counter, status |-> "open", first |-> "open"]}
                  ELSE {}
    /\ born = Cardinality(issues)
    /\ comments = {} /\ trail = {} /\ lost = {}
    /\ req = [r \in Requests |-> Idle]
    /\ budget = [calls |-> MaxCalls, faults |-> MaxFaults]

Init ==
    /\ SyncInit
    /\ ViewInit
    /\ IntegrationsInit
    /\ \/ focus = "issues" /\ TrackingInit /\ NothingPushed
       \/ focus = "links" /\ ProjectInit(FALSE) /\ NothingPushed
       \/ focus = "repository" /\ ProjectInit(TRUE) /\ AllPushed
       \/ focus \in {"view", "integrations"} /\ TrackingInit /\ NothingPushed
    /\ focus # "integrations" => kind = "security" /\ \A i \in Ids : ~IsStored(i)
    /\ focus # "view" => member = [is |-> TRUE, admin |-> FALSE]

OneRequest == CHOOSE r \in Requests : TRUE
OneSync == CHOOSE s \in Syncs : TRUE

\* What makes and unmakes the issues a link can name.
KeyStep(r) ==
    \/ StartCreate(r) \/ NextSequence(r) \/ InsertIssue(r) \/ AnnounceIssue(r)
    \/ FindForDelete(r) \/ DeleteIssue(r)

LinkNext ==
    \/ KeyStep(OneRequest) /\ UNCHANGED syncVars
    \/ \E x \in Items : Push(x)
    \/ ConnectRepository
    \/ SyncStep(OneSync) \/ SyncThrows(OneSync) \/ SyncDies(OneSync)

Next ==
    \/ focus = "issues" /\ TrackingNext /\ UNCHANGED <<syncVars, viewVars, integrationVars, focus>>
    \/ focus = "links" /\ LinkNext /\ UNCHANGED <<viewVars, integrationVars, focus>>
    \/ focus = "repository" /\ VcsNext /\ UNCHANGED <<viewVars, integrationVars, focus>>
    \/ focus = "view" /\ ViewNext /\ UNCHANGED <<workVars, integrationVars, focus>>
    \/ focus = "integrations" /\ IntegrationsNext /\ UNCHANGED <<workVars, viewVars, focus>>

Spec == Init /\ [][Next]_workspaceVars /\ SyncFairness /\ ViewFairness
        /\ IntegrationsFairness
=============================================================================
