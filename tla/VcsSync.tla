------------------------------- MODULE VcsSync -------------------------------
(***************************************************************************)
(* The repository connected to the project of IssueTracking: connecting,   *)
(* disconnecting and synchronising it (vcs.service.js).  A sync copies the *)
(* commits and pull requests of GitHub one by one and links each to the    *)
(* issues of the project whose keys it mentions; the links are what the    *)
(* page of an issue shows as its activity.                                 *)
(***************************************************************************)
EXTENDS IssueTracking

CONSTANTS
    Commits,        \* shas there may be on GitHub
    PullRequests,   \* numbers of pull requests there may be
    Syncs,          \* sync requests that may run at a time
    MaxRepos        \* bound: how often the repository is connected

ASSUME SyncAssumption == Commits \cap PullRequests = {} /\ MaxRepos \in Nat

Items == Commits \cup PullRequests

VARIABLES
    github,     \* what is on GitHub: the number an item mentions, the issue it is about
    repos,      \* Repository documents there have been; the last may be connected
    repo,       \* the connected document: its statuses
    rows,       \* Commit and PullRequest documents
    sync,       \* the sync requests
    drop,       \* the disconnect request
    overlapped, \* history: repositories disconnected while they were synchronised, or in part
    synced,     \* history: what the last successful sync fetched
    cut         \* history: whether a sync ended without a word to its repository

syncVars == <<github, repos, repo, rows, sync, drop, overlapped, synced, cut>>
workVars == <<trackVars, syncVars>>

NotOnGitHub == [number |-> 0, about |-> 0]
RepoIds == 1..MaxRepos
Row == [repo : RepoIds, item : Items, links : SUBSET Numbers]
NoRepo == [connection |-> "none", last |-> "none"]
NewRepo == [connection |-> "connected", last |-> "none"]
\* item: the one whose keys were looked up last, if it is not written yet.
NoSync == [pc |-> "idle", repo |-> 0, todo |-> {}, got |-> {}, item |-> {}, keys |-> {}]
SyncPc == {"idle", "begun", "fetching", "commits", "committed", "pulls", "failing"}
DropPc == {"idle", "found", "commits", "pulls"}

SyncTypeOK ==
    /\ github \in [Items -> [number : Numbers \cup {0}, about : IssueIds \cup {0}]]
    /\ repos \in 0..MaxRepos
    /\ repo \in [connection : {"none", "connected", "syncing", "failed"},
                 last : {"none", "success", "failed"}]
    /\ repo.connection # "none" => repos \in RepoIds
    /\ rows \subseteq Row
    /\ \A p, q \in rows : p.repo = q.repo /\ p.item = q.item => p = q
    /\ sync \in [Syncs -> [pc : SyncPc, repo : RepoIds \cup {0},
                           todo : SUBSET Items, got : SUBSET Items,
                           item : SUBSET Items, keys : SUBSET Numbers]]
    /\ drop \in [pc : DropPc, repo : RepoIds \cup {0}]
    /\ overlapped \subseteq RepoIds
    /\ synced \subseteq Items
    /\ cut \in BOOLEAN

SyncInit ==
    /\ repos = 0
    /\ repo = NoRepo
    /\ rows = {}
    /\ sync = [s \in Syncs |-> NoSync]
    /\ drop = [pc |-> "idle", repo |-> 0]
    /\ overlapped = {}
    /\ synced = {}
    /\ cut = FALSE

OnGitHub == {x \in Items : github[x].number # 0}
Connected == repo.connection # "none"
Is(id) == Connected /\ repos = id

-----------------------------------------------------------------------------
(***************************************************************************)
(* GitHub, and the repository document.                                    *)
(***************************************************************************)

\* Somebody pushes a commit or opens a pull request that mentions an issue.
Push(x) ==
    /\ github[x] = NotOnGitHub
    /\ \E i \in issues : github' = [github EXCEPT ![x] = [number |-> i.number, about |-> i.id]]
    /\ UNCHANGED <<trackVars, repos, repo, rows, sync, drop, overlapped, synced, cut>>

\* findOne and create: of two requests the unique index lets one through.
ConnectRepository ==
    /\ setup # "none"
    /\ ~Connected /\ repos < MaxRepos
    /\ repos' = repos + 1
    /\ repo' = NewRepo
    /\ UNCHANGED <<trackVars, github, rows, sync, drop, overlapped, synced, cut>>

BeginDisconnect ==
    /\ drop.pc = "idle" /\ Connected
    /\ drop' = [pc |-> "found", repo |-> repos]
    /\ UNCHANGED <<trackVars, github, repos, repo, rows, sync, overlapped, synced, cut>>

RowsOf(id, items) == {w \in rows : w.repo = id /\ w.item \in items}
Running(id) == \E s \in Syncs : sync[s].pc # "idle" /\ sync[s].repo = id

DeleteCommits ==
    /\ drop.pc = "found"
    /\ rows' = rows \ RowsOf(drop.repo, Commits)
    /\ drop' = [drop EXCEPT !.pc = "commits"]
    /\ overlapped' = IF Running(drop.repo) THEN overlapped \cup {drop.repo} ELSE overlapped
    /\ UNCHANGED <<trackVars, github, repos, repo, sync, synced, cut>>

\* Mutant: the pull requests are left behind.
KeepPullRequests ==
    /\ drop.pc = "commits"
    /\ drop' = [drop EXCEPT !.pc = "pulls"]
    /\ UNCHANGED <<trackVars, github, repos, repo, rows, sync, overlapped, synced, cut>>

DeletePullRequests ==
    /\ drop.pc = "commits"
    /\ rows' = rows \ RowsOf(drop.repo, PullRequests)
    /\ drop' = [drop EXCEPT !.pc = "pulls"]
    /\ UNCHANGED <<trackVars, github, repos, repo, sync, overlapped, synced, cut>>

DeleteRepository ==
    /\ drop.pc = "pulls"
    /\ repo' = IF Is(drop.repo) THEN NoRepo ELSE repo
    /\ drop' = [pc |-> "idle", repo |-> 0]
    /\ UNCHANGED <<trackVars, github, repos, rows, sync, overlapped, synced, cut>>

\* The process dies or a delete fails: what is deleted stays deleted.
DisconnectDies ==
    /\ drop.pc \in {"commits", "pulls"}
    /\ budget.faults > 0
    /\ budget' = [budget EXCEPT !.faults = @ - 1]
    /\ drop' = [pc |-> "idle", repo |-> 0]
    /\ overlapped' = overlapped \cup {drop.repo}
    /\ UNCHANGED <<setup, counter, issues, comments, req, trail, born, lost,
                   github, repos, repo, rows, sync, synced, cut>>

Disconnect ==
    \/ BeginDisconnect \/ DeleteCommits \/ DeletePullRequests
    \/ DeleteRepository \/ DisconnectDies

-----------------------------------------------------------------------------
(***************************************************************************)
(* syncRepository.                                                         *)
(***************************************************************************)

Go(s, new) == sync' = [sync EXCEPT ![s] = new]

\* findByIdAndUpdate of a repository that has gone changes nothing.
Status(id, new) == repo' = IF Is(id) THEN new ELSE repo

\* _getDecryptedToken and the project; a call that throws here only ends.
BeginSync(s) ==
    /\ sync[s].pc = "idle" /\ Connected
    /\ Go(s, [NoSync EXCEPT !.pc = "begun", !.repo = repos])
    /\ overlapped' = IF drop.pc # "idle" THEN overlapped \cup {repos} ELSE overlapped
    /\ UNCHANGED <<trackVars, github, repos, repo, rows, drop, synced, cut>>

MarkSyncing(s) ==
    /\ sync[s].pc = "begun"
    /\ Status(sync[s].repo, [repo EXCEPT !.connection = "syncing"])
    /\ Go(s, [sync[s] EXCEPT !.pc = "fetching"])
    /\ UNCHANGED <<trackVars, github, repos, rows, drop, overlapped, synced, cut>>

FetchCommits(s) ==
    /\ sync[s].pc = "fetching"
    /\ LET found == OnGitHub \cap Commits
       IN Go(s, [sync[s] EXCEPT !.pc = "commits", !.todo = found, !.got = found])
    /\ UNCHANGED <<trackVars, github, repos, repo, rows, drop, overlapped, synced, cut>>

ValidKeys(x) == {i.number : i \in {j \in issues : j.number = github[x].number}}

\* _validateIssueKeys: keys of the project that belong to an issue there is.
ValidateKeys(s) ==
    /\ sync[s].pc \in {"commits", "pulls"} /\ sync[s].item = {}
    /\ \E x \in sync[s].todo :
          Go(s, [sync[s] EXCEPT !.item = {x}, !.keys = ValidKeys(x)])
    /\ UNCHANGED <<trackVars, github, repos, repo, rows, drop, overlapped, synced, cut>>

Upsert(s, x) ==
    LET id == sync[s].repo
    IN rows' = (rows \ RowsOf(id, {x})) \cup {[repo |-> id, item |-> x, links |-> sync[s].keys]}

\* findOneAndUpdate with upsert, by repository and sha or number.
UpsertItem(s) ==
    /\ sync[s].pc \in {"commits", "pulls"}
    /\ \E x \in sync[s].item :
          /\ Upsert(s, x)
          /\ Go(s, [sync[s] EXCEPT !.todo = @ \ {x}, !.item = {}, !.keys = {}])
    /\ UNCHANGED <<trackVars, github, repos, repo, drop, overlapped, synced, cut>>

FetchPullRequests(s) ==
    /\ sync[s].pc = "commits" /\ sync[s].todo = {}
    /\ LET found == OnGitHub \cap PullRequests
       IN Go(s, [sync[s] EXCEPT !.pc = "pulls", !.todo = found, !.got = @ \cup found])
    /\ UNCHANGED <<trackVars, github, repos, repo, rows, drop, overlapped, synced, cut>>

\* Mutant: success is written when the pull requests have been fetched.
FinishSyncEarly(s) ==
    /\ sync[s].pc = "pulls"
    /\ Status(sync[s].repo, [connection |-> "connected", last |-> "success"])
    /\ sync' = [sync EXCEPT ![s] = NoSync]
    /\ synced' = IF Is(sync[s].repo) THEN sync[s].got ELSE synced
    /\ UNCHANGED <<trackVars, github, repos, rows, drop, overlapped, cut>>

FinishSync(s) ==
    /\ sync[s].pc = "pulls" /\ sync[s].todo = {}
    /\ Status(sync[s].repo, [connection |-> "connected", last |-> "success"])
    /\ sync' = [sync EXCEPT ![s] = NoSync]
    /\ synced' = IF Is(sync[s].repo) THEN sync[s].got ELSE synced
    /\ UNCHANGED <<trackVars, github, repos, rows, drop, overlapped, cut>>

\* A call to GitHub or the database throws.
SyncThrows(s) ==
    /\ sync[s].pc \notin {"idle", "begun", "failing"}
    /\ budget.faults > 0
    /\ budget' = [budget EXCEPT !.faults = @ - 1]
    /\ Go(s, [NoSync EXCEPT !.pc = "failing", !.repo = sync[s].repo])
    /\ UNCHANGED <<setup, counter, issues, comments, req, trail, born, lost,
                   github, repos, repo, rows, drop, overlapped, synced, cut>>

\* Mutant: the failure is passed on without a word to the repository.
ForgetSyncFailure(s) ==
    /\ sync[s].pc = "failing"
    /\ sync' = [sync EXCEPT ![s] = NoSync]
    /\ UNCHANGED <<trackVars, github, repos, repo, rows, drop, overlapped, synced, cut>>

\* _handleSyncFailure.
HandleSyncFailure(s) ==
    /\ sync[s].pc = "failing"
    /\ Status(sync[s].repo, [connection |-> "failed", last |-> "failed"])
    /\ sync' = [sync EXCEPT ![s] = NoSync]
    /\ UNCHANGED <<trackVars, github, repos, rows, drop, overlapped, synced, cut>>

\* The process dies, or the write of _handleSyncFailure fails as well: the
\* repository is left in whatever state it is.
SyncDies(s) ==
    /\ sync[s].pc # "idle"
    /\ budget.faults > 0
    /\ budget' = [budget EXCEPT !.faults = @ - 1]
    /\ sync' = [sync EXCEPT ![s] = NoSync]
    /\ cut' = TRUE
    /\ UNCHANGED <<setup, counter, issues, comments, req, trail, born, lost,
                   github, repos, repo, rows, drop, overlapped, synced>>

\* getBranches reads GitHub and reports a failure as a sync does.
BranchesFail ==
    /\ Connected
    /\ budget.faults > 0
    /\ budget' = [budget EXCEPT !.faults = @ - 1]
    /\ Status(repos, [connection |-> "failed", last |-> "failed"])
    /\ UNCHANGED <<setup, counter, issues, comments, req, trail, born, lost,
                   github, repos, rows, sync, drop, overlapped, synced, cut>>

SyncStep(s) ==
    \/ BeginSync(s) \/ MarkSyncing(s) \/ FetchCommits(s) \/ ValidateKeys(s) \/ UpsertItem(s)
    \/ FetchPullRequests(s) \/ FinishSync(s) \/ HandleSyncFailure(s)

VcsNext ==
    \/ \E x \in Items : Push(x)
    \/ ConnectRepository \/ Disconnect \/ BranchesFail
    \/ \E s \in Syncs : SyncStep(s) \/ SyncThrows(s) \/ SyncDies(s)

\* The event loop goes on with a sync it has begun.
SyncFairness ==
    \A s \in Syncs : WF_workVars(sync[s].pc # "idle" /\ SyncStep(s))

-----------------------------------------------------------------------------
(***************************************************************************)
(* Properties.                                                             *)
(***************************************************************************)

\* The activity of an issue never shows work that was done for another one:
\* commits keep their links when an issue is deleted, and getIssueActivity
\* finds them by key alone, so this rests on numbers that are never used again.
NoBorrowedHistory ==
    \A w \in rows : \A i \in issues :
        i.number \in w.links => github[w.item].about = i.id

\* A repository whose last sync is shown as a success holds every item that
\* sync fetched, whatever other syncs, failed or not, ran beside it; only a
\* disconnect in between may have taken them away.
SuccessIsComplete ==
    Connected /\ repo.last = "success" /\ drop.pc = "idle" /\ repos \notin overlapped
        => \A x \in synced : \E w \in rows : w.repo = repos /\ w.item = x

\* An item is shown once, by the repository that is connected: what an earlier
\* connection synchronised is gone with it, unless its disconnect failed on the
\* way or a sync was still writing.
ShownOnce ==
    \A v, w \in rows :
        v.item = w.item => v = w \/ {v.repo, w.repo} \cap overlapped # {}

\* A repository does not stay 'syncing': every sync ends in a status, unless the
\* process dies under it or not even its failure can be written.
SyncEnds ==
    (repo.connection = "syncing") ~> (repo.connection # "syncing" \/ cut)
=============================================================================
