CONSTANTS
    Requests = {q1, q2}
    Statuses = {"open", "done"}
    InitialCounter = 2
    MaxIssues = 2
    MaxCalls = 3
    MaxFaults = 1
    Commits = {c1}
    PullRequests = {p1}
    Syncs = {s1, s2}
    MaxRepos = 2
    MaxChanges = 2
    MaxHarms = 1
    MaxVisits = 1
    Ids = {i1, i2}
    Names = {n1}
    Callers = {r1, r2}
    Observers = {j1, j2}
    MaxSecrets = 2
    BadTokens = {1}
SPECIFICATION Spec
INVARIANTS TrailHasStatus NoBorrowedHistory SuccessIsComplete ShownOnce NoSecretReturns SecretIsKnown
PROPERTIES SyncEnds ViewCatchesUp ErrorIsCurrent
CHECK_DEADLOCK FALSE
