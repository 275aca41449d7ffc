\* Users: two users and two groups, two runs, changes and failures at any time.
\* News: two crawls that may overlap, one site of two articles, a failure.
SPECIFICATION ScriptsSpec
CONSTANTS
    None = None
    Users = {u1, u2}
    Groups = {g1, g2}
    Roles = {r1}
    Page = 2
    MaxRuns = 2
    MaxChanges = 3
    MaxFaults = 2
    Absent = Absent
    MaxLosses = 1
    Sites <- OneSite
    Crawls = {1, 2}
    SeenMax = 1
    AllMax = 2
    SiteMax = 1
    Titles = {1, 2}
    LastHour = 2
SYMMETRY Symmetry
INVARIANTS
    ShownUsersAreUsers
    NothingInvented
    CleanRunCopies
    ListedOnce
    StoresAgree
    ListsKeepNewest
CHECK_DEADLOCK FALSE
