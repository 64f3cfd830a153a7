SPECIFICATION AccountsSpec
CONSTANTS
    None = None
    Emails = {e1, e2}
    UserIDs = {u1, u2}
    Invites = {i1}
    Procs = {p1, p2}
    InviteOnly = TRUE
    MaxAttempts = 1
    MaxTime = 1
    MaxFaults = 1
    LostAnswers = FALSE
    Absent = None
    Handlers = {p1, p2}
    Sids = {u1, u2}
    TTL = 1
    MaxSeconds = 3
    MaxTokens = 2
    MaxRestarts = 1
    MaxWrongCodes = 1
    MaxChanges = 2
    ConfiguredAdmin = TRUE
SYMMETRY Symmetry
INVARIANTS
    InvitesBalance
    AttemptsAreBounded
    StoresAgree
    EndedSessionsStayEnded
\* Once every address has its account, or the account is deleted, there may be nothing
\* left to do.
CHECK_DEADLOCK FALSE
