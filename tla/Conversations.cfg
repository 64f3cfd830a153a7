SPECIFICATION Spec
CONSTANTS
    None = None
    h1 = h1
    h2 = h2
    ann = ann
    bob = bob
    rea = rea
    Hosts = {h1, h2}
    Users = {ann, bob, rea}
    Home <- HomeOf
    Reports <- ReportsMade
    Founder = ann
    Chat = {ann, rea}
    Convs = {1, 2}
    Procs = {p1, p2}
    Backends = {"mongo", "memory"}
    MaxRequests = 3
    MaxFaults = 1
INVARIANTS
    OneChatPerPair
    AnsweredIsMember
    TicksAreTrue
    NothingOldSurvivesDelete
SYMMETRY Symmetry
\* Requests are bounded, and the last one ends.
CHECK_DEADLOCK FALSE
