SPECIFICATION DeliverySpec
CONSTANTS
    Hub = hub
    Mirrors = {m1, m2}
    Founding = {m1}
    Commits = {c1, c2}
    Messages = {}
    Groups = {g1, g2}
    NoGroup = NoGroup
    MayReset = {}
    Failures = {}
    None = None
    Requests = {r1, r2}
    IdemKeys = {k}
    Consumers = {w1, w2}
    Joiners = {j1}
    Poison = {r2}
    MaxFaults = 1
INVARIANTS
    RefusedIsNotHistory
    AcceptedIsApplied
    NoPostLost
    OnePostPerKey
    DuplicatesOnlyAfterDeath
PROPERTIES
    EveryPostEnds
\* Every post is answered and nobody has to post again.
CHECK_DEADLOCK FALSE
