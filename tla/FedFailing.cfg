SPECIFICATION FairSpec
CONSTANTS
    Hub = hub
    Mirrors = {m1}
    Founding = {}
    Commits = {c1, c2}
    Messages = {x1}
    Groups = {g1, g2}
    NoGroup = NoGroup
    MayReset = {hub, m1}
    Failures = {"loss"}
INVARIANTS
    MirrorFollowsHub
PROPERTIES
    EveryPostAnswered
\* Every post is answered and nobody has to post again.
CHECK_DEADLOCK FALSE
