SPECIFICATION FairSpec
CONSTANTS
    Hub = hub
    Mirrors = {m1}
    Founding = {m1}
    Commits = {c1, c2}
    Messages = {}
    Groups = {g1}
    NoGroup = NoGroup
    MayReset = {}
    Failures = {}
PROPERTIES
    MirrorsConverge

\* Every post is answered and nobody has to post again.
CHECK_DEADLOCK FALSE
