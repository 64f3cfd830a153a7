SPECIFICATION Spec
CONSTANTS
    Requests = {r1, r2, r3}
    Resets = {q1, q2}
    Groups = {g1, g2}
    NoGroup = NoGroup
    MaxPriorGroups = 2
    IsMirror = FALSE
    Failures = {}
INVARIANTS
    ChainLinks
    NoGhostWelcome
PROPERTIES
    ImplementsGroupLog
\* Every request ends: then there is nothing left to do.
CHECK_DEADLOCK FALSE
