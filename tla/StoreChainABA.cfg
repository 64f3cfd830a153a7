SPECIFICATION Spec
CONSTANTS
    Requests = {r1, r2, r3}
    Resets = {}
    Groups = {g1}
    NoGroup = NoGroup
    MaxPriorGroups = 2
    IsMirror = FALSE
    Failures = {"insert"}
SYMMETRY Symmetry
INVARIANTS
    ChainLinks
\* Every request ends: then there is nothing left to do.
CHECK_DEADLOCK FALSE
