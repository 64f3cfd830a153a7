SPECIFICATION Spec
CONSTANTS
    Requests = {r1, r2, r3}
    Resets = {q1}
    Groups = {g1, g2}
    NoGroup = NoGroup
    MaxPriorGroups = 2
    IsMirror = TRUE
    Failures = {"read", "insert", "answer", "cancel"}
INVARIANTS
    OneCommitPerEpoch
    AcceptedNeverUndone
\* Every request ends: then there is nothing left to do.
CHECK_DEADLOCK FALSE
