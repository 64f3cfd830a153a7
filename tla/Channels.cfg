SPECIFICATION Spec
CONSTANTS
    None = None
    Users = {o, u}
    Owner = o
    Keys = {k}
    Messages = {m}
    Comments = {c}
    Procs = {p1, p2}
    GivenRoles = {"admin"}
    Backends = {"mongo", "memory"}
    MaxRequests = 4
    MaxFaults = 1
INVARIANTS
    NobodyHearsUnadmitted
    OutsidersHearNothing
    NothingOldSurvivesDelete
SYMMETRY Symmetry
\* Requests are bounded, and the last one ends.
CHECK_DEADLOCK FALSE
