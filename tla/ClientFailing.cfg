SPECIFICATION Spec
CONSTANTS
    Devices = {d1, d2, d3}
    First = {d1, d2}
    Awake = {d1, d3}
    Terminable = {}
    Commits = {c1, c2, c3, c4}
    Groups = {g1}
    NoGroup = NoGroup
    Attempts = 2
    Failures = {"loss", "reload"}
    Impatient = {}
    Publishers = {d1, d3}
INVARIANTS
    LogApplies
    NoFork
PROPERTY
    KeysKept
SYMMETRY Symmetry
CHECK_DEADLOCK FALSE
