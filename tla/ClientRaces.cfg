SPECIFICATION Spec
CONSTANTS
    Devices = {d1, d2, d3}
    First = {d1, d2}
    Awake = {d1, d3}
    Terminable = {d2}
    Commits = {c1, c2, c3}
    Groups = {g1, g2}
    NoGroup = NoGroup
    Attempts = 2
    Failures = {}
    Impatient = {d3}
    Publishers = {d1}
INVARIANTS
    UnreadableIsNoticed
SYMMETRY Symmetry
CHECK_DEADLOCK FALSE
