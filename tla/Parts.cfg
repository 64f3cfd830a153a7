SPECIFICATION Spec
CONSTANTS
    Devices = {d1}
    Tabs = {t1, t2}
    Claimers = {c1, c2}
    MaxBatch = 1
    Bodies = {b1, b2}
    NoBackup = NoBackup
    KeptVersions = 1
    MaxClock = 1
    MaxUploads = 3
    MaxReinstalls = 1
    CallHosts = {h1, h2}
    CallDevices = {d1, d2, d3}
    Signals = {s1, s2}
    NoDevice = NoDevice
    Rings = {s1}
    RingSlots = 1
    MaxLapses = 2
    Jobs = {j1, j2, j3, j4}
    PushWorkers = {w1, w2}
    NoJob = NoJob
    Depth = 2
    MaxBytes = 4
    Accounts = {u1, u2}
    Handsets = {a}
    Registrations = {r1, r2}
    Unknown = Unknown
    Streams = {s1, s2}
    Events = {e1, e2, e3}
    NoEvent = NoEvent
    Buffer = 2
    MaxOpens = 2
    Posts = {p1, p2, p3}
    NoCursor = NoCursor
    Limit = 2
    MaxMillis = 2
    HostIds = {h1, h2}
    Requests = {r1}
    NoKey = NoKey
    Drifts = {0, 1}
    MaxSkew = 1
    MaxNow = 3
    Users = {u1, u2}
    Chans = {c1}
    Names = {"ann", "Ann"}
    Edits = {e1, e2}
    Uploads = {a1, a2, a3}
    Blank = Blank
    Keep = Keep
    NoBlob = NoBlob
    Recipients = {v1, v2}
    Phones = {n1, n2, n3, n4}
    Renderers = {n1, n2}
    NameSizes = {0, 1, 3}
    CiphertextSizes = {0, 6, 8, 9}
    MaxPayload = 9
    MaxPreviewCiphertext = 8
    MaxEdits = 1
    HomeOf <- MCHomeOf
    Size <- MCSize
    KeyOf <- MCKeyOf
    Lists <- MCLists
    Lower <- MCLower
    Transport <- MCTransport
    OwnerOf <- MCOwnerOf
    kpStores = {"mongo", "memory"}
    Buses = {"redis", "memory"}
    n1 = n1
    n2 = n2
    n3 = n3
    n4 = n4
    v1 = v1
    v2 = v2
    d1 = d1
    d2 = d2
    d3 = d3
    h1 = h1
    h2 = h2
    j1 = j1
    j2 = j2
INVARIANTS
    ClaimsConsumeSinglesOnce
    TerminationIsSeen
    BackedUpIsKept
    OneDeviceAnswers
    SignalsReadInOrder
    BudgetIsExact
    RevokedGetsNoCiphertext
    NoSendOnClosed
    WalkMissesNothing
    HandledOnce
    ProfileIsItsOwn
    PushSaysNoMore
\* Every part may come to rest.
CHECK_DEADLOCK FALSE
