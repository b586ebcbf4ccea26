SPECIFICATION Spec
CONSTANTS
    Gateways = {g1}
    Paths = {p1, p2}
    Ops = {o1, o2}
    Blobs = {b1}
    None = None
    g1 = g1
    p1 = p1
    p2 = p2
    o1 = o1
    o2 = o2
    b1 = b1
    b2 = b2
    UntimedObjects = {}
    UntimedKeys = {}
    LeasesHold = TRUE
    StorageFails = TRUE
    Crashes = TRUE
    MediumThreshold = 1
    LargeThreshold = 1
    SmallVersions = 2
    MediumVersions = 2
    LargeVersions = 1
SYMMETRY Symmetry
INVARIANT TypeOK
INVARIANT RetainedIntact
INVARIANT TombstonesMatch
INVARIANT HistoryBelowCurrent
PROPERTY LiveHistoryKept
