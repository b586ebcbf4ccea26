SPECIFICATION Spec
CONSTANTS
    Gateways = {g1, g2}
    Paths = {p1, p2}
    Ops = {o1, o2}
    Blobs = {b1}
    None = None
    g1 = g1
    g2 = g2
    p1 = p1
    p2 = p2
    o1 = o1
    o2 = o2
    b1 = b1
    b2 = b2
    UntimedObjects = {}
    UntimedKeys = {}
    LeasesHold = TRUE
    StorageFails = FALSE
    Crashes = FALSE
    MediumThreshold = 1
    LargeThreshold = 1
    SmallVersions = 2
    MediumVersions = 2
    LargeVersions = 2
SYMMETRY Symmetry
INVARIANT FreshBlobsSurvive
PROPERTY TombstonesKept
PROPERTY CurrentNeverLost
PROPERTY ImplementsDrive
