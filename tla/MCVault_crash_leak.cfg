SPECIFICATION FairSpec
CONSTANTS
    Gateways = {g1}
    Paths = {p1}
    Ops = {o1}
    Blobs = {b1}
    None = None
    g1 = g1
    p1 = p1
    o1 = o1
    b1 = b1
    b2 = b2
    UntimedObjects = {}
    UntimedKeys = {}
    LeasesHold = TRUE
    StorageFails = FALSE
    Crashes = TRUE
    MediumThreshold = 1
    LargeThreshold = 1
    SmallVersions = 2
    MediumVersions = 2
    LargeVersions = 1
PROPERTY GarbageCollectedAfterCrash
