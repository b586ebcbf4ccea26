SPECIFICATION DavSpec
CONSTANTS
    a = a
    b = b
    t1 = t1
    t2 = t2
    Names = {a, b}
    UnderscoreNames = {}
    Paths <- RootPaths
    MaxUploads = 1
    VersionsKept = 2
    Threads = {t1, t2}
    Requests <- SomeRequests
    None = None
    Orphan = Orphan
    ChangeLimit = 2
    RatioMinimum = 1
    RatioOf = 1
    RatioIn = 2
    ValkeyMayFail = TRUE
SYMMETRY Symmetry
INVARIANT DavTypeOK
INVARIANT LeasesProtect
INVARIANT SafeModeEntered
PROPERTY SafeModeKeeps
PROPERTY GoesOnRequest
