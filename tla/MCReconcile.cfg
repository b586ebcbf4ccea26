SPECIFICATION ReconcileFairSpec
CONSTANTS
    a = a
    g1 = g1
    Names = {a}
    UnderscoreNames = {}
    Paths <- RootPaths
    MaxUploads = 2
    VersionsKept = 2
    Gateways = {g1}
    ReconcileInterval = 1
    MissingObservations = 2
    MissingGrace = 1
INVARIANT ReconcileTypeOK
PROPERTY IntactStays
PROPERTY ListingDropsNothing
PROPERTY LostNotServed
