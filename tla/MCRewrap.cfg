SPECIFICATION RewrapFairSpec
CONSTANTS
    Objects = {o1, o2}
    Clients = {cli, other}
    Cli = cli
    NoObject = NoObject
    MaxConcurrent = 1
    MaxRequests = 2
    Window = 2
    MaxWait = 1
INVARIANT RewrapTypeOK
INVARIANT RateHolds
INVARIANT SlotsConserved
INVARIANT OneKeyOpensAll
INVARIANT OldKeyRetired
PROPERTY CopyKept
PROPERTY RewrapResumes
