SPECIFICATION Spec
CONSTANTS
    a = a
    b = b
    c = c
    x = x
    Names = {a, b, c, x}
    UnderscoreNames = {b}
    Paths <- Trees
    MaxUploads = 2
    VersionsKept = 2
INVARIANT TypeOK
INVARIANT HistoryAccounted
INVARIANT EachVersionOnce
PROPERTY TreeKept
PROPERTY LiveKept
