SPECIFICATION Spec
CONSTANTS
    a = a
    b = b
    c = c
    x = x
    Names = {a, b, c, x}
    UnderscoreNames = {}
    Paths <- TwoTrees
    MaxUploads = 2
    VersionsKept = 2
INVARIANT TombstonesAreOfDeletedFiles
