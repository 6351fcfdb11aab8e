CONSTANTS
    Items = {i1, i2}
    Imports = {n1, n2}
    NoImport = NoImport
    Quota = 1
    MaxLists = 2
    MaxStarts = 1
SPECIFICATION Spec
INVARIANT
    KeepsPolling
