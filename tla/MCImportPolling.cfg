CONSTANTS
    Items = {i1, i2}
    Imports = {n1}
    NoImport = NoImport
    Quota = 1
    MaxLists = 2
    MaxStarts = 1
SPECIFICATION FairSpec
INVARIANTS
    TypeOK
    OneGet
    EndIsTrue
    OneAddedByList
    OwnWithinQuota
PROPERTIES
    EndStays
    EndShown
