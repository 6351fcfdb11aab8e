SPECIFICATION ImportFairSpec
CONSTANTS
  Import = {i1}
  Web = {h1, h2}
  Worker = {w1}
  Checker = {c1}
  Nothing = Nothing
  MaxImports = 1
  MaxRetries = 2
  MaxFaults = 1
INVARIANTS
  ImportTypeOK
  SlotsAccounted
  OverIsReturned
  PendingIsCarried
PROPERTIES
  SettledStays
  JobsEnd
