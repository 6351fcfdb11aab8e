CONSTANTS
  s1 = s1
  s2 = s2
  s3 = s3
  w1 = w1
  w2 = w2
  h1 = h1
  Cron = Cron
  Nothing = Nothing
  Client <- MCClient
  Sync = {s1}
  Worker = {w1}
  Web = {h1}
  MaxSyncs = 1
  MaxRetries = 1
  MaxJobs = 1
  MaxDeaths = 1
SPECIFICATION SyncFairSpec
INVARIANTS SyncTypeOK SlotsBounded BusyIsHandled
PROPERTIES SyncingEnds
CHECK_DEADLOCK FALSE
