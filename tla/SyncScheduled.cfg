CONSTANTS
  s1 = s1
  s2 = s2
  s3 = s3
  w1 = w1
  w2 = w2
  h1 = h1
  Cron = Cron
  Nothing = Nothing
  Client <- MCClient
  Sync = {s1, s2, s3}
  Worker = {w1, w2}
  Web = {}
  MaxSyncs = 2
  MaxRetries = 2
  MaxJobs = 2
  MaxDeaths = 1
SPECIFICATION ScheduledSpec
INVARIANTS OneRunAtATime ToldIsLast
SYMMETRY Symmetric
CHECK_DEADLOCK FALSE
