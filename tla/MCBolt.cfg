CONSTANTS
  a = a
  b = b
  c = c
  NoProc = NoProc
  Proc <- MCProc
  Notifier <- MCNotifier
  Attempts <- MCAttempts
  MaxOverruns = 2
SPECIFICATION BoltFairSpec
INVARIANTS BoltTypeOK OrphansBounded ClaimsBounded
PROPERTIES KeepsPromise KeyFreed
