SPECIFICATION Spec
CONSTANTS
  v = v
  w = w
  i = i
  s = s
  c = c
  A = A
  B = B
  X = X
  Visitor = {v}
  Worker = {w}
  Importer = {i}
  Syncer = {s}
  Creator = {c}
  Name = {A, B}
  TempName <- MCTempName
  NoName = NoName
  NoProc = NoProc
  Linked <- MCLinked
  Proc <- MCProc
  Notifier <- MCNotifier
  Attempts <- MCAttempts
  MaxOverruns = 1
  MaxUserTables = 1
  MaxTables = 2
  MaxUpsets = 1
  MaxRegistrars = 1
INVARIANT
    GhostTypeOK
    Apart
PROPERTY
    UnlinksGone
    Converges
