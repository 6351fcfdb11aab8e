SPECIFICATION Spec
CONSTANTS
  v = v
  w = w
  i = i
  s = s
  c = c
  A = A
  B = B
  X = X
  Visitor = {v}
  Worker = {}
  Importer = {}
  Syncer = {}
  Creator = {c}
  Name = {A, B}
  TempName <- MCTempName
  NoName = NoName
  NoProc = NoProc
  Linked <- MCLinked
  Proc <- MCProc
  Notifier <- MCNotifier
  Attempts <- MCAttempts
  MaxOverruns = 0
  MaxUserTables = 1
  MaxTables = 2
  MaxUpsets = 0
  MaxRegistrars = 1
PROPERTY
    UnlinksOnlyGone
