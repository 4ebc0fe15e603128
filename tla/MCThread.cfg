CONSTANTS
  home = home  office = office  r1 = r1  r2 = r2
  Networks <- MCNetworks
  NoNet = NoNet
  MaxOps = 5
  MaxResets = 2
  Routers <- MCRouters
  MaxScans = 3
  MaxAnswers = 3
  Renamers <- MCRenamers
  Depth = 1
  MaxEvents = 2
  MaxName = 3
CHECK_DEADLOCK FALSE
SPECIFICATION BothSpec
INVARIANTS RunsWhatIsStored ReportIsTrue ScanIsAlive CountsAreOfThisScan CompleteIsComplete
INVARIANTS StartsExactlyOnce  RecordFollowsKey
SYMMETRY Symmetry
