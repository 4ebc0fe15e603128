CONSTANTS
  home = home  office = office  r1 = r1  r2 = r2
  Networks <- MCNetworks
  NoNet = NoNet
  MaxOps = 2
  MaxResets = 1
  Routers <- MCNoRouters
  MaxScans = 0
  MaxAnswers = 0
  Renamers = {}
  Depth = 0
  MaxEvents = 0
  MaxName = 0
CHECK_DEADLOCK FALSE
SPECIFICATION BothSpec
PROPERTY NeverStranded
