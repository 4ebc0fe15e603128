CONSTANTS
  home = home  guest = guest  ui = ui  console = console
  Nets <- MCOneNet
  NoNet = NoNet
  BuildNet = NoNet
  Callers <- MCOneCaller
  Free = Free
  MaxRetries = 1
  MaxEvents = 1
  ReconnectTimer = TRUE
  Watchdog = TRUE
  Prompt = FALSE
  SilentStates <- MCSilent
SPECIFICATION FairSpec
INVARIANTS OkMeansSaved
PROPERTIES LinkRecovers OperationsReturn
