CONSTANTS
  home = home  guest = guest  ui = ui  console = console
  Nets <- MCNets
  NoNet = NoNet
  BuildNet = home
  Callers <- MCCallers
  Free = Free
  MaxRetries = 2
  MaxEvents = 3
  ReconnectTimer = TRUE
  Watchdog = TRUE
  Prompt = TRUE
  SilentStates <- MCSilent
SPECIFICATION Spec
 
SYMMETRY Symmetry
PROPERTIES  StoreSpec
