CONSTANTS
  console = console  httpd = httpd  None = None
  Callers <- MCCallers
  Console = console
  Depth = 2
  Slow = TRUE
  MaxId = 2
  MaxTests = 1
SPECIFICATION FairSpec
INVARIANTS ArgumentAlive OneUiOperation 
PROPERTIES RanOnce NewerKeySurvives  
