CONSTANTS
  console = console  httpd = httpd  None = None
  Callers <- MCConsoleOnly
  Console = console
  Depth = 2
  Slow = FALSE
  MaxId = 5
  MaxTests = 0
SPECIFICATION Spec
INVARIANTS NoHiddenKey
