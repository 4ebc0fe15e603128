CONSTANTS
  main = main  thread = thread  ui = ui
  Tasks <- MCTasks
  Lines = 2
  MaxBatch = 3
  MaxSeq = 3
  MaxBoots = 3
  PageLimit = 1
  Quiet = TRUE
  Writers <- MCWriters
  Free = Free
  PendingSlots = 2
  MaxText = 4
  HistN = 3
  MinStep = 2
  MaxGap = 4
  MinSpan = 3
  MinDrop = 2
  Percents = {1, 3}
  Horizon = 8
CHECK_DEADLOCK FALSE
SPECIFICATION RingsSpec
INVARIANTS LastWords  LinesAreWhole RateOfRun
SYMMETRY Symmetry
