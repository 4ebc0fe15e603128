CONSTANTS
  Readings <- MCEdges
  Failing = {"percent", "status"}
  Stale = 1
  MaxReadings = 2
  MaxTime = 1
  Capacity = 2
  PageRows = 2
  MaxSamples = 4
  MaxStarts = 2
  MaxKills = 1
SPECIFICATION PowerSpec
INVARIANTS HandOff CacheIsTruth HistoryIsTrue
PROPERTIES LatestIsShown RecorderCatchesUp
