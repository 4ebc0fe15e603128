CONSTANTS
  Users <- MCUsers
  Depth = 2
  MaxRequests = 2
  MaxEvents = 2
CHECK_DEADLOCK FALSE
SPECIFICATION FairSpec
INVARIANTS FlagsTellTruth 
 
