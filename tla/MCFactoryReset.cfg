CONSTANTS
  MaxWrites = 2
SPECIFICATION ResetFairSpec
INVARIANT ResetIsComplete
PROPERTIES ResetHappens CardIsHonest
