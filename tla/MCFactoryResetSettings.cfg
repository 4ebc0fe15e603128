CONSTANTS
  MaxWrites = 1
SPECIFICATION ResetSpec
INVARIANT NoOldSettings
