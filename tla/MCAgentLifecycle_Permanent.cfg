SPECIFICATION FairSpec
CONSTANTS
  a = a
  b = b
  legacy = legacy
  Owned = {a, b}
  Unowned = {legacy}
  NoAgent = NoAgent
  MaxStamp = 2
  Lossy = TRUE
  AgentsOutliveScan = TRUE
PROPERTIES
  NoPermanentRow
