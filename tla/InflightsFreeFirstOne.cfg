SPECIFICATION SpecAnyTime
CONSTANTS
  Sizes <- MCSizes
  Indexes <- MCIndexes
PROPERTIES
  FreeFirstOneOnEmpty
CHECK_DEADLOCK FALSE
