SPECIFICATION Spec
CONSTANTS
  Sizes <- MCSizes
  Indexes <- MCIndexes
INVARIANTS
  TypeOK
  NoPanic
  WindowInBuffer
PROPERTIES
  QueueSpec
