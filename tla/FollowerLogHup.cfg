SPECIFICATION Spec
CONSTANTS
  Terms <- MC2Terms
  LeaderLog <- MC2LeaderLog
  Decided <- MC2Decided
  MaxNextEnts = 2
  MaxRestarts = 0
INVARIANTS
  UnappliedIsReadable
