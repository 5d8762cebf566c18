SPECIFICATION FairSpec
CONSTANTS
  Terms <- MCTerms
  LeaderLog <- MCLeaderLog
  Decided <- MCDecided
  MaxNextEnts = 2
  MaxRestarts = 1
INVARIANTS
  TypeOK
  NoPanic
  LogCoherent
  CommittedIsDecided
  AppliedInOrder
  AppliedIsDurable
  NoResurrection
  SliceIsLog
  AckIsTrue
PROPERTIES
  BookkeepingIsInvisible
  CommittedIsApplied
  ReplicaSpec
