SPECIFICATION Spec
CONSTANTS
  Terms <- MCTerms
  LeaderLog <- MCLeaderLog
  Decided <- MCDecided
  Me = 3
  Followers = {"n2"}
  States = {"Probe", "Replicate"}
  StartTerms = {1, 2}
  LeaderCommit = 2
  OldTerms = {2}
  HeartbeatsHandled = TRUE
  CheckQuorumOn = TRUE
  Compacts = TRUE
  MaxInflight = 2
  MaxSizePerMsg = 1
  ProposalSizes = {1}
  MaxBeats = 1
  MaxLost = 0
  MaxRepeated = 1
  MaxRestarts = 1
  MaxFaults = 2
INVARIANTS
  TypeOK
  NoPanic
  MatchIsDurable
  CommittedIsLeaders
  NextIsAfterMatch
CHECK_DEADLOCK FALSE
