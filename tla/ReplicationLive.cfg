SPECIFICATION FairSpec
CONSTANTS
  Terms <- MCTerms
  LeaderLog <- MCLeaderLog
  Decided <- MCDecided
  Me = 3
  Followers = {"n2"}
  States = {"Probe", "Replicate"}
  StartTerms = {1, 2}
  LeaderCommit = 2
  OldTerms = {1, 2}
  HeartbeatsHandled = FALSE
  CheckQuorumOn = FALSE
  Compacts = FALSE
  MaxInflight = 6
  MaxSizePerMsg = 1
  ProposalSizes = {1}
  MaxBeats = 1
  MaxLost = 1
  MaxRepeated = 1
  MaxRestarts = 0
  MaxFaults = 1
INVARIANTS
  OneProbe
PROPERTIES
  ReplicationCompletes
CHECK_DEADLOCK FALSE
