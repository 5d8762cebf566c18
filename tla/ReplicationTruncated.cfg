SPECIFICATION Spec
CONSTANTS
  Terms <- MCTerms
  LeaderLog <- MCLeaderLog
  Decided <- MCDecidedOne
  Me = 3
  Followers = {"n2"}
  States = {"Probe"}
  StartTerms = {1, 2}
  LeaderCommit = 1
  OldTerms = {1}
  HeartbeatsHandled = FALSE
  CheckQuorumOn = FALSE
  Compacts = FALSE
  MaxInflight = 2
  MaxSizePerMsg = 1
  ProposalSizes = {1}
  MaxBeats = 1
  MaxLost = 0
  MaxRepeated = 0
  MaxRestarts = 0
  MaxFaults = 0
INVARIANTS
  MatchIsReplicated
CHECK_DEADLOCK FALSE
