SPECIFICATION Spec
CONSTANTS
  Terms <- MCTerms
  LeaderLog <- MCLeaderLog
  Decided <- MCDecided
  Self = "n1"
  Peers = {"n2", "n3"}
  None = "none"
  LeaderId <- MCLeaderId
  VoteRequests <- MCVoteRequests
  ConfChanges = {1}
  Configs <- MCVoter
  StartTerms = {0}
  ElectionTimeout = 2
  HeartbeatTimeout = 1
  MaxTerm = 3
  MaxRestarts = 1
INVARIANTS
  VotesCarryATerm
CHECK_DEADLOCK FALSE
