SPECIFICATION FairSpec
CONSTANTS
  Terms <- MCTerms
  LeaderLog <- MCLeaderLog
  Decided <- MCDecided
  Self = "n1"
  Peers = {"n2", "n3"}
  None = "none"
  LeaderId <- MCLeaderId
  VoteRequests <- MCVoteRequests
  ConfChanges = {1}
  Configs <- MCConfigs
  StartTerms = {0, 1}
  ElectionTimeout = 2
  HeartbeatTimeout = 1
  MaxTerm = 3
  MaxRestarts = 1
INVARIANTS
  TypeOK
  NoLogPanic
  OwnVote
  OneVotePerTerm
  TimersInRange
  CampaignKnowsConfig
PROPERTIES
  LeaseHolds
  TimerKeepsFiring
CHECK_DEADLOCK FALSE
