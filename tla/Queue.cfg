CONSTANTS
  w1 = w1
  w2 = w2
  c1 = c1
  c2 = c2
  a1 = a1
  a2 = a2
  Worker = {w1}
  Message = {1, 2}
  Campaign = {c1}
  Account = {a1, a2}
  NoWorker = NoWorker
  NoAccount = NoAccount
  NoRequest = NoRequest
  CampaignOf <- OneCampaign
  AssignedTo <- AllOnA1
  PoolOf <- BothAccounts
  NoTarget = {}
  DailyLimit <- LimitOne
  BatchSize = 2
  MaxAttempts = 2
  Outcome = {"ok", "kill", "flood_wait", "transient"}
  CanHold = FALSE
  Slow = {}
  Ops = {"requeue", "start", "pause"}
  MaxFaults = 1
  MaxOps = 1
  MaxTicks = 0
SPECIFICATION FairSpec
INVARIANTS
  EverySendPaidFor
  CountersExact
  TerminalHasNoPending
  WithinDailyLimit
  NoSendFromKilled
PROPERTIES
  CampaignsFinish
  KeepsLedger
CHECK_DEADLOCK FALSE
