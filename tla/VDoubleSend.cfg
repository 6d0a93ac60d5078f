CONSTANTS
  w1 = w1
  w2 = w2
  c1 = c1
  c2 = c2
  a1 = a1
  a2 = a2
  Worker = {w1, w2}
  Message = {1, 2}
  Campaign = {c1}
  Account = {a1, a2}
  NoWorker = NoWorker
  NoAccount = NoAccount
  NoRequest = NoRequest
  CampaignOf <- OneCampaign
  AssignedTo <- AllOnA1
  PoolOf <- BothAccounts
  NoTarget = {}
  DailyLimit <- NoLimit
  BatchSize = 2
  MaxAttempts = 2
  Outcome = {"ok"}
  CanHold = FALSE
  Slow = {}
  Ops = {}
  MaxFaults = 0
  MaxOps = 0
  MaxTicks = 2
SPECIFICATION Spec
INVARIANTS
  AtMostOnce
CHECK_DEADLOCK FALSE
