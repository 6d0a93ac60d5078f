CONSTANTS
  w1 = w1
  w2 = w2
  c1 = c1
  c2 = c2
  a1 = a1
  a2 = a2
  Worker = {w1, w2}
  Message = {1, 2, 3, 4}
  Campaign = {c1}
  Account = {a1, a2}
  NoWorker = NoWorker
  NoAccount = NoAccount
  NoRequest = NoRequest
  CampaignOf <- OneCampaign
  AssignedTo <- SplitAccounts
  PoolOf <- BothAccounts
  NoTarget = {4}
  DailyLimit <- NoLimit
  BatchSize = 2
  MaxAttempts = 2
  Outcome = {"ok", "flood_wait"}
  CanHold = TRUE
  Slow = {a1}
  Ops = {"enable", "validate", "cancel"}
  MaxFaults = 0
  MaxOps = 1
  MaxTicks = 2
SPECIFICATION Spec
INVARIANTS
  TypeOK
  NeverDurablySending
  SendExclusion
PROPERTIES
  NoStolenLock
CHECK_DEADLOCK FALSE
SYMMETRY WorkerSymmetry
