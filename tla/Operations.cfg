CONSTANTS
  w1 = w1
  w2 = w2
  a1 = a1
  a2 = a2
  Worker = {w1, w2}
  Member = {a1, a2}
  Ops = {"pause", "resume", "cancel", "toggle"}
  MaxStarts = 2
  MaxFaults = 1
SPECIFICATION FairSpec
INVARIANTS
  OneAttemptPerDispatch
  CountersAudited
PROPERTIES
  DispatchedEnds
CHECK_DEADLOCK FALSE
