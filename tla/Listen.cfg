CONSTANTS
  a1 = a1
  Account = {a1}
  Slot = {1, 2}
  None = None
  MaxMsgs = 2
  MaxEdits = 2
  MaxFaults = 3
SPECIFICATION FairSpec
INVARIANTS
  OneListener
  StoredOnce
PROPERTIES
  DroppedGoesSilent
  WantedIsHeard
CHECK_DEADLOCK FALSE
