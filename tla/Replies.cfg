CONSTANTS
  r1 = r1
  r2 = r2
  s1 = s1
  s2 = s2
  a1 = a1
  a2 = a2
  Message = {1, 2, 3, 4}
  Sender = {s1, s2}
  Account = {a1, a2}
  From <- TwoSenders
  To <- ToTheirs
  Shown = {s2}
  Unnamed = {4}
  Legacy = {2}
  Request = {r1, r2}
  Id = {1, 2, 3, 4, 5}
  NoId = 0
  NoMessage = 0
  MaxDeletes = 1
  MaxFaults = 1
  Fragile = {1}
SPECIFICATION FairSpec
INVARIANTS
  BoundToSender
  OrphansComeFromDeletes
PROPERTIES
  OrphansDrain
CHECK_DEADLOCK FALSE
