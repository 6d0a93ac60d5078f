CONSTANTS
  r1 = r1
  r2 = r2
  u1 = u1
  u2 = u2
  p1 = p1
  x = x
  s = s
  Request = {r1, r2}
  Row = {1, 2, 3}
  User = {u1, u2}
  Phone = {p1}
  Name = {x, s}
  Null = Null
  Gone = Gone
  Revoked = {u2}
  Entry <- Entries
  Archives <- Uploads
  MaxImports = 2
  MaxDeletes = 1
SPECIFICATION FairStoreSpec
INVARIANTS
  SessionsKept
  NoStrayFiles
PROPERTIES
  LockoutNoticed
CHECK_DEADLOCK FALSE
