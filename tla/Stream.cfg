CONSTANTS
  ann = ann
  root = root
  a1 = a1
  a2 = a2
  g1 = g1
  User <- MCUser
  Admins <- MCAdmins
  Account <- MCAccount
  Group <- MCGroup
  InitialGrants <- MCGrants
  InitialMembers <- MCMembers
  Tab = {t1}
  Socket = {s1, s2}
  None = None
  MaxEvents = 2
  MaxEdits = 1
  MaxSwitches = 2
  MaxFaults = 1
SPECIFICATION Spec
INVARIANTS
  StreamComplete
  ShownOnce
PROPERTIES
  GoneIsClosed
  ConnectedInTheEnd
CHECK_DEADLOCK FALSE
