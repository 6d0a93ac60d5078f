CONSTANTS
  DayLength = 4
  Cap = 3
  Never = Never
  None = None
  Bodies <- AllBodies
  Names <- SomeNames
  Views <- SomeViews
  Errors = {"FloodWaitError", "UserDeactivatedBanError", "UsernameNotOccupiedError", "ConnectionError"}
  MaxAttempts = 3
  MaxTime = 6
  MaxCalls = 1
  MaxEnables = 1
  MaxLitter = 1
SPECIFICATION Spec
INVARIANTS
  CallCleansUp
  EntitiesCoverValues
PROPERTIES
  ErrorsHaveTheirEffect
  AttemptsSpaced
CHECK_DEADLOCK FALSE
