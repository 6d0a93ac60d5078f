CONSTANTS
  r1 = r1
  r2 = r2
  g1 = g1
  cn = cn
  Request = {r1, r2}
  Account = {1, 2}
  Proxy = {1, 2}
  Group = {g1}
  Country = {cn}
  None = None
  CountryOf <- FirstAtHome
  PhoneCountry <- OneAtHome
  Caps = {1, None}
  Imports = {{1, 2}}
  InitialPool <- CappedPool
  MaxOps = 1
SPECIFICATION Spec
INVARIANTS
  DisabledStaysOut
PROPERTIES
  AllocationWithinCap
CHECK_DEADLOCK FALSE
SYMMETRY RequestSymmetry
