CONSTANTS
  r1 = r1
  r2 = r2
  m1 = m1
  a1 = a1
  a2 = a2
  Request = {r1, r2}
  Account = {a1, a2}
  Merchant = {m1}
  NoMerchant = NoMerchant
  MerchantOf <- AllOnM1
  Inactive = {"paused"}
  Quota = {0, 1}
  Ops = {"patch", "delete", "merchant", "expiry", "reset"}
SPECIFICATION Spec
INVARIANTS
  TypeOK
PROPERTIES
  AdmittedWithinTotal
  RecountIsLive
CHECK_DEADLOCK FALSE
SYMMETRY RequestSymmetry
