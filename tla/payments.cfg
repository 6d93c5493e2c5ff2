SPECIFICATION FairSpec
CONSTANTS
  Tasks = {t1, t2}
  SharedLock = TRUE
  Kinds = {"wallet_topup", "subscription"}
  MaxCrashes = 1
  Price = 1
  key = key
  Requests = {r1}
  AmountOf <- HalfEach
  KeyOf <- SameKeys
  NoKey = NoKey
  Refs = {g1}
  MaxLost = 0
  MaxBroken = 0
  MaxOutside = 0
INVARIANTS CreditedOnce MarkedIsGranted
PROPERTY PaidIsGranted
CHECK_DEADLOCK FALSE
