SPECIFICATION RefundSpec
CONSTANTS
  Tasks = {}
  SharedLock = TRUE
  Kinds = {"wallet_topup"}
  MaxCrashes = 1
  Price = 2
  key = key
  Requests = {r1, r2}
  AmountOf <- HalfEach
  KeyOf <- SameKeys
  NoKey = NoKey
  Refs = {g1, g2}
  MaxLost = 1
  MaxBroken = 1
  MaxOutside = 1
INVARIANTS KeyRefundedOnce LedgerAgrees
PROPERTY RefundsResolve
CHECK_DEADLOCK FALSE
