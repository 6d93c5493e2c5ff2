SPECIFICATION FairSpec
CONSTANTS
  SecondsPerMinute = 2
  BillingType = "hybrid"
  RatePerMinute = 4
  PerSecond = FALSE
  CreditLimit = 8
  DailyLimit = 6
  MaxOpenCall = 5
  Calls = {c1}
  Final = {"completed", "ended", "dropped", "failed"}
  InitAccount <- HybridAccount
  MaxConcurrent = 1
  Statuses = {"ringing", "answered", "active"}
  Adjustments <- TopUps
  MaxAdjustments = 1
  MaxClock = 7
  MaxCrashes = 1
INVARIANTS TypeOK StoredRuntimeFlushed WalletAccounted SessionBooks
PROPERTIES NoChargeAfterStop MeteredCallsEnd
CHECK_DEADLOCK FALSE
