SPECIFICATION Spec
CONSTANTS
  SecondsPerMinute = 2
  BillingType = "hybrid"
  RatePerMinute = 2
  PerSecond = TRUE
  CreditLimit = 3
  DailyLimit = 0
  MaxOpenCall = 3
  Calls = {c1, c2}
  Final = {"ended"}
  InitAccount <- OwingAccount
  MaxConcurrent = 0
  Statuses = {"active"}
  Adjustments <- Settlements
  MaxAdjustments = 1
  MaxClock = 2
  MaxCrashes = 0
SYMMETRY CallSymmetry
INVARIANTS LockedBalanceAccounted SettledBooksBalance ChargedAtMostThePrice DebtIsEarned
PROPERTY RefinesCallLedger
CHECK_DEADLOCK FALSE
