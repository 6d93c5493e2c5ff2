SPECIFICATION ApprovingSpec
CONSTANTS
  Requests = {q1}
  References = {"utr"}
  RefOf <- OnePayment
  Credit = 1
  InitWallet = 1
  Price = 1
  MaxPending = 1
  MaxMishaps = 0
  Recipients = {r1, r2, r3}
  Willing = {r1, r2, r3}
  Incomplete = {r3}
  Runs = {x1, x2}
  Categories = {"marketing", "utility"}
  BatchSize = 2
  ThroughputCap = 1
  DailyLimit = 1
  MaxEvents = 1
INVARIANTS ThroughputKept DailyLimitKept SentIsDelivered
PROPERTIES RefinesSendOnce ScheduledCampaignsStart RunsComplete
CHECK_DEADLOCK FALSE
