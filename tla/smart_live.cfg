SPECIFICATION FairSpec
CONSTANTS
  Users = {caller, callee}
  caller = caller
  callee = callee
  Calls = {c1}
  CallerOf <- AllByCaller
  CalleeOf <- AllToCallee
  TargetOf <- AllByCaller
  Tasks = {t1, t2}
  Hasty = FALSE
  Rejecting = FALSE
  Reasons = {"cancelled"}
  MaxRequests = 2
  MaxCrashes = 1
  Failing = {"settlement"}
PROPERTIES ForsakenCallsEnd MetersStop
CHECK_DEADLOCK FALSE
