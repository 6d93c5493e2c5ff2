SPECIFICATION Spec
CONSTANTS
  Users = {caller, callee}
  caller = caller
  callee = callee
  Calls = {c1}
  CallerOf <- AllByCaller
  CalleeOf <- AllToCallee
  TargetOf <- AllByCaller
  Tasks = {t1, t2}
  Hasty = FALSE
  Rejecting = TRUE
  Reasons = {"ended"}
  MaxRequests = 2
  MaxCrashes = 0
  Failing = {}
SYMMETRY CallAndTaskSymmetry
INVARIANT SettledWhenOver
CHECK_DEADLOCK FALSE
