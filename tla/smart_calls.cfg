SPECIFICATION Spec
CONSTANTS
  Users = {caller, callee}
  caller = caller
  callee = callee
  Calls = {c1, c2}
  CallerOf <- AllByCaller
  CalleeOf <- AllToCallee
  TargetOf <- AllByCaller
  Tasks = {t1, t2}
  Hasty = FALSE
  Rejecting = FALSE
  Reasons = {"cancelled"}
  MaxRequests = 2
  MaxCrashes = 0
  Failing = {"row"}
SYMMETRY CallAndTaskSymmetry
INVARIANTS SettledWhenOver OwnerIsFree
CHECK_DEADLOCK FALSE
