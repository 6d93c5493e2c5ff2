SPECIFICATION FairSpec
CONSTANTS
  Agents = {a1, a2}
  Calls = {c1}
  Queues = {q1}
  QueueOf <- OneQueue
  Skilled <- AllSkilled
  MaxQueueSize = 2
  Forwarding = FALSE
  Tasks = {t1, t2}
  MaxUpdates = 1
  MaxSupervisions = 1
  MaxHangUps = 1
  MaxToggles = 1
  MaxCrashes = 1
  c1 = c1
  c2 = c2
  q1 = q1
  q2 = q2
INVARIANT HandedCallsRecorded
PROPERTIES WaitingCallsResolve ClosedCallsEnd
CHECK_DEADLOCK FALSE
