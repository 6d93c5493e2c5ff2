SPECIFICATION Spec
CONSTANTS
  Agents = {a1, a2}
  Calls = {c1, c2}
  Queues = {q1, q2}
  QueueOf <- TwoQueues
  Skilled <- AllSkilled
  MaxQueueSize = 2
  Forwarding = FALSE
  Tasks = {t1, t2}
  MaxUpdates = 2
  MaxSupervisions = 0
  MaxHangUps = 0
  MaxToggles = 0
  MaxCrashes = 0
  c1 = c1
  c2 = c2
  q1 = q1
  q2 = q2
SYMMETRY AgentAndTaskSymmetry
INVARIANTS NoLostWaiter NoStuckClaim OneCallPerAvailability
CHECK_DEADLOCK FALSE
