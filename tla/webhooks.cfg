SPECIFICATION FairSpec
CONSTANTS
  e1 = e1
  e2 = e2
  d1 = d1
  Endpoints = {e1, e2}
  Deliveries = {d1, d2}
  EndpointOf <- FirstApart
  Instances = {i1, i2}
  Retries = 1
  BatchLimit = 1
  MaxToggles = 2
  MaxLost = 1
  MaxCrashes = 1
INVARIANTS ExhaustedAfterAllAttempts
PROPERTIES DeliveredIsFinal DeliveriesResolve
CHECK_DEADLOCK FALSE
