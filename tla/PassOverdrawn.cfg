SPECIFICATION SceneSpec
CONSTANTS
  PassLimit = 5
  TopUp = 0
  ChargeCost = 4
  PassStatus = {"active", "lapsed", "expired"}
  Nwc = Nwc
  Ckb = Ckb
  Schedule = {Nwc, Ckb}
  Fiber = {Ckb}
  Scheduler = {w1, w2}
  Lead = w1
  Price = 2
  LastDue = 1
  OccurrenceLimit = 2
  MaxReplacements = 1
  e1 = e1
  e2 = e2
  e3 = e3
  Event = {e1, e2, e3}
  Cost <- MCCost
  Settler = {w1, w2}
  GrantLimit = 4
  MaxPerEvent = 2
  Threshold = 3
  MaxBatch = 3
  MaxBatchEvents = 2
  RateLimit = 2
  MaxTries = 2
INVARIANTS
  PassNotOverdrawn
CHECK_DEADLOCK FALSE
