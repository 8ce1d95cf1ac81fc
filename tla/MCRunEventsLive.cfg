SPECIFICATION EventFairSpec
CONSTANTS
  Sessions = {s1}
  Requests = {q1}
  Runs = {r1}
  Workers = {w1}
  Nil = Nil
  MaxFencing = 1
  Clients = {c1}
  MaxQueue = 2
  MaxBatch = 2
  MaxGraphEvents = 1
  MaxFaults = 1
  MaxCancels = 0
  MaxExpiries = 0
  MaxMadeUp = 2
PROPERTIES ExecutionEnds SubscriptionEnds
CHECK_DEADLOCK FALSE
