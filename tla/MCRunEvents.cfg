SPECIFICATION EventSpec
CONSTANTS
  Sessions = {s1}
  Requests = {q1}
  Runs = {r1}
  Workers = {w1}
  Nil = Nil
  MaxFencing = 2
  Clients = {}
  MaxQueue = 2
  MaxBatch = 2
  MaxGraphEvents = 1
  MaxFaults = 1
  MaxCancels = 2
  MaxExpiries = 1
  MaxMadeUp = 2
PROPERTY EventsAreSound
CHECK_DEADLOCK FALSE
