SPECIFICATION FairSpec
CONSTANTS
  Sessions = {s1}
  Requests = {q1}
  Runs = {r1}
  Workers = {w1, w2}
  Nil = Nil
  MaxFencing = 1
  MaxConcurrent = 1
  MaxPauses = 0
  MaxCancels = 1
  MaxStops = 1
  MaxFaults = 1
PROPERTIES RunsSettle ShutdownCompletes
CHECK_DEADLOCK FALSE
