SPECIFICATION Spec
CONSTANTS
  Sessions = {s1}
  Requests = {q1}
  Runs = {r1}
  Workers = {w1, w2}
  Nil = Nil
  MaxFencing = 2
  MaxConcurrent = 1
  MaxPauses = 1
  MaxCancels = 0
  MaxStops = 0
  MaxFaults = 0
PROPERTY ResumedRunIsExecuted
CHECK_DEADLOCK FALSE
