SPECIFICATION Spec
CONSTANTS
  Sessions = {s1}
  Requests = {q1}
  Runs = {r1}
  Workers = {w1, w2}
  Nil = Nil
  MaxFencing = 2
  MaxConcurrent = 1
  MaxPauses = 1
  MaxCancels = 1
  MaxStops = 1
  MaxFaults = 1
SYMMETRY MCSymmetry
INVARIANTS ChatTypeOK KilledOnlyIfAsked
PROPERTIES ImplementsRepository
CHECK_DEADLOCK FALSE
