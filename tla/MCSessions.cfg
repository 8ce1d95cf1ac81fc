SPECIFICATION PartsSpec
CONSTANTS
  Sessions = {s1}
  Requests = {q1, q2}
  Runs = {r1, r2}
  Workers = {w1}
  Nil = Nil
  MaxFencing = 2
  MaxConcurrent = 2
  MaxPauses = 0
  MaxCancels = 1
  MaxStops = 0
  MaxFaults = 1
  Callers = {c1, c2}
  Keys = {q1, q2}
  MaxUuids = 4
  MaxRecords = 1
  RecordTtl = 1
  MaxClock = 1
  MaxTurns = 2
  MaxLapses = 1
  Tasks = {c1, c2}
  Rooms = {"a", "b"}
  Ids = {q1, q2}
  MaxSessions = 1
  MaxKept = 1
  KeepFor = 1
  MaxTime = 1
  MaxDraws = 2
  MaxLocks = 2
  MaxAppends = 1
  MaxTokens = 2
SYMMETRY PartsSymmetry
INVARIANTS AnnouncedIsDurable TurnsFollowTokens
PROPERTIES AnswersWhatItSaw StoresKeepPromise
CHECK_DEADLOCK FALSE
