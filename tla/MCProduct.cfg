SPECIFICATION Spec
CONSTANTS
  Clients = {c1, c2}
  Requests = {r1, r2}
  Queries = {q1, q2}
  NoRequest = nor
  AnswerIds = 2
  MaxStarts = 2
  MaxRestarts = 1
  Readers = {g1}
  Refreshers = {m1, m2}
  Nobody = nobody
  RefreshAge = 2
  Cooldown = 1
  MaxTime = 2
  Series = {s1, s2, s3}
  Winners = {w1, w2}
  NoTeam = noteam
  Slots = 1
  Offered = {"catalog", "patches", "guides", "images", "init", "migrate", "all"}
  Commands = {c1, c2}
  NoCommand = nou
  MaxLaunches = 2
  MaxPatch = 2
  MaxFaults = 0
  MaxSnapshots = 2
  MaxSent = 2
  MaxEditions = 2
  MaxReloads = 1
SYMMETRY Symmetry
INVARIANTS SavesAreTrue AnsweredOnceFromAll DataIsSound
PROPERTIES UserSeesTheAnswer RefreshesBackOff NothingGoesBack
CHECK_DEADLOCK FALSE
