SPECIFICATION FairSpec
CONSTANTS
  Recent = 2
  Streams = 1
  ContextWindow = 7
  Reserve = 4
  Margin = 1
  MaxCalls = 1
  PlanSize = 2
  CompactionRetries = 1
  AttemptIds = 2
  Corrections = 0
  Clients = {c1, c2}
  Requests = {r1}
  Queries = {q1}
  NoRequest = nor
  AnswerIds = 1
  MaxStarts = 2
  MaxRestarts = 0
  Readers = {g1}
  Refreshers = {m1}
  Nobody = nobody
  RefreshAge = 1
  Cooldown = 1
  MaxTime = 1
  Series = {s1, s2}
  Winners = {w1}
  NoTeam = noteam
  Slots = 1
  Offered = {"catalog", "patches", "guides", "images", "init", "migrate"}
  Commands = {u1}
  NoCommand = nou
  MaxLaunches = 1
  MaxPatch = 1
  MaxFaults = 1
  MaxSnapshots = 2
  Toolbox = {"find", "stat"}
  Yields <- MCYields
  Mandatory <- MCMandatory
  Lookups = {}
  Refers = {}
  Mocked = {}
  Literals = {"x"}
  CallIds = {"a", "b"}
  PlanCapacity = 2
  ControllerLimit = 2
  ToolLimit = 2
  AnswerLimit = 1
  LookupsPerRun = 0
  PlannerTries = 1
PROPERTIES StreamsAllEnd RefreshesEnd
CHECK_DEADLOCK FALSE
