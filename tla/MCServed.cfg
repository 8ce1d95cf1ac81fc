SPECIFICATION Spec
CONSTANTS
  Sessions = {s1}
  Requests = {q1}
  Runs = {r1}
  Workers = {w1}
  Nil = Nil
  MaxFencing = 2
  Clients = {c1}
  MaxQueue = 2
  MaxBatch = 2
  MaxGraphEvents = 0
  MaxFaults = 1
  MaxCancels = 0
  MaxExpiries = 0
  MaxMadeUp = 2
  Toolbox = {"find", "stat", "mock", "history"}
  Yields <- MCYields
  Mandatory <- MCMandatory
  Lookups = {"history"}
  Refers <- MCRefers
  Mocked = {"mock"}
  Literals = {"x"}
  CallIds = {"a", "b"}
  PlanCapacity = 2
  ControllerLimit = 3
  ToolLimit = 3
  AnswerLimit = 1
  LookupsPerRun = 2
  PlannerTries = 2
  Matches <- MCMatches
  Leagues = {"l1", "l2", "l3"}
  Games = {"g1", "g2"}
  Records <- MCRecords
  MaxLeagues = 2
  MaxDetails = 2
  MaxRequests = 5
  MaxConcurrency = 2
  MaxResolves = 2
  LifespanSettings <- MCSettings
  LifespanRuns = {"j1", "j2"}
  LifespanBreaks = 1
INVARIANTS FollowersAreTold RunIsSound ServedSoundly
CHECK_DEADLOCK FALSE
