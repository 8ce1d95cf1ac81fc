SPECIFICATION Spec
CONSTANTS
  Recent = 2
  Streams = 2
  ContextWindow = 9
  Reserve = 4
  Margin = 1
  MaxCalls = 2
  PlanSize = 2
  CompactionRetries = 1
  AttemptIds = 2
  Corrections = 1
  Tasks = {"t1", "t2"}
  Calls = {"a", "b", "c"}
  NoTask = "none"
  Executions = {x1, x2}
  Sizes <- MCSizes
  MaxChars = 6
  MaxTurns = 3
  MaxFaults = 2
  None = None
  Toolset <- MCToolset
  SafeName <- MCSafeName
  Foreign = "x"
  MaxText = 1
  MaxCallCount = 2
  MaxPieces = 2
  ArgumentBytes = 1
  EdgeBytes = 1
  TotalBytes = 2
  DiagnosedCalls = 2
  Documents <- MCDocuments
  InlineMax = 3
  Budget = 4
  Envelope = 1
  PointerSize = 1
  Offsets = {0}
  Limits = {1, 3}
  MaxOffset = 5
  MaxBatch = 2
  MaxTimeouts = 1
  MaxMessages = 4
SYMMETRY Symmetry
INVARIANTS HistoryIsSound EvidenceReachesAnswer WindowIsSound AnswersAreWhole ReadsAreSound
PROPERTIES ImplementsProtocol AnswersSeeTheLastTurn
CHECK_DEADLOCK FALSE
