SPECIFICATION RuntimeSpec
CONSTANTS
  Recent = 2
  Streams = 1
  ContextWindow = 9
  Reserve = 4
  Margin = 1
  MaxCalls = 2
  PlanSize = 2
  CompactionRetries = 1
  AttemptIds = 2
  Corrections = 1
INVARIANT EffectiveHistoryIsGrouped
CHECK_DEADLOCK FALSE
