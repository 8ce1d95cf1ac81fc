SPECIFICATION Spec
CONSTANTS
  Sessions = {s1}
  Requests = {q1, q2, q3}
  Runs = {r1, r2}
  Workers = {w1, w2}
  Nil = Nil
  MaxFencing = 2
  Entities = {e1}
  Teams = {t1}
  Legacy = {t1}
  Hashes = {r1, r2}
  NoHash = noh
  Urls = {w1, w2}
  NoUrl = nox
  MaxPictures = 2
  MaxMonth = 2
  MaxDamage = 1
  Partitions = 2
  MaxAttempts = 4
  MaxDamaged = 1
  Heroes = {"h"}
  Items = {"i"}
  MaxVersion = 2
  Owned <- MCOwned
  Listed <- MCListed
  Reviewed = {1, 2}
  PoolSize = 2
  MaxConcurrency = 2
  Attempts = 2
  MaxErrors = 1
SYMMETRY Symmetry
INVARIANTS OneActiveRun TurnsContiguous CompletedIffAnswered OneRunPerRequest OwnershipMatchesStatus FilesAreSound
PROPERTIES TerminalIsFinal CancelSticks ImplementsLedger FilesMoveForward
CHECK_DEADLOCK FALSE
