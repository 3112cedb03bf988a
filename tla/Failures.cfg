SPECIFICATION FailuresSpec
CONSTANTS
  extract = extract
  ingest = ingest
  unknown = unknown
  w1 = w1
  w2 = w2
  l1 = l1
  l2 = l2
  l3 = l3
  l4 = l4
  NoLease = NoLease
  NoClaim = NoClaim
  Workers <- TwoWorkers
  Rank <- MCRank
  Kind <- MCKind
  BackoffBase = 1
  BackoffCap = 1
  Jobs <- OneRun
  Leases <- TwoLeases
  MaxAttempts = 2
  StaleTicks = 2
  LastStage = 3
  Faults = {"crash", "bind", "read"}
  Api = {"cancel", "review"}
  Writers = {u1, u2}
  NoWriter = NoWriter
  MaxId = 4
  PageLimit = 2
  MaxDrops = 2
  Reconnects = 2
INVARIANTS
  TerminalEventLast
  ReviewResumed
  HealthyNeverReaped
  NothingSkipped
PROPERTIES
  EveryJobEnds
  StreamCompletes
CHECK_DEADLOCK FALSE
