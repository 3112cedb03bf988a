SPECIFICATION WorkerSpec
CONSTANTS
  extract = extract
  ingest = ingest
  unknown = unknown
  w1 = w1
  w2 = w2
  l1 = l1
  l2 = l2
  l3 = l3
  l4 = l4
  NoLease = NoLease
  NoClaim = NoClaim
  Workers <- TwoWorkers
  Rank <- MCRank
  Kind <- MCKind
  BackoffBase = 1
  BackoffCap = 1
  Jobs <- OneRun
  Leases <- TwoLeases
  MaxAttempts = 2
  StaleTicks = 2
  LastStage = 2
  Faults = {"crash"}
  Api = {}
INVARIANTS
  TerminalStatesAgree
