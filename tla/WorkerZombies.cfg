SPECIFICATION WorkersSpec
CONSTANTS
  extract = extract
  ingest = ingest
  unknown = unknown
  w1 = w1
  w2 = w2
  l1 = l1
  l2 = l2
  l3 = l3
  l4 = l4
  NoLease = NoLease
  NoClaim = NoClaim
  Workers <- TwoWorkers
  Rank <- MCRank
  Kind <- MCKind
  BackoffBase = 1
  BackoffCap = 1
  Jobs <- EveryKind
  Leases <- FourLeases
  MaxAttempts = 2
  StaleTicks = 1
  LastStage = 3
  Faults = {"crash", "beat", "pause", "read", "bind"}
  Api = {"cancel", "review"}
SYMMETRY MCSymmetry
INVARIANTS
  SingleOwner
  JobMatchesRun
  EvidenceAgrees
PROPERTIES
  QueueSpec
  RunTransitionsLegal
  ImplementsLifecycle
