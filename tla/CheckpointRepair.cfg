SPECIFICATION ServicesSpec
CONSTANTS
  Parts = {"stages"}
  Workers = {w1, w2}
  LastStage = 2
  ModelStages = {1}
  Skipped = {}
  Answers = {a1, a2}
  Request = q0
  CallCosts = {2}
  MaxCalls = 3
  MaxCost = 5
  Faults = {"crash", "tamper"}
  MaxClaims = 3
  MaxTampers = 1
  MaxRow = 3
  None = None
  Requests <- MCRequests
  Caller <- MCCaller
  Route <- MCRoute
  KeyOf <- MCKeyOf
  Reserve = 2
  Costs = {0, 3}
  UserLimit = 3
  OrgLimit = 4
  ApiFaults = {"crash", "exception", "store", "scale"}
  MaxDays = 2
  MonthEnd = 2
  Nobody = Nobody
  Threads = {"t1", "t2"}
  BucketKeys = {"k1", "k2"}
  Token = 3
  RefillRate = 2
  Burst = 4
  TicksPerSecond = 1
  EvictFrom = 2
  IdleTicks = 2
  MaxTicks = 3
  Unset = Unset
  MaxKey = 4
  PageSizes = {1, 2}
  LegacyLimit = 2
  MaxVersions = 2
  MaxMoves = 4
  NoCursor = NoCursor
  TraceLengths = {2, 3, 5}
  PageRows = 2
  MaxTraceEvents = 4
  MaxConnects = 3
  Verifiers = {"v1", "v2"}
  Kids = {"old", "new"}
  KeyLife = 3
  KeyPause = 2
  FetchTime = 1
  MaxKeyTime = 5
  MaxRotations = 1
  NoThread = NoThread
  NoTime = NoTime
  Appliers = {"d1", "d2"}
  Checkouts <- MCCheckouts
  Failing = {"bad"}
  Texts = {"e"}
  MaxEdits = 1
  NoApplier = NoApplier
  MaxAge = 3
  BeatEvery = 2
  MaxClock = 7
INVARIANT
  SupersededOnlyByRival
CHECK_DEADLOCK FALSE
