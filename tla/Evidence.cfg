SPECIFICATION EvidenceSpec
CONSTANTS
  Parts = {"sources", "ingestion", "parsing", "publication", "validation", "calibration", "calculation", "answer"}
  Builders = {"b1", "b2", "b3", "b4", "c1", "c2"}
  Activating = {"b1", "b2", "b3", "c1", "c2"}
  Versions = {"x1", "x2", "k1", "k2"}
  Target <- MCTarget
  Kind <- MCVersionKind
  StagedRows = 1
  BuildFaults = {"crash", "exception"}
  Calls <- MCCalls
  CallEntity <- MCEntity
  CallAccession <- MCAccession
  CallBytes <- MCBytes
  CallParser <- MCParser
  Channel <- MCChannel
  PublishedAt <- MCPublishedAt
  Malformed = {"junk"}
  FactsIn <- MCFactsIn
  IngestFaults = {"crash"}
  MaxCallsBegun = 3
  NoBytes = NoBytes
  NoLink = NoLink
  Fetches = {1, 2}
  JobKind <- MCFetchKind
  AsOf <- MCAsOf
  FirstHost <- MCFirstHost
  Hosts = {"data.sec", "www.sec", "fred", "else"}
  AllowedHosts <- MCAllowedHosts
  FollowRedirects <- MCFollowRedirects
  MaxRetries = 2
  MaxRedirects = 1
  MinInterval = 1
  RetryBase = 1
  Deadline = 2
  MaxBytes = 2
  Delays = {0, 2}
  ChunkSizes = {1}
  DayLength = 4
  Releases <- MCReleases
  MaxNow = 8
  MaxDeliveries = 2
  Vocabularies <- MCVocabularies
  Levels = {1, 2}
  MaxTags = 5
  Raws <- MCRaws
  MaxBatch = 3
  MaxScale = 3
  Decimals = 1
  NoScale = NoScale
  SampleScores = {1, 2, 3, 4}
  MaxSamples = 6
  MinN = 3
  MinClass = 1
  Quant = 20
  Bins = 4
  BaseIds = {10, 20, 30}
  LeafValues <- MCLeafValues
  LeafTimes <- MCLeafTimes
  OverrideValue = 1
  ScenarioTimes = {1, 3}
  CutoffTime = 2
  Tolerance = 25
  MaxSweeps = 3
  MaxScenarios = 2
  Corpus <- MCCorpus
  Words <- MCWords
  HasDigit = {"b"}
  Scores <- MCScores
  Filter <- MCFilter
  Filters <- MCFilters
  PlanLanes = {"dense", "lexical", "facts", "tables"}
  TopK = 4
  MaxContext = 4
  RrfUnit = 100000000
  Proposals <- MCProposals
  MaxClaims = 2
  NoNumber = NoNumber
INVARIANTS
  EvidenceIsFaithful
  SourcesUsedAsPromised
  ParseIsReadable
  OneCompleteVersion
  NotationHidesNothing
  ReviewSeesTheFindings
  CalibrationIsSound
  PlanIsSound
  ResultsAreSound
  AnswerIsSound
CHECK_DEADLOCK FALSE
