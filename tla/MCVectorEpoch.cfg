SPECIFICATION Spec
CONSTANTS
  Ids = {1, 2, 3, 4, 5}
  Scale = 3600
  NoVec = NoVec
  Batches <- TryBatches
  Queries <- TryQueries
  KMeansIters = 4
  SplitCapMultiplier = 1
  MergeMinDivisor = 1
  ReassignTopN = 0
  TreeFanout = 2
  TreeLeafCapacity = 1
  TreeBeamFactor = 1
  ChunkSize = 2
  ArrayMax = 1
  Filters <- WithParts
  TextField = "body"
  Tokens <- TryTokens
  Unit = 1000
  IDF <- TryIDF
  MinFieldCardinality = 1
  FilterFirstPercent = 40
  ShortlistMultiplier = 2
  HybridMultiplier = 2
  RRFK = 60
  MaxSegments = 3
  MaxBuilds = 2
INVARIANTS EpochPartitions AnswersExact PartialAnswersSound PlanLosesNothing FusionRespectsLegs
CHECK_DEADLOCK FALSE
