SPECIFICATION Spec
CONSTANTS
  Unknown = Unknown
  CharSum <- Sums
  Alphabetical <- Order
  WideTable = 3
  HeavyUse = 3
  ClusterByMax = 2
  IncludeMax = 2
  Tables <- TableList
  SchemaOf <- Schema
  ColumnsOf <- ColumnTable
  Staging = {"stg_day"}
  DeclaredType <- Types
  Bodies = {"view", "proc"}
  Requests <- AllRequests
  Usages <- AllUsages
  EngineAnswers = {2, 5, 6, 11, 99}
  ProbeAnswers = {"fabric", "other"}
  Loads <- TableLoads
  IndexCatalogs <- IndexSets
  StatisticCatalogs <- StatSets
  DistributionCatalogs <- Distributed
  Skews = {20, 21}
  Distincts = {Unknown, 10000}
  SampleMax = 2
  Cut <- CutNames
INVARIANTS ConnectionReleased EvidenceOnly JoinKeysServed ProposalsAgree DistributionIsMeasured ExitCodeTruthful
CHECK_DEADLOCK FALSE
