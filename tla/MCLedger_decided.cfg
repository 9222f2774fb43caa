SPECIFICATION LedgerSpec
CONSTANTS
  rI = rI
  rS = rS
  rD = rD
  rT = rT
  rC = rC
  rZ = rZ
  india = india
  sM = sM
  sG = sG
  dM = dM
  tK = tK
  l1 = l1
  l2 = l2
  NoTag = NoTag
  Relations = {rI, rS, rD, rT, rC, rZ}
  TaggedLevel <- Tagged
  RefOf <- Refs
  Unclosed = {}
  AreaOf <- Areas
  HoldsPoint <- Around
  Answers <- Asked
  StateCodes = {"27"}
  Mappers = {m1}
  MaxUnits = 6
  MaxImports = 4
  Operators = {o1, o2}
  Checkouts <- Copies
  MisnamedIn <- Misnamed
  MaxRuns = 3
  Requests = {r1, r2}
  Reads = 1
  MaxLoads = 1
  NoState = NoState
  Loads = {l1, l2}
  Transactional = {l1, l2}
  Units = {u1, u2}
  Sweeps = {l1, l2}
  Swept = {u1, u2}
  MaxVersion = 3
  MaxWrites = 2
  MaxAnswers = 2
  Names = {1, 2, 3}
  NoPlace = NoPlace
  All = All
  Scopes <- Covering
  NameOf <- NamesRead
  NamedFor <- Renamed
  FiledUnder <- ReportsOf
  Unreadable = {}
  UnitRows <- UnitsFiled
  Loaders = {l1, l2}
  MaxNameDecisions = 2
  MaxMentionLoads = 2
INVARIANT CacheKey
CHECK_DEADLOCK FALSE
