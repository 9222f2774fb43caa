SPECIFICATION CollectionSpec
CONSTANTS
  k1 = k1
  r1 = r1
  r2 = r2
  r3 = r3
  r4 = r4
  d1 = d1
  d2 = d2
  d3 = d3
  d4 = d4
  d5 = d5
  n1 = n1
  n2 = n2
  local = local
  bucket = bucket
  e1 = e1
  e2 = e2
  c1 = c1
  c2 = c2
  v1 = v1
  p1 = p1
  p2 = p2
  t1 = t1
  u1 = u1
  ra = ra
  rb = rb
  fa = fa
  fb = fb
  ft = ft
  fo = fo
  Null = Null
  None = None
  PageCount <- Lengths
  Typed <- Text
  Unreadable = {}
  Engines = {e1, e2}
  Collectors = {k1}
  Rows = {r1, r2, r3, r4}
  Documents = {d1, d2, d3, d4, d5}
  DocumentsOf <- Points
  Contents = {n1, n2}
  ContentOf <- Serves
  Refused = {d4}
  Stores = {local, bucket}
  LocalStores = {local}
  FirstRows <- Oldest
  PageSize = 2
  LastPage = 1
  MaxRuns = 2
  MaxFaults = 1
  Sweepers = {c1, c2}
  Reviewers = {v1}
  ScanReadings = {ra, rb}
  Ink <- Inks
  Printed <- FiguresPrinted
  TypedFacts = {ft}
  OldFacts = {fo}
  MaxRunsOfFacts = 2
  MaxLost = 1
  Unmeasured = Unmeasured
  Portals = {p1, p2}
  Tenders = {t1}
  PortalOf <- OnlyFirst
  Districts = {u1}
  Listings = {1, 2}
  Details = {"chain", "office"}
  Readings <- Sightings
  MaxIngestions = 3
  MaxDecisions = 2
  MaxActs = 4
  Watched = {"gj"}
  StaleAfter = 3
  SweepWithin = 2
  StuckAfter = 1
  MaxTime = 4
  MaxSweeps = 2
  MaxChecks = 2
SYMMETRY Symmetry
INVARIANTS
  PagesAreAccountedFor
  EvidenceIsHeld
  ListingIsCovered
  SweepsAreToldTruly
  ScansAreMeasured
  QuietMeansCollected
PROPERTIES
  PlacementHasOneAuthor
  EveryChangeIsFiled
CHECK_DEADLOCK FALSE
