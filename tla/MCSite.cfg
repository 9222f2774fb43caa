SPECIFICATION SiteSpec
CONSTANTS
  sA = sA
  sB = sB
  dA = dA
  dX = dX
  tA = tA
  doc = doc
  dep = dep
  A = A
  B = B
  Z = Z
  a1 = a1
  a2 = a2
  b1 = b1
  g = g
  k1 = k1
  k2 = k2
  k3 = k3
  t1 = t1
  t2 = t2
  p1 = p1
  p2 = p2
  Terms = {"t1", "t2"}
  TooShort = "t"
  NoTerm = "-"
  Nowhere = Nowhere
  NoLayers = "none"
  Malformed = Malformed
  Places = {sA, sB, dA, dX, tA}
  LevelOf <- Ranks
  Filed <- FiledUnder
  Shapes = {sA, dA, dX, tA}
  Inside <- LiesIn
  CodeOf <- Codes
  States = {A, B}
  Documents = {doc}
  Departments = {dep}
  LongNames = {"longer than 200 characters"}
  Toggles = {"states", "areas", "audit"}
  Named = {dA, dX}
  Links <- Addresses
  Newest = 2
  MaxMoves = 2
  Nothing = Nothing
  Mounts = 2
  Levels <- Areas
  Unsourced <- WithoutSource
  Geometries = {g}
  Offered <- Offers
  Pins <- Marked
  Switches <- Turned
  Pointed = {a1}
  BaseStyle <- Basemap
  Names = {k1, k2, k3}
  Key <- Keys
  Cameras = {"far", "between", "near"}
  Near <- NearTo
  OnScreen <- InSight
  Touching <- Overlapping
  MaxNodes = 3
  MinVisible = 3
  Cooldown = 2
  Settle = 4
  LabelSets <- LabelOffers
  MaxTouches = 3
  Absent = Absent
  Awaited = Awaited
  Missed = Missed
  StaleAfter = 0
  Adverts = {t1, t2}
  EPortalOf <- Advertised
  IssuerOf <- Issued
  ClosesAt <- Closing
  RankOf <- Ranked
  UnitsOf <- Within
  StateOfPortal <- Serving
  ListCap = 1
  Questions <- Looks
  MayGrant = {dep, "all"}
  Deployments <- Sites
  LastHour = 1
INVARIANTS
  SearchShowsItsTerm
  AddressRestoresView
  MapShowsItsInput
  NamesSettleApart
  TendersAreToldTruly
CHECK_DEADLOCK FALSE
