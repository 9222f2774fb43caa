SPECIFICATION FetchesSpec
CONSTANTS
  a = a
  b = b
  sc = sc
  p1 = p1
  p2 = p2
  d1 = d1
  d2 = d2
  e1 = e1
  e2 = e2
  l1 = l1
  c1 = c1
  c2 = c2
  x1 = x1
  x2 = x2
  x3 = x3
  i1 = i1
  i2 = i2
  v1 = v1
  n1 = n1
  nagpur = nagpur
  u1 = u1
  u2 = u2
  al = al
  o1 = o1
  o2 = o2
  f1 = f1
  f2 = f2
  wA = wA
  wB = wB
  mh = mh
  mH = mH
  Null = Null
  NoFigure = NoFigure
  Identities = {a, b, sc}
  Scanned = {sc}
  FirstFigures <- Alike
  Cites <- Cited
  Runs = {p1, p2}
  Apart = TRUE
  MaxFigures = 3
  MaxEdits = 3
  Figures = {d1, d2, e1, e2}
  InLatin = {e1, e2}
  Values = {5, 6}
  ValueOf <- Amounts
  Linkers = {l1}
  OneLinker = TRUE
  MaxChanges = 4
  Agents = {"us", "other"}
  Ours = {"us"}
  Matches <- Covers
  Length <- Long
  Whole = {"all"}
  Callers = {c1, c2}
  Scenes <- Errands
  Paths = {"p", "q"}
  HeadersTicks = 1
  IdleTicks = 1
  TotalTicks = 2
  MaxBytes = 1
  Attempts = 2
  Backoff <- Doubling
  RetryAfter = {0, 3}
  MaxRetryAfter = 2
  MaxRedirects = 1
  Interval = 1
  SlotTries = 2
  SlotPause = 1
  QueryTries = 2
  Submissions <- Bodies
  Final = {"corrected", "no_change"}
  Posts = {x1, x2, x3}
  Instances = {i1, i2}
  Ceiling = 1
  Hour = 1
  MaxClock = 1
  Reviewers = {v1}
  Notes = {n1}
  NoNote = NoNote
  MaxDecisions = 2
  NoReading = NoReading
  Candidates = {1, 2, 3, 4, 5, 6}
  PlaceIn <- Pages
  KindOf <- KindsRead
  ValueRead <- ValuesRead
  Evidence <- Statements
  Held0 = {2, 3, 4, 5, 6}
  Desks = {d1, d2}
  Commands <- CommandLines
  Lines = 2
  DefaultLimit = 2
  PartitionLimit = 6
  MaxSittings = 2
  MaxLoaderSteps = 1
  NoValue = NoValue
  Pieces <- TextItems
  MaxItems = 4
  Words = {"Name", "I", "of", "and", "lower", "number"}
  MaxWords = 4
  Illegible = Illegible
  Layouts <- Sheets
  MaxStrips = 4
  Stamps <- Inked
  Rows <- ListingRows
  RunWords = {"own", "and", "restart", "general"}
  MaxRun = 3
  MaxRuns = 2
  StatePlaces <- PlacesOfState
  TextWords = {"Mumbai", "Suburban", "Ahilya", "Karjat", "Pen", "other"}
  Letters <- LettersIn
  MaxText = 3
  MaxSentences = 2
  Absent = Absent
  Adverts <- Advertised
  HeldDistricts = {u1, u2}
  Aliases <- Approved
  SpelledAs <- Loosely
  Exactly = {"one"}
  Lengthy = {"town", "town two"}
  WordsIn <- Spelled
  Files <- Editions
  Spellings = {mh, mH}
  Operators = {o1, o2}
  OneOperator = TRUE
  MaxReplacements = 3
  MaxPasses = 2
INVARIANT RefusedIsNeverFetched
CHECK_DEADLOCK FALSE
