# LokDarpan, verified

TLA+ models of LokDarpan, the TLC runs that check them and the proofs TLAPS checks.
LokDarpan collects what Indian public bodies publish (tenders, audit reports,
budgets, geography) into a PostgreSQL ledger, has people review what a parser read,
and serves the ledger to a map-centred web page. Paths below are relative to `src/`.

## 1. The system

| Component | State it keeps | Operations | What is hard | Correct means |
|---|---|---|---|---|
| **Fact review** `services/ingestion/src/cag/facts-load.ts`, `review/decide.ts`, migrations 0007, 0009, 0044 | `document_fact`, its review history | a parser run reconciles one document's rows; reviewers decide and revise | statement-by-statement autocommit; a run dies half way; decisions land between its read and its writes | one identity is one row; no decision lost; a finished run leaves what its parser reads |
| **Review desk** `review/cli.ts`, `queue.ts`, `triage.ts`, `threshold.ts`, `corrections.ts` | a session's queue and what it has decided | one by one, a page at a time, in bulk, by place | the queue and the page's claimed amounts are read once and used for long | a glance is taken only where the evidence says all; a named set is decided whole |
| **Reading of reports** `cag/extract.ts`, `facts.ts`, `validation.ts`, `bodies.ts`, `places.ts` | none: a page to its candidates | join, clean, split, read, box, trim | scale beside a bracket, lost glyphs, names inside names | a figure is read as printed or not at all; a name is whole and is one place's |
| **Reading of notices and scans** `maharashtra/notice-facts.ts`, `mhada.ts`, `msidc.ts`, `ocr/scan-facts.ts` | a document's facts and the words they were measured on | read a page or a row; reconcile | noon and midnight, day and month, damaged commas; words filed while facts are read | a date is certain or says it is not; legibility lands and is never understated |
| **Names and mentions** `cag/bodies-load.ts`, `places-load.ts`, `public-body.repository.ts`, `place-mention.repository.ts` | bodies, mentions | load, withdraw; show | loads that overlap decisions and each other at READ COMMITTED | nobody is shown under a name nobody agreed to |
| **Places of the ledger** `lgd/load.ts`, `osm/load.ts`, `osm/boundaries.ts` | `admin_unit` | load the directory, ingest a relation, assign parents | two registers numbering alike; imports in any order | one place is one unit; parents make no loop |
| **Ledger reads** `packages/database/src/ledger.ts`, `apps/web/src/server/container.ts` | one pooled connection and its transaction | `readLedger`, `oneAtATime` | queries queued behind a failure; loads committing in between; a pool of one | an answer is one state of the ledger and names it; every request ends |
| **Dataset versions** `ledger.ts`, every `*/load.ts` | `dataset_version`, the version of each row | open, write, commit or seal; read the watermark | ids are dealt before they become visible; two kinds of load; loads that overlap | nothing newer than its version is served; two answers of one version differ only by what was under way; tenders are never put back |
| **Migrator** `packages/database/src/migrator.ts` | schema, `schema_migration` | ensure, status, migrate | two checkouts, two operators | the schema is what is recorded of it |
| **Browser cache** `apps/web/src/lib/resource-cache.ts`, `use-resource.ts` | entries, requests in flight, watermark, panels | read, settle, overtake, evict, navigate | late and failing answers; a server behind its own watermark; capacity | one request per URL; a page at rest agrees with itself; no panel waits for ever |
| **Explorer, search** `state/*`, `components/explore/SearchDialog.tsx` | the view, the address; a term and its answer | every control of the page; type, send, hear | a pinned version across navigation; late answers | an address restores its view; results are of the term shown |
| **Map** `map/engine/binder.ts`, `map/place-labels.ts`, `map/labels/arbiter.ts` | what was sent to the renderer; names drawn, resting, fading | bind, update, point; lay out, rest | sources that are not there yet, refused data; a cooldown counted in frames | the map shows its input; names settle apart |
| **Tender views, publication** `tender.repository.ts`, `components/explore/tenders.tsx`, `server/publishable.ts`, `packages/domain/src/source-licence.ts` | what a panel holds of three answers | overview, list, record | counts by three queries; a licence that changes | every open tender is counted once; nothing is shown that may not be |
| **Tender ledger** `gepnic/*`, `ingestion-run.ts`, `advisory-lock.ts`, migrations 0012, 0022, 0024, 0030, 0034, 0035, 0038 | tenders, their history, windows, runs, placements, the sweep's lock | sweep, load, place, resolve | a load's transaction beside the run's own statements; kills; action on an old read | a placement has one author; every change is filed; runs and windows say what happened |
| **District placing** `gepnic/resolve.ts`, `aliases.ts`, `pincode/*` | the post offices' directory; placements | replace the directory; resolve by four rules | two statements around a replacement | a tender is placed on whole evidence |
| **Freshness** `freshness/*` | an alert | assess, tell | three reads beside a sweep | quiet means collected |
| **Agency notices** `maharashtra/*`, `raw-store.ts`, migrations 0037, 0040 | bytes by content address, artefacts, sightings, runs | collect a range of pages, keep each notice, stop early | a listing that grows while it is read; death inside a write; a stop that trusts earlier runs | a row's bytes are there; a fact cites the page it was on; nothing in range is missed |
| **Documents and OCR** `maharashtra/documents.ts`, `cag/load.ts`, `ocr/read-pages.ts`, `services/ocr`, migration 0042 | documents, pages, readings, words, refusals | load what is held, read what is unread | a document inserted before its pages and a reading before its words | nothing half-made without a fault; an absence is stated |
| **Bounded fetch, robots** `net/*` and the clients on it | attempt, deadlines, bytes; a host's policy | fetch, retry, redirect, cap; ask the policy once | what to retry, and for how long; two callers and one policy | every fetch ends in its allowance; a refused page is not asked for |
| **Figure pairing** `cag/figure-link*.ts` | `same_figure_as` | relink | cleared, then written, in autocommit | a figure stated twice is counted once |
| **Promotion** `cag/promote.ts`, `promote-refresh.ts` | two databases | promote, refresh | reads before `BEGIN` beside reviewers | the target gets one state of a report, and loses no decision |
| **Corrections intake** migration 0046, `server/intake.ts`, `review/correction-requests.ts` | requests, their history | submit, decide | an hourly ceiling counted under concurrency | received, never applied, never lost |

How they meet: loads write rows and a `dataset_version` (TenderLedger, FactReview,
Mentions and LedgerVersions are views of that); the web server reads both in one
snapshot (LedgerRead); the version it answers with drives the browser's cache
(ResourceCache). An agency's run reads a listing over HTTP, keeps bytes in the raw
store, makes documents of them and asks the OCR service to read them
(NoticeCollection, AgencyRun): pages become candidates (CagReading, NoticeReading,
ScanFacts), candidates become rows (FactReview), rows are decided at the desk
(ReviewDesk), decided names become mentions (Mentions), and a decided report is
promoted to the readers' database (Promotion). The page turns answers into a view
(Explorer), a map (MapView, MapLabels) and panels (TenderViews). Reviewers write the
same tables as the loads, in other sessions. The database is the only thing shared:
there is no queue and no message bus.

`PROJECT.json` lists every component with its status and every hazard at its line.

## 2. Modules

| Module | Models | An action is |
|---|---|---|
| `FactReview` | one document's rows, parser runs, reviewers | one SQL statement with its trigger |
| `ReviewLedger` | what review promises of a claim: offered, decided once, replaced only with a trace | the abstract step `FactReview` implements |
| `ReviewDesk` | sessions over a queue, the loader beside them | one read, one key or one decision |
| `ScanFacts` | facts of scans while their words are filed | one SQL statement |
| `CagReading`, `PlaceNames`, `NoticeReading` | what a page, a name, a notice or a listing's row is read as | one more item, word or strip of the input; the reading is a function of it |
| `Mentions` | loads of bodies and places, reviewers | one statement group between locks, commit |
| `AdminUnits` | directory and map imports | one unit under its savepoint |
| `LedgerRead` | requests, the client's queue, the transaction on the one connection | one statement answered, with what its issuer does before the next answer can arrive |
| `LedgerVersions` | loads, versions, units, answers given | open, write, commit, fail, decide, serve |
| `Migrator` | operators, their checkouts, the schema | one statement |
| `ResourceCache` | cache and panels | one task of the browser's event loop with its microtasks |
| `Geography`, `Explorer` | the places by two orders; the view and the address | one answer heard or one thing clicked |
| `SearchDialog` | the search box | one event |
| `MapView`, `MapLabels` | the canvas and its binder; the names | one event; one frame or tick |
| `TenderViews` | what is counted, listed and shown | one answer, or one change of the ledger or the deployment |
| `TenderLedger` | sweeps, runs, loads, reviewers, resolver | one statement, or the statements of a transaction nobody else can see between |
| `DistrictPlacing` | the resolver's rules beside the directory's replacement | one statement |
| `Freshness` | sweeps and the check over them | one statement |
| `NoticeCollection` | an agency's listing, the collector, the raw store, artefacts, sightings, runs | one request answered, one file operation or one statement |
| `AgencyRun` | the rest of that run: documents, pages, and what OCR engines said of them | the same, beside the steps of `NoticeCollection` |
| `BoundedFetch`, `Robots` | fetches under their timers against any host; what a policy permits | one event of the network or of a timer |
| `FigureLinks`, `Promotion`, `CorrectionIntake` | the linker; the copy; the inbox | one statement |
| `FactReviewProofs`, `LedgerProofs`, `TenderLedgerProofs`, `AgencyRunProofs`, `PartsProofs`, `SiteProofs`, `PromotionProofs` | | theorems |
| `Inductions` | | lemmas on least and greatest numbers and on what is computed step by step |
| `MC*` | the small instances TLC checks | |

`AgencyRun` extends `NoticeCollection`, `Explorer` extends `Geography`, `BoundedFetch`
extends `Robots`, and `FactReview` implements `ReviewLedger`. `MCLedger`,
`MCCollection`, `MCParts` and `MCSite` put modules that share no state side by side:
their first state chooses which of them a behaviour is about, the others stay as they
begin. `PROJECT.json` "map" gives the source lines of every definition. Definitions named
`X_Something` are mutants of `X`: a plausible slip in that code, which makes the
property it belongs to fail.

**FactReview.** `fact` is `document_fact` by row id, `past` the history the trigger
of 0009 writes. `StartLoad` is the one SELECT of a run (`heldByIdentity`): rows come
back unordered and the last row of an identity is the one held, hence the choice of
`HeldByIdentity`. `Measure`, `Restamp` and `Insert` are the statements `reconcile`
and `insertCandidate` issue for one candidate, `Retire` is the closing DELETE, and
`Crash` is a killed process or a statement that throws: nothing is undone, since no
transaction was open. `RecordDecision` carries the guard of its UPDATE; `Revise` may
come from a screen that was shown (`ReadForRevision`) or from ids on the command line
(`ReviseNamed`). `Overlap` says whether anyone decides while a run is in progress.

**ReviewDesk.** `session` is a process of the command: its options, the claimed
amounts and the queue as it read them, and the place in it. `SelfCheck` is the
partition of a candidate by its own sentence; `ClaimedByPage` the amounts any
undecided or decided fact of the page states. A page of lines is accepted whole with
one key, with or without flagged lines. `ReloadCandidate` is the loader
bringing a row in or withdrawing an undecided one. A queue is what matches in the order of
the reports (`Queued`), cut (`FirstOf`) and filtered (`Among`); `NamesASet` tells the
commands that name their candidates and narrow them by nothing else.

**CagReading, PlaceNames, NoticeReading.** The input is built mark by mark so that
every page of a few items (every run and sentence of a few words, every notice of a
few strips) is a state; what the code reads off it is an operator. A character or a
word is its class; the regular expressions are kept as positions in a sequence. What
is compared with the reading is the page itself: `FiguresAreAsPrinted` reads the page
whole where the code joins, cleans and splits it first; `PlacesAreUnmistakable` and
`DepartmentsAreWhole` are stated over the words as they stand; `DatesAreCertain` asks
what else the printed date could mean; `DamagedIsUnread` what was typed before white
space fell into it. A listing's row is checked the same way (`RowsAreReadAsPrinted`).

**ScanFacts.** `inked` is how many words each reading has so far: they are inserted one by
one in autocommit. `facts` is a run: `ReadScans`, `ReadScanWords` and `ReadHeldFacts`
are three statements, `LoadFact` and `RetireFacts` what it writes. `parser` tells a
notice's reader from a report's, which take legibility from different words.

**Mentions.** A load reads what is confirmed, ensures the bodies (waiting for another
load that holds the same key), writes mentions, reads what is there and withdraws
what no longer follows, all before one COMMIT. `earned` remembers every pair a
decision ever agreed to; `fresh` whether nobody decided beside the load.

**AdminUnits.** `unit` is `admin_unit`. `LoadState` is the directory's upsert,
`IngestOne` a relation with its claim of a directory unit and its parent by the
shapes held; `StartWalk` and `WalkOn` are an operator walking down the levels.

**LedgerRead.** `queue` is node-postgres's own queue. `oneAtATime` issues a query
when the one before it has settled, so an answer and the next query are one step.
`Watermark` fixes the snapshot (REPEATABLE READ). A handler that has failed leaves
queries behind (`Behind`): they are issued after the ROLLBACK is queued, and after
the fourth the connection is already another request's.

**LedgerVersions.** A read is atomic here, which LedgerRead justifies. A
transactional load publishes its id and its rows together; the others publish the id
when they open. Loads overlap as they like: nothing in the code keeps an OSM, LGD or
CAG load from another. `MayOpen` is the one exception, the sweeps' advisory lock
(`advisory-lock.ts`), held by the session and lost with it; `Writes` says that sweeps
write tenders and nothing else does. `Decide` changes a unit's content and leaves its
version, as `decide.ts` and `place.ts` do. An answer remembers which loads were under way
when it was read, for the properties alone.

**Migrator.** A checkout is a function from file names to texts; a name is its place in
the order of all names, so that two checkouts may hold two names of one prefix, and
`MisnamedIn` says which checkouts the check of names refuses. Each file is one
transaction; the pending ones are decided on a read made before the first. The
record's unique key is what two operators meet at.

**ResourceCache.** The continuations of a promise run before the next task, so an
answer, the settling of the entry, the rise of the watermark, the dropping of older
entries and the telling of panels are one step. `due` is an effect React owes a
panel after a render. `Behind` says whether the answer to a reload may itself be
old. Once only: an entry below the watermark is asked for again, and that second
answer is taken as it comes.

**Explorer, Geography.** The view and the address are records; `Patch` is every
setter, `Reconcile` what the parser does on the way in. Places are filed by
`parent_id` and lie in each other by containment, and the two need not agree.

**MapView, MapLabels.** `phase` and `cancelled` are the effect's life per mount,
`snapshot` the binder's memory, `data` and `numbers` what the renderer holds; whether
it keeps a feature's numbers over new data is a choice of the first state. The
arbiter's clocks are counted in ticks up to the thresholds it compares them with. Names
are tried in the order of `ByPriority`, the foremost first, and each is drawn that `Fits`
what is drawn already (`Fill`).

**TenderViews.** The rows, the hour, the portals' windows and the deployment change under
a page that holds answers it was given earlier; `Publishable` is asked again at each
answer, and a list keeps which deployment and grants it was answered under. A window is
the row of `tender_collection_window`: its last success, and whether the portal was
checked later than that. `SweepBegins` updates a window there is (`gepnic/load.ts:483-490`),
`SweepSucceeds` is the only insert (`load.ts:293-308`), and `CollectionStatusOf` and
`NeverChecked` are the page's two readings of it. `Total` adds counts up as the number of
what is counted under any head.

**TenderLedger.** `mine` and `filed` are what an open transaction has written: other
sessions wait for its rows (`Locked`) and see them at `CommitLoad`. A tender the
database refuses loses its savepoint only (`Reject`). `OpenRun`, the touch of
`BeginLoad`, `CompleteRun` and the failure recorded by `LoadFails` run outside the
transaction, which is why a run and its rows can disagree. A page is named by what
it says of the tender, standing for the hash of its bytes; a run and its
`dataset_version` are one number; portals are visited in any order; the placement
rules are a choice among their results (`DistrictPlacing` has them). `last_seen`, the
counts of unresolved and erring details, the refilling of details and the fields of 0048,
which the upsert overwrites and the trigger neither compares nor files, are left out.

**DistrictPlacing.** A directory row is one of a file's, in one spelling of the state.
`ReadSpellings` and `ReadRows` are the resolver's two statements, `DeleteOld` to
`CommitDirectory` the operator's transaction. `OneOperator` says whether two
replacements may overlap.

**Freshness.** Times are days; an attempt's row is opened, ends or stays `running` when
its collector dies. The check reads windows, the last sweep and the stuck runs apart.

**NoticeCollection.** A hash is what it hashes: a notice's is its content, a listing
page's is the rows it shows. `at` is what a collector's process holds: the set read
once at the start (`held`), what it has fetched, the page and its rows, the count
that may stop it (`fresh`). `kept` and `whole` tell a file that exists from one that
is all there: a directory opens the file and then fills it, a bucket takes it in one.
`Look` verifies what is found and `Stop` is what the program throws at, among it a
file cut off in the middle, which every later run refuses to overwrite. `Throw` is
anything the host, store or database fails at an await, `LoseNotice` a notice the
collector counts as failed and goes past, `Die` a killed process, whose run row
stays open. `faults` and `overtaken` are known to no program: they count what has
gone wrong, and say whether some run shared the listing with another run or with a
publication, or read part of it; the properties that need a quiet listing say so by
them.

**AgencyRun.** `job` is what a run does after the listing is read. `LeaveNotice`,
`LoadDocument`, `LoadPage` and `PageRefused` are `documents.ts`, one statement at a
time and outside any transaction. `Send` is a whole request to the OCR service, which
answers for every page and engine with a reading or a refusal; the filing of each is
two or three statements (`InsertReading`, `InsertWords`, `WithdrawRefusal`;
`ReplaceRefusal`, `InsertRefusal`).

**BoundedFetch.** Time is ticks; it does not pass over a timer that is due, and a timer
and an answer of one tick come in either order. A host answers anything, trickles,
redirects or says nothing. `Caller`s are the agency's polite client (one queue, one
policy per host, shared while it is asked for), a portal's session, the report, budget
and map clients; the latter waits for a slot.

**FigureLinks, Promotion, CorrectionIntake.** The linker clears and writes in
autocommit beside reviewers and the parser; a death is a step. A promotion reads the
source statement by statement, plans, and writes in one transaction whose unique keys
keep others out (`lock`). A post is counted and then stored by one function of the
database, in two steps other posts come between.

## 3. What the runs show

| Run | Instance | Shows |
|---|---|---|
| `review_overlap` | two identities, two parser versions, one run at a time, one reviewer, deciding at any moment | `OneIdentityOneRow`, `Reconciled` and `TrailIsComplete` survive every interleaving and death |
| `review_alone` | the same, decisions between runs only | `DecisionIsKept`, `VersionAsReviewed`; the rows implement `ReviewLedger` (`ImplementsLedger`) |
| `review_decision_lost` | as `review_overlap` | **violated**: `DecisionIsKept`. A row decided after the run read it is deleted with its history |
| `ledger` | two requests of four queries beside two loads; two loads, one of each kind, and two sweeps, three versions, a unit of either and a decision; two operators, six checkouts; six relations and a directory of one state; three names, two loads | `OneState`, `EveryRequestEnds`; `NamesNothingNewer`, `OnlyLoadsUnderWayDiffer`, `SweepsGoForward`; `SchemaIsAsRecorded`; `PlacesAreSound`; `MentionsAgree` |
| `ledger_read_stray` | two requests of five queries | **violated**: `FailureIsItsOwn`. The leftovers of a failed handler abort the next request |
| `ledger_versions_decided` | two sweeps, decisions | **violated**: `CacheKey`. A decision changes what one version answers |
| `resource_page` | two URLs, two panels, a cache of one or two, one load, two requests in flight | `AnswersAreShared` (one flight per URL, one answer per URL on a page, a late failure removes nobody else's good answer), `EveryPanelIsAnswered` |
| `collection` | one collector, two runs, three rows listed and one to be published, a page of two, a directory and a bucket, one fault; two sweepers, one reviewer, two portals, one tender of three readings, three runs and a decision or two of each; sweeps and checks over four days; two scans of three words and one, two runs of facts | `EvidenceIsHeld`, `ListingIsCovered`, `PagesAreAccountedFor`; `PlacementHasOneAuthor`, `EveryChangeIsFiled`, `SweepsAreToldTruly`; `QuietMeansCollected`; `ScansAreMeasured` |
| `tender_page` | one sweeper, three runs | **violated**: `VersionCitesItsPage`. The second and later superseded readings cite the first page |
| `parts` | a report that begins with two figures of one identity, a third to come, promoted by two operators; four figures in two halves; two callers against any host; three posts, two instances, a ceiling of one; six candidates, two desks; every page of four items; every notice of four strips, some six thousand dates and rows; every pair of runs of three words and two sentences of three; two files of a directory, five tenders | `CarriesOneState`, `TargetTrailIsKept`; `FiguresAreCountedOnce`; `FetchesKeepWithin`, `EveryErrandEnds`; `InboxHolds`; `ReviewsAreWarranted`; `PagesAreReadAsPrinted`; `NoticesAreReadAsPrinted`; `NamesAreRead`; `TendersArePlacedSoundly` |
| `fetch_refused` | the fetches of `parts` | **violated**: `RefusedIsNeverFetched`. A permitted page that redirects to a refused one is followed |
| `site` | two terms; five places of two states, five addresses; three layers of areas, two mounts; three names, three cameras; two portals, two tenders, two hours, a success current for the hour it was in | `SearchShowsItsTerm`; `AddressRestoresView`; `MapShowsItsInput`; `NamesSettleApart`; `TendersAreToldTruly` |

The five violated ones are `findings` in `PROJECT.json`, each beside the sentence of
the repository it disagrees with.

Several properties are conjunctions of named parts, each with a comment of its own:
`AnswersAreShared`, `ListingIsCovered` (`EarlyStopMissesNothing`, `BackfillCovers`),
`PagesAreAccountedFor` (`NothingIsHalfMade`, `AbsenceIsStated`), `PlacementHasOneAuthor`
(`PlacementIsOneFact`, `ManualIsKept`), `SweepsAreToldTruly` (`RunSaysWhatHappened`,
`WindowIsHonest`), `FetchesKeepWithin` (`EndsInTime`, `HostIsHeeded`), `InboxHolds`
(`CeilingNearlyHolds`, `EveryReportIsKept`), `TendersAreToldTruly`, `MentionsAgree`,
`ReviewsAreWarranted`, and the readings. Each part that a slip could break on its own has
its own mutant.

**Bounds, and why they are enough.** Two parser versions, one reading what the other
does not, give every case of reconciliation: insert, measure, restamp, retire, and
back; three row ids let one identity be withdrawn and offered again. One reviewer
already acts on any row at any time; what two could add is the order of two
decisions, which the ledger does not distinguish from one person's two. Four
queries are the most whose leftovers stay inside the failed request (the fifth is
the violated run). Three versions let a load fail between two that commit, and two
loads beside two sweeps let any of them open first and commit last. Six checkouts are
three as the repository grows, one with an edited text, and a branch whose second file has
another name of the same prefix, alone and merged. Six relations are a country, a state, two districts of which
one carries only a code of another register, a taluka and a town that hold a point of
each other; six units and four imports let each order of directory and map happen. Three
names (a department, a government, a district, each correctable) and two loads are what
two overlapping loads and a decision between their statements need. A cache of one
forces eviction of what is in flight, a cache of two holds both URLs; one rise of the
watermark is what sends a second request. Three runs let a tender be inserted,
change, and change back, or a load fail between two; two decisions let one replace
the other. Two agency runs are an early stop trusting what one before it collected, and
a second run meeting what the first left when it died; two pages let a row move from
one to the other while they are read; documents that serve one content, and rows
that have a document of their own and share a fifth, give every way of having a notice already; a directory and a
bucket let a notice be held in a store this run does not read. One collector is the
most that fits: two processes refusing one page, or creating one file, are in the
model and not in this instance, and `EvidenceIsAlwaysHeld` is proved for any number. A
scan of three words whose first is least sure and of whose figure a word comes last lets
each order of filing and reading be told apart; a second reading has one word. Three
figures and three edits let a report be edited between any two reads of a promotion.
Two of the figures are of one identity, so what is matched by counting is told apart from
what is matched by name.
Four figures, two to a half, and two values let a pair be ambiguous on either side.
Headers, idle and total deadlines of one, one and two ticks can each be the first to
fire; two attempts and one redirect let each be the last; Retry-After is inside or
beyond its cap. A ceiling of one with three posts on two instances overshoots. Six
candidates are two on a page that agree, one that is claimed by another's sentence, one
without a figure, one beyond a line of the page, and a place. Four items, strips or
words join any two of the marks with two others around or between them; fifteen text
items are those whose joining, cleaning or splitting the code treats apart. Dates take each end of
a month, a leap and a common February, the years a clock of two digits changes, and
each hour of the clock. Two files with a state spelt two ways, three replacements and
two passes put a resolver on either side of any. Two mounts let an effect be cancelled
by React's strict mode; three names of which one touches both others from afar let a
cooldown free one while it holds another. Bounds are guards on counters (`Max...`,
`LastPage`, `MaxActs`, `LastHour`, `Ceiling`, `Mounts`, `Lines`, `Hour`), so a run stops by exhausting them and not by losing
cases before.

**Deadlock** is checked by the runs of `review_*`, `resource_page` and `tender_page`.
The others say `CHECK_DEADLOCK FALSE`, because what they model comes to an end:
requests all answered and operators done (`ledger*`), runs, rows and days used up
(`collection`), pages printed, posts decided, errands over (`parts`), questions asked
(`site`). That nobody waits on another for ever where that could be is `EveryRequestEnds`,
`EveryErrandEnds` and `EveryPanelIsAnswered`.

**Fairness.** `LedgerRead`: the database answers what it is sent (`WF Respond`) and
the pool lends a free connection (`WF Lend`); no fairness on loads or arrivals.
`ResourceCache`: a request sent is answered or fails, each on its own
(`fetch` settles), and React runs each effect it owes; nothing makes anyone navigate
or load. `BoundedFetch`: timers fire, promises settle, and what waits in the polite
queue is sent (`WF Collect`); the host owes nothing, and that errands end is the work
of the deadlines. Weak fairness is enough: none of these steps is disabled again by
others once it may be taken for good. The other modules promise no progress and state
no fairness.

## 4. What is proved

TLAPS checks 42 theorems, each for every value of the constants. What they assume of the
constants are the `ASSUME`s of the modules, which TLC evaluates on each instance: shapes
of the parameters, that what stands for no value is none of the values, and the few facts
about the world named below. The invariants that make them go through were model-checked
first, on the instance of their run; the number is the states they were checked on.

`FactReviewProofs`
- `TypeCorrect`: `TypeOK`, which also says every decision is one the table's CHECKs
  accept and every row id came from the sequence.
- `TrailIsKept`: `TrailIsComplete`, without any assumption on overlap: no step but
  `Write` touches a decision, and `Write` files what it replaces.
- `DecisionsAreKept`, `VersionsAreKept`: from `~Overlap`. The invariant is
  `HeldIsCurrent`: what a run holds of a row still says whether the row is decided.
  Without it `Retire` and `Restamp` act on memory, and TLC shows what then happens.
- `OneRowPerIdentity`, `FinishedRunReconciles`: from
  `OneLoader`, with reviewers free to decide at any moment. The invariant is
  `ReviewInv`: one row per identity, and the run on track (`OnTrack`), which is that
  it knows every row on file, that every row it has passed is written as its version
  reads it, and that every identity it has passed is on file. `Reconciled` alone is not
  inductive: it says nothing until the run is done.
- `RowsImplementTheLedger`: from `OneLoader` and `~Overlap`, `FactReview` implements
  `ReviewLedger` claim by claim; every statement is a step of the ledger or a stutter.
- `DesksDecideSoundly`: `ReviewsAreWarranted`. The invariant is `DesksInv` (72 748):
  what a session claims of a page is on file there, what it offers at a glance is
  warranted by the claims it read, and of a set it was given by name whatever is
  undecided is still to be decided or was reported. It needs what a queue is: each of
  its set once (`QueuedIs`), cut and filtered without loss (`FirstOfIs`, `AmongIs`).

`LedgerProofs`
- `AnswersNameNothingNewer`: for every mixture and overlap of loads. The invariant is
  `Sound`: the rows on file are of versions already visible, and only a transaction hides
  rows, its own. `VersionsTellAnswersApart` (`OnlyLoadsUnderWayDiffer`) needs two more:
  `Dealt`, that ids in use have been dealt, and `Covered`, that whatever has changed since
  an answer was read was changed by a load under way then (`Excused`), or by one that
  opened later and has an id the answer does not cover. `TendersGoForward` (`SweepsGoForward`): `SweptInOrder`, of
  the one sweep that can be open no tender is of a later version.
  None of the four assumes anything of the loads. `TypeCorrect` is the typing of the module.
- `ResponsesAreOfOneState` (and `ReadTypes`): `OneState`. `ReadInv` says of each query
  queued whose it is, and that between BEGIN and COMMIT the connection answers from the
  state the first query fixed, through failures and queries left behind.
- `SchemaStaysAsRecorded`: for any number of operators at once. `MigratorInv`: what an
  operator is about to run is what its checkout says, what the schema was made by is what
  is recorded, in order.
- `PlacesStaySound`: `PlacesAreSound`, assuming that an answer lies within what was asked
  for (`AnswersLieWithin`) and that a foreign register's code names no place held
  (`ForeignCodesNameNothing`). `UnitsInv` (4 765): a unit is the directory's or its
  relation's, what a load stores keeps its place, and it was settled in the smallest shape.
- `MentionsAgreeWithDecisions`: `MentionsAgree`, with `MentionsInv`.

`TenderLedgerProofs`
- One chain of invariants: `SweepInv` (76 005; the theorem `LedgerIsInOrder`: types, one
  holder of the lock, numbers as they come), on it `PlacementInv` (521 450) for
  `PlacementsHaveOneAuthor`, `FilingInv` for `ChangesAreFiled`, `RunsInv` (2 116 430 with
  the one before) for `SweepsToldTruly`: what an open transaction has written is told
  from what is committed, and a run's counts from both.
- `QuietIsTrue`: `QuietMeansCollected` of `Freshness`, with `WatchInv` (199 874).

`AgencyRunProofs`
- `EvidenceIsAlwaysHeld`: with no assumption on the constants at all. The invariant is
  `Evidence`: a collector about to write an artefact's row has all of its bytes in the
  store that the row will name. That is what fails if `put` believes what it finds
  (`Look_Trusting`); that nothing ever takes bytes away does the rest.
- `EveryPageIsAccountedFor`: `PagesInv` (1 078 526; two collectors 1 701 412): what is half
  made is some run's that is at it, or a fault is on record; what a run has passed is read
  or refused.
- `WalksLeaveNothing`: `ListingIsCovered`. `WalkInv`: what lies behind a collector in its
  range was collected, lost and counted, or overtaken. `QuietInv` for the early stop: on a
  listing nobody touched, rows below one whose notice an earlier run held were in that
  run's range (1 317 182, 2 218 002 and 5 277 559 on three instances).

`PartsProofs`
- `InboxLosesNothing`: `InboxHolds` for any number of instances; `IntakeInv` (73 580).
- `FiguresAreJoinedRightly`: from `OneLinker`; `LinksInv` (61 664).
- `FetchesAreBounded`: `FetchesKeepWithin`; `FetchInv` (45 283): what is left of the
  allowance covers what is left to do. `PolicyIsReadAsWritten`: reading `robots.txt` line
  by line comes to what its groups say, by induction over the lines of any file.
- `ScansStayMeasured`: `ScansAreMeasured`; `ScansInv` (87 516): each fact a run is past has
  landed, of the rest it remembers what the rows say, and more words are never surer.
- `TendersPlacedSoundly`: from `OneOperator`; `PlacingInv` (1 492): what the resolver goes by
  is all of one file's rows of a state, or none.
- `NamesAreReadRightly`: `NamesAreRead`, for runs, sentences and gazetteers of any size. The
  steps only say that runs and sentences are of words; the work is induction over each
  recursive function of the reading: `StartOfIs` and `FirstMentionIs` word by word and run
  by run, `TriedInTurn` entry by entry (`IsTried`: what is claimed in a sentence was claimed
  by entries tried already, and what is offered for it is among the claims), `PlacesInAre`
  sentence by sentence. It does not need the longest to be tried first: that decides which
  of two overlapping names is read, not that only one is.

`SiteProofs`
- `ListIsForItsTerm` (`DialogInv`), `AddressIsTheView` (`ExplorerInv`), `MapIsOfItsInput`
  (`MapInv`), `TendersToldTruly` and its half `PageClaimsNoMore` (`ViewsInv`), on the 612 972 states of the run. The last
  needs that counting by class makes up the whole (`ClassesMakeUp`), and that a district
  has one parent (`DistrictsAssumption`).
- `NamesComeToRest`: `NamesSettleApart`, whatever order names are tried in. `LabelsInv`
  (57 535): nodes show what the arbiter holds visible, and while the camera rests each name
  will have had its window when the timer is out, or nothing ever gave way.

- `PanelsShareAnswers`: `AnswersAreShared`. `CacheInv` (733 699): an entry that waits waits
  for a request of its URL, while nothing is pushed out every request in flight is waited
  for, and a panel with its effect run and nothing awaited holds what the cache says.

`PromotionProofs`
- `ReportsAreCarriedWhole` (`CarriesOneState`) and `DecisionsAreKept` (`TargetTrailIsKept`),
  from `Apart`, whatever figures the source begins with, for each that shares its identity
  with none. `PromotionInv` (1 454 683: two figures of one identity and two of others, four
  edits) says of each read what the source, which only goes forward
  (`Grows`), may have become since: its ids are numbered as they come, and a decision is
  superseded only by a filed one. A trail read after its figures agrees with them but for decisions filed in
  between, which the counts of a promotion, or the plan made again of a refresh, would
  show. For a refresh it says that the target holds nothing its source never said; so a
  plan made from two databases read in turn overwrites no decision that is not also filed.
  `SettledIs`: an empty plan means equal figures, decisions, pasts and links, key by key;
  `AppliedIs`: what a plan of a figure does to it.
- `NoticesAreReadRightly`: `NoticesAreReadAsPrinted`, for layouts whose strips are any texts,
  and for any dates and rows. The steps (`NoticesInv`) only say that a page is a text and a
  printed date one of its kind; the rest is about what is read. Two labels that end before one
  date end at one place (`OneFormDate`); a text without its white space begins with what had
  none (`UnspacedIs`, mark by mark); a figure cut after a comma cannot be grouped where what
  was typed is (`CutIsNotGrouped`): its last comma would have to be the last of the whole.

`Inductions` has the lemmas on least and greatest numbers and on functions that say how to
go on from the last step. `AmongIs`, `FillIs` (names tried in order), `WithoutIs` (entries
dropped in order), the reading of `robots.txt` and that of names and of notices are proved by
it, for inputs of any length.

The hypotheses are not decoration; without them the statements are false:
- `~Overlap`: `review_decision_lost`; and a run restates the version of a row decided
  meanwhile (`facts-load.ts:179`, against 176-177).
- `OneLoader`: two runs of one document both insert a figure (`facts-load.ts:346`,
  against 315 and 88-90).
- `OneLinker`: of two linkers one clears what the other has written.
- `OneOperator`: overlapping `replaceDirectory` leave a fragment as the newest file.
- `ForeignCodesNameNothing`: two registers number alike, and the wrong place is claimed.

**Only model-checked.** Liveness (`EveryRequestEnds`, `EveryErrandEnds`,
`EveryPanelIsAnswered`), which is out of the provers' reach, as `ENABLED` is. Of safety:
`PagesAreReadAsPrinted`: it is about functions of a whole page, stated through library folds
and selections on which the provers can do no induction; TLC compares the two readings on
every input up to the bound. That an agency run
ends is neither checked nor claimed: it waits on hosts and services.

## 5. Known divergences without a run

Met while modelling: the code, beside a comment or a test it disagrees with or a
reader's expectation it does not meet. Those with a name in brackets are stated in the
module named, and TLC shows them false there; no run is spent on them.

Review and loads
- A rejected figure whose text a later parser reads otherwise is another identity: it comes
  back unverified, with no link to the rejection (`facts-load.ts:60-71`).
- `reviseDecision` replaces whatever decision is there, which may not be the one its
  reviewer saw (`decide.ts:159`).
- The review terminal's `arg()` splits on `=` and cuts a `--note` that contains one;
  a page longer than nine lines cannot flag its tenth.
- A fact read while its reading's words are being filed, or whose filing died, keeps
  for good a box of the words there were and an overstated confidence (`reconcile`
  writes a box only where there is none); `ScansAreMeasured` says what does hold.
- Two overlapping loads of names: the one that read first and commits last restores a
  mention under a name already corrected, until the next load. A corrected value that
  names a taluka two districts share is loaded under whichever the query lists last.
- `places-load.ts:110` loads only documents filed directly under the state, against
  its head (8-19).
- `osm/load.ts`: two units that reach into each other, with no shallower shape held,
  become each other's parent, against `geography.repository.ts:298-300`; a relation
  loaded before it carries its code leaves its unit held twice.
- A page being read twice (`ocr/cli.ts:15-16`, "not sent to that engine twice"): one
  that some engine has not read is sent to all of them.
- A death between a document and its last page (`cag/load.ts`), or between a reading and
  its words (`ocr/read-pages.ts:87-92`), leaves a row no later run completes.

Reading
- `trimToName` drops an initial followed by a joiner. A rate at the end of its sentence
  is refused its denominator. A figure's box also takes the item that holds the white
  space after it. `thresholdPhrase` looks at the first statement only, and not at
  amounts whose mark lost its glyph.
- `places.ts:101-103`, "not also read as a shorter place inside it", against :127
  [`NeverInsideALongerName`, PlaceNames]. "and General" restarts a department
  (`bodies.ts:150`).
- `notice-facts.ts:231`: the look-behind takes one mark of white space, so a wrapped
  "Financial" still leaves "Bid Opening Date" to be read on its own, against 220-224.
  White space before the first comma of an amount makes a smaller one, against 102-110.
  Two patterns lack the `d` flag, so the place of a deposit or a fee covers its label
  too, against 157-163. "Last date" runs over another label of its line. A reference
  with white space before the stroke after an inner year is cut. A day-first date no
  calendar has is accepted without a value.

Ledger and site
- "Every load advances it" (`ledger.ts:18-19`): of two loads that overlap, the one that
  opened first may commit last, below the watermark; and a decision opens no version at
  all (`ledger_versions_decided`). `OnlyLoadsUnderWayDiffer` is what remains true.
- Two loads of one thing by two operators (`osm/load.ts:78`, lgd, cag) may put it back to
  what the earlier of them read; only tenders have a lock (`SweepsGoForward`).
- A portal that was checked and never succeeded would be "failing" and be given counts
  (`tender.repository.ts:121`, `tenders.tsx:215-221`, against `tenders.tsx:214`). The loader
  keeps that from being read: a window is inserted only with a success (`gepnic/load.ts:293-308`)
  and an attempt updates one there is (483-490). The page's own rule would not catch it.
- A page held over a deployment shows what an earlier one granted until it asks again.
- A department's name longer than 200 characters is dropped on reload
  (`explorer-url.ts:99-102`); nothing bounds the names shown. An address with an empty
  `state=` opens as a state no place has and is written back without it.
- A tender's fields of 0048 (`detail_fields`) are overwritten by a load and neither compared
  nor filed by the trigger (0038:68-80).
- A reload answered before a rise of the watermark is kept beside newer panels
  [`PageIsOneVersion`, ResourceCache].
- The inbox's ceiling is passed by as many as count side by side
  (`CeilingNearlyHolds`), and taking a decided report up again overwrites its note and
  leaves who decided it [`NoteIsItsReviewers`, CorrectionIntake].
- Overlapping promotions (`Apart = FALSE`) can publish a figure twice, or lose a decision
  unfiled [`PublishedAsOften`, `TargetTrailIsKept`, Promotion].
- Figures that share an identity are matched in id order, "the order is the same"
  (`promote-refresh.ts:20-25`). It is not once one of them is retired: which of them
  `heldByIdentity` keeps is left to the order rows are read in (`facts-load.ts:207-212`).
  Where the earlier of two goes and the later is verified, the target publishes it twice
  [`PublishedAsOften`, Promotion, with `FirstFigures = <<a, a>>`]. `CarriesOneState` and
  `TargetTrailIsKept` therefore speak of the others, beside such groups.
- Overlapping `replaceDirectory` leave a fragment as the newest file
  (`pincode/load.ts:26`, against 18-21; `OneOperator = FALSE`); `readDirectoryFromApi`
  leaves gaps where a server caps its pages, and stops after one page when `total` is
  missing; a file that spells the state two ways, replaced between the resolver's two
  statements, gives a false unanimity (`resolve.ts:349-371`).
- A load that throws ends the whole sweep (`gepnic/cli.ts:304`, against 138-140); two
  reviewers may place one tender at once, and "cannot be placed" is refused on a read
  made before the transaction (`gepnic/place.ts:101`, 128); a hint and a placement may
  disagree (`review.ts:75-77`).
- "everything after it was collected before" (`maharashtra/collect.ts:19-21`) is not so
  after a crash, a lost notice or a partial range; nor where rows share a notice: a page
  that shows only a notice this same run brought in with the page before it counts as old,
  and the pages after it are not read (219-228, 248). `EarlyStopMissesNothing` says what
  remains true, of rows that have a notice each (`EveryRowHasItsOwn`). A failed run's counts are "not zeroed" (`ingestion-run.ts:92-98`), and
  `maharashtra/cli.ts:256` hands `failRun` none. A file cut off in the middle stops
  every later run that meets its bytes.
- A running sweep touches `last_checked_at` at its start and is "failing" until its end;
  a refused portal never touches it, and one never collected has no window.
- The unplaced count ignores the department the unplaced list is filtered by
  (`overview/route.ts:51`, `tenders.tsx:431`); an overview that is loading counts as an
  empty one; the scope's label uses a detail that may not have come.
- "Up one level" jumps to the state while the detail is not held; the state's crumb leads
  to India; searching a state that has a boundary writes it as a unit; an address
  naming a version the ledger reaches later becomes a pin on reload.
- A failed search leaves the results of the term before [`SearchShowsItsTerm` says so].
- Numbers stay on a renderer that keeps them over new data [`RefusedKeepsNoNumbers`,
  MapView]; any error of the renderer replaces the map for good; the list is by
  containment and the shapes by `parent_id` (`level/route.ts:10-14`); a name moved or
  reworded gets a node the arbiter does not know, and a selected one may stay undrawn
  [`SelectionIsDrawn`, MapLabels].
- Searches apply their LIMIT before the licence's filter.

## 6. Not modelled

Rendering and wording (the pages' components beyond the state they keep), the portals' HTML
parsers (`gepnic/landing.ts`, `detail.ts`), SQL that only reads and formats (the
repositories' rows, budget figures, holdings), geometry (projection, simplification,
containment as such), the OCR engines, PDF internals below pdf.js's text items, type and
schema packages (`contracts`, `errors`, `neutrality`, `observability`, `architecture`),
money's formatting, configuration, workflows, and the directories that hold no code yet.
Within modelled parts, what is left out is in the component's note in `PROJECT.json`.

## 7. Plan

The model covers the parts that keep state, and every safety property of them that a run
checks is proved but for one:

- `CagReading`: its reading as recursive functions of the page (as `PlaceNames`,
  `NoticeReading`, `Robots` and `MapLabels` have theirs), so that the induction of
  `Inductions` applies; then the properties for pages of any length.
