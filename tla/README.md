# xret-data: a TLA+ verification project

xret-data keeps market data in a local store: canonical Parquet month files
under a data directory, and a SQLite catalog under a state directory that says
which files exist, which intervals are covered and which provider a dataset
belongs to. Several processes may synchronise, scan and repair one store at the
same time. This directory holds TLA+ modules of that system, TLC
configurations, and theorems checked by TLAPS.

Paths below are relative to `src/packages/xret-data/src/xret/data/`.

## 1. Inventory

| Component | State it keeps | Operations | Interacts through | What makes it correct |
|---|---|---|---|---|
| Bar sync (`dataset.py`) | none between calls; a call holds a plan, observations, prepared files | `sync`, `fetch` | dataset lock, catalog gate, provider call, files, catalog | rows never lost, available rows never rewritten, success means indexed, failures clean up and are reported |
| Local scan (`dataset.py`, `storage/local_read.py`) | none | `scan`, `scan_partial` | read snapshot of the catalog, files | answers for one instant or raises |
| Catalog (`storage/catalog.py`) | datasets, lineage, ownership, coverage, files, runs, findings | transactions, `coverage_and_gaps`, `record_file`, `bind_source_lineage`, ... | SQLite | coverage is backed by files; one lineage; a commit is all or nothing |
| Month files (`storage/parquet.py`, `storage/paths.py`) | Parquet files, temporaries | prepare, publish, discard, clean up, classify | `os.replace`, directory walks | a month is replaced whole and keeps its rows |
| Maintenance (`storage/recovery.py`) | none | `validate`, `rebuild` | gate, files, catalog | derived facts follow from files alone |
| Locks (`storage/locking.py`) | one `flock` per instance | acquire with deadline, release | kernel | exclusion, no wait without end |
| Families (`open_interest.py`, `funding.py`, `reference.py`, `storage/family_parquet.py`) | as bar sync, plus contributor manifests | `sync`, `scan`, revision of months | as bar sync | ownership of intervals, revision replaces exactly what it certifies |
| Provider runtimes (`providers/*runtime.py`) | none | observe, resolve, validate | provider objects | only final rows; only what was observed is proven |
| CCXT adapters (`providers/ccxt/*`) | client cache, pacer | pagination, retry, market resolution | venue APIs | a page sequence proves what it claims, terminates |
| Live session (`live.py`, `providers/live_runtime.py`, `providers/ccxt/live.py`) | queues, tasks, clients, routes | enter, subscribe, iterate, exit | asyncio tasks | one failure, seen once; every client closed; no update lost silently |
| Time grid (`timeframe.py`), coverage algebra (`observation_coverage.py`, `storage/catalog.py:110-190`), fetch windows (`dataset.py:224-259`) | none | pure functions | | partition of time, equivalence to the per-bar meaning |
| Binding (`providers/discovery.py`, `market_data.py`) | a lazily resolved provider | `get` | threads | resolved once |

Hard behaviours: the lock is per dataset but the catalog is shared; the gate is
*not* held while the provider is asked, so a rebuild can run between plan and
publication; publication of several files is not atomic with the commit; a
commit can have an unknown outcome; a killed caller leaves files and
temporaries; readers take no lock.

The complete list of components with what is and is not modelled, and of the
hazards with their source lines, is in `PROJECT.json`.

## 2. Modules

Bars: several callers and one store.

| Module | Models |
|---|---|
| `StoreFacts` | the values of the store (month files, catalog) and the pure functions over them: merge, split by month, finality, coverage preference, the catalog transaction of a sync, the terminal-commit test, the catalog a rebuild derives |
| `BarSync` | `BarDataset.sync` by any number of callers, one action per step, with every handler, crashes and time; its properties and inductive invariant |
| `PublishedRows` | what readers are promised, without files, locks or calls; `BarSync` refines it |
| `BarStore` | `BarSync` with `maintenance.rebuild_catalog()` and the loss of the catalog |
| `LocalScan` | `BarStore` with a lock-free reader |
| `BarSyncProofs`, `SyncPromiseProofs`, `BarStoreProofs`, `LineageProofs`, `LocalScanProofs` | theorems about them |

Settled funding, reference bars, open interest: contributors and revisions.

| Module | Models |
|---|---|
| `FamilyFacts` | month files with contributor manifests, merge and revision, the checks that refuse them, replies and coverage per family, ownership, rebuild |
| `FamilySync` | one call of `sync` at a time on one dataset of any of the three families, with crashes, catalog loss and rebuilds; its properties |
| `FamilyInvariant`, `FamilySyncProofs` | the inductive invariant and the theorems |

Time: how a request becomes requests to a venue and the answers become coverage.

| Module | Models |
|---|---|
| `TimeGrid` | fixed and calendar grids (`timeframe.py`) |
| `Intervals` | coverage segments, gaps, fetch windows, month slices, what rows and windows prove (`storage/catalog.py`, `dataset.py`, `observation_coverage.py`) |
| `Paging` | the five page loops of the CCXT provider, retries, and the checks of the runtimes (`providers/ccxt/*pagination.py`, `client.py`, `providers/*runtime.py`) |
| `Backfill` | syncs of one dataset over these, against a venue that misbehaves; its properties |
| `SlotCoverage` | what coverage promises, instant by instant; `Backfill` refines it |
| `BackfillInvariant`, `BackfillProofs` | the inductive invariant (`DataInv`, `CallInv`, `BackedInv`, `PagesInv`, `TruthInv`, `DoneInv`, together `WholeInv`) and the theorems, with the lemmas about grids, intervals and pages |

Live updates.

| Module | Models |
|---|---|
| `CcxtLive` | the CCXT provider session: native clients, watching tasks, merge queue, shutdown |
| `LiveSession` | `CcxtLive` with the public session and its runtime around it: subscribing, the reader task, the consumer, leaving |
| `UpdateStream` | what the consumer of a live session is promised, without tasks, queues or clients; `LiveSession` refines it |
| `LiveInvariant`, `LiveSessionProofs` | four inductive invariants, one per concern (`ShapeInv`, `RoutesInv`, `StreamInv`, `LeakInv`), and the theorems |

`MCBarSync`, `MCBarStore`, `MCLocalScan`, `MCFamilySync`, `MCBackfill` and
`MCLiveSession` are the small instances.

The four groups meet where the code does. `BarSync` takes a provider's reply as
a set of proven slots and rows; `Backfill` shows how such a reply comes about
from pages, and that the interval arithmetic around it means what `StoreFacts`
says per slot. `FamilySync` leaves out what is the same as in `BarSync` and
keeps what is different. A live session neither reads nor writes the store
(`docs/guides/live-bars.md:63`).

### Bars: how state corresponds to the code

* A *slot* is one bar boundary; slot `s` is the bar `[s, s+1)`. Coverage, which
  the code stores as intervals, is a function of slots. `MonthOf` gives the
  month a bar starts in, the key of its file.
* `disk[k][m]` is the canonical file of month `m`: the provider named in its
  metadata and its rows. Its physical hash is modelled by its content, so
  comparing hashes is comparing contents.
* `temps[k]` is the set of months with a temporary beside their file.
* `catalog` is the database: coverage, file index (path to hash), lineage, run
  status; `exists` says whether the file is there. A run identifier is fresh in
  every call, so the status of each caller's current run is enough.
* `lock`, `gate`: the dataset locks and the catalog gate. A killed process loses
  both (`flock`).
* `clock` counts final bars: bars closed for at least `DEFAULT_FINALITY_GRACE`.
* `proc[p]` is the frame of a call: the gaps and lineage its plan read, the
  evidence instant, what the reply proves, the batch, prepared and published
  files. `faulted` is a history variable: datasets with a caller that was told
  to validate, or died, after publishing.

### Bars: how actions correspond to the code

`BarDataset.sync` (`dataset.py:430-805`) goes through `StartCall`,
`AcquireDatasetLock` (or `DatasetLockTimesOut`), `Plan` (phase 1 under the
gate), `Observe` / `RejectLineage`, `ProviderReplies` / `ObservationFails`,
`PrepareMonth` once per month, `EnterPublication` (gate), `PublishMonth` once
per file, `Commit`. The exceptions go to `Abandon` (handler of phase 2),
`PublicationRaises` (handlers of phase 3), `RecordFailedRun`,
`CommitUncertain` with `ResolveVisible` / `ResolveInvisible`. `Crash` may strike
in every state and stands also for `KeyboardInterrupt` and other exceptions no
handler catches. `RebuildReads`, `RebuildReplaces` and `RebuildFails` are
`rebuild_catalog_state`. `CatalogLost` needs all writers stopped, as
`docs/guides/catalog-v6-migration.md` asks.

### Bars: abstractions, and why they are sound

* Phase 1 holds the gate and changes nothing a caller outside the gate can see
  before its single catalog write, so it is one action.
* A call has one fetch window. The code coalesces gaps into windows of at most
  1000 bars; with several windows each has its own evidence instant and reply.
* A reply is any subset of the window as *observed*, with a row for exactly the
  observed bars that exist at the provider and are over by then. That a provider
  reports truthfully on what it calls observed is the contract of
  `providers/contracts.py`; that it reports values twice alike is not assumed.
* Failing I/O is a choice at the step that does it. The order in which prepared
  files are published is free in the model, fixed in the code.
* Outside modification of canonical files is not modelled.

### The families

`FamilySync` has one `call`: the dataset lock admits one at a time, and `BarSync`
shows the lock at work. `disk[m]` is a month file with its rows, the provider that
wrote it last and its manifest of `contributors`; a contributor is a provider and
the interval it certifies. `catalog.owners` is the table `source_ownership`.
A slot stands for one interval of the grid, or for a span with at most one
funding event; a day is the set of slots of one archive object. `brought` and `torn`
are history: the rows committed calls brought, and whether a call ended between
publication and commit since the last rebuild.

`PlanFunding`, `PlanReference` and `PlanOpenInterest` are the first phase of the
three `sync` methods (gaps, lineage or `validate_provider_request`); an archive is
asked for its whole range again. `ObserveFunding`, `ObserveReference`,
`ObserveOpenInterest` and `ObserveArchive` are the replies the runtimes let through.
`PrepareFunding`, `PrepareReference` and `PrepareOpenInterest` are
`prepare_family_month` for every touched month, `PrepareRevision` is
`prepare_open_interest_revision_month`. `Enter` is the second entry into the gate,
with the ownership check of every artifact; `PublishMonth` one `os.replace`;
`CommitFunding`, `CommitReference` and `CommitOpenInterest` the transactions, the
last with `replace_coverage_range` for an archive. `Stops` is every exception and
every death: what is published stays, the rest is gone. `Rebuild` may run at any
step of a call that does not hold the gate.

Abstractions: a call over several gaps makes one observation per gap, at its own
evidence instant; here they are one observation at one instant. Checksums,
revision numbers and row counts of a contributor decide nothing and are left out.
Temporaries, run status and uncertain commits are those of `BarSync`. A rebuild is one
step, since it holds the gate and `BarStore` shows that files do not change under
it. Scans of the families read a snapshot like the scan of bars.

### Paging and coverage

`Backfill` has one dataset with a `route` (which page loop its venue needs), a grid
`bar` and a venue that has the rows `world`, all fixed at the start. `coverage` is
the sequence of segments the catalog stores, `stored` the timestamps in the month files,
`call` the frame of a sync: its fetch windows, the window at work, the cursor, the rows
and observed windows so far, and what the finished windows proved.

`StartSync` is `covered_and_gaps` and `_coalesce_fetch_ranges` (bars) or one window per
gap (families). `BoundedPage`, `GenericPage` with `GenericEmptyPage` and
`GenericProbe`, `ReferencePage` with `ReferenceEmptyPage`, `FundingPage` and
`OpenInterestPage` are one iteration of each loop, with the checks that reject a
page as guards. `TransientError` is a retry of `client.py`. `FinishWindow` is the
end of a loop: the runtime's checks of windows and rows and the segments they
give. `Record` is the transaction with `normalize_segments`. `Stops` is every
error. `Rebuild` is the coverage a rebuild derives, month by month.

The venue may answer short, with rows too early, too late or off the grid, may
ignore `since` or the end, and may send the newest row first (`Wild`). What it may
*not* do is what the provider's profile takes for granted, as nothing could be
proven without it: a venue whose pages are taken as exhaustive (a profiled bar endpoint,
Binance's funding history) does not hide a row inside a well-formed page, and the
funding history of another venue may only stop early. Any other venue may leave out
what it likes.

Abstractions: values of rows are left out, so that a page that contradicts an
earlier row, or that cannot be read as rows, is one more error (`Stops`). Finality is
`BarSync`'s subject, and every row of the venue is final here. A call records all
or nothing, and rebuilds run between calls; `BarStore` has them beside each other.

### The live session

One event loop runs every task, so that what a task does between two awaits that
may wait is one action.

* `live` holds the fields of `LiveMarketData` and `LiveBarRuntime`: the state, the
  sets `_requested`, `_routes` and `_active`, the last bar start per dataset,
  the failure, the public queue. `ccxt` holds those of `CcxtLiveBarSession`. A
  queue holds updates or the one failure marker.
* `sub[s]` is the frame of a call of `subscribe_bar_updates`: resolving a market in
  a thread, loading the markets of a new client, closing that client after a
  failure (`"closing"`) or a cancellation (`"unwinding"`). `native[s]` is the client
  it created; `overlap` is history.
* `watch[k]`, `reader`, `shutdown` and `exit` are the tasks; `consumer` is the one
  consuming task.

`Subscribe`, `Resolved`, `MarketsLoaded` are the stretches of a subscription
between its awaits, through all three layers (`live.py:136`,
`providers/live_runtime.py:164`, `providers/ccxt/live.py:142`); `ResolveFails`,
`LoadFails`, `LoadCancelled` and what follows them are its handlers.
`WatchReturns` is a `watch_ohlcv` with one or two rows up to the next await,
`FeedFails` is `_fail`, `ReaderReads` is the reader from one wait on the merge queue
to the next, through `_normalize`, `_route_update` and `_enqueue`. `ExitBegins`,
`ReaderAwaited`, `CcxtExit`, `ShutdownStarts`, `TasksGathered`, `CloseReturns` and
`ExitReturns` are `__aexit__` of the three layers.

Abstractions: two requests that resolve to one dataset are one dataset; prices and
finality are left out; a second cancellation of an exit, and a venue library that
turns a cancellation into another exception, do not occur; the error a call
raises after its last change of state (for the receipt of a session that has
been left, say) is the end of the call like any other. A cancellation of the owner
while it awaits the reader is swallowed by the code and changes nothing.

## 3. Runs

| Run | Instance | Shows |
|---|---|---|
| `BarSync` | 2 callers asking for 3 bars in 2 months, 2 values | the inductive invariant, surviving temporaries, immutability of available rows, truthful success, clean-up on every error path, refinement of `PublishedRows` |
| `SyncLiveness` | 2 callers, 2 providers, 2 months with one bar each, one of which `v2` lacks; no maintenance | every call ends, a refused provider has published nothing, refinement with absent bars |
| `BarStore` | 2 callers asking for 3 bars in 2 months; 2 providers, one of which lacks the last bar; rebuilds, catalog loss | the invariant with maintenance, drift, no lost rows, sticky availability, no blind catalog, an index of one lineage, proven gaps |
| `LocalScan` | 1 caller, 1 reader, 3 bars in 2 months, 2 values; rebuilds, loss | scans answer for their snapshot |
| `Families` | each family; 2 months of 4 slots, archive days `{0,1}`, `{2}`, `{3}`; an archive and a provider with per-sample history; requests `{0,1}` and `{2,3}`; crashes, loss, rebuilds | the inductive invariant, one owner per interval, backed coverage, nothing brought is lost, rebuilds stay possible, rows change only under their owner |
| `Backfill` | 7 venues (every page loop), a fixed and a calendar grid, 10 instants in 2 months, windows of 3 bars, pages of 2 rows, 1 retry, 4 pages, 6 overlapping requests, 5 worlds | canonical segments, rows behind coverage, exact fetch windows, complete exhaustive syncs, refinement of `SlotCoverage`, every call ends |
| `LiveStream` | 2 subscriptions with a client each, 2 bar starts, at most 2 updates, merge queue of 2, public queue of 1 | nothing lost before a failure; refinement of `UpdateStream` |
| `LiveEnds` | 3 subscriptions of one client, 2 of them of one dataset; no updates | registers agree, who may leak a client, leaving ends, failures arrive |
| `TornRevision` | `Families`, open interest only | disagreement, section 5 |
| `LineageRejection`, `RebuildDuringSync` | 1 caller, 2 bars | disagreements, section 5 |
| `LiveClients` | 2 subscriptions of one client | disagreement, section 5 |

Every property of a passing run is also shown to be falsifiable: `PROJECT.json`
names for each a plausible defect of a modelled function that breaks it.

### Bounds

Bars. Two callers are enough for every pairwise race, as at most one call works
on a dataset and at most one holder has the gate. Two months give a publication
that is half done; with three bars the first month has two, so that a month
file mixes old and new rows and a fetch window spans an available bar. A
bar that does not exist at the provider, where a run has one, makes all three
statuses occur. Two values tell a rewritten row from a kept one; where no
property compares values there is one. `MaxClock` is the number of bars, which
lets every bar go from open to final before, during and after a request. The
reader's run has one caller because a reader takes no lock: what it sees is
a sequence of states of files and catalog, and that sequence is made by one
holder of the dataset lock at a time. Callers, where they are alike, and the values
of the reader's run, which are only compared, are symmetric.

Families. One month has two days, so that a revision meets a manifest it must
not touch; the other makes publication two steps. The first day has two slots of
which the second never has a sample: an archive certifies the whole day, the other
provider only its sample, so that their intervals overlap without being equal.
The first slot has two values and may lose its sample, which are the two ways a
revision can differ from what is stored. An instant of evidence lies before,
between and after the slots asked for.

The safety properties of every passing run are proved in section 4 without these
bounds, for `Backfill` and the live session too.

Backfill. A fetch window holds three bars and a page two rows, so that windows are
split and pages fill; the budgets of pages and retries are within reach of both. A bar
of the calendar grid spans the start of the second month. The worlds are empty,
sparse, dense at one end, and dense; the requests overlap, nest and touch, so
that gaps lie between covered intervals.

Live. In `LiveStream` each subscription may publish; with two updates a later bar can
be followed by an earlier one, a public queue of one overflows with the second
update, and a merge queue of two with the third row. Clients are shared in
`LiveEnds` instead: two datasets of a client and a duplicate of one of them give every pair of
calls (different dataset, same dataset, both beside the exit). Updates do not
matter to its properties, failures and quiet venues do.

### Fairness

`SyncFairSpec`: weak fairness of the steps of each call. The code
justifies it: lock waits poll with a deadline (`storage/locking.py:113-124`),
provider calls have bounded retries and return or raise, the rest is local I/O.
There is none for crashes, for time, or for starting calls.

`FairSpec` of `Backfill`: weak fairness of the call as a whole, that is, the thread runs
on. Which page the venue answers, and whether it answers with errors, is left to the venue:
`CallsReturn` holds because every loop moves its cursor or gives up.

`LiveFairSpec`: weak fairness of the tasks of the event loop, which runs every
ready task in turn, and of `close()` of a client, which returns or raises.
The venue, the callers and the consumer may stop at any point.

Deadlock checking is on in the runs of bars and of `Backfill`. It is off in those of a
live session, which is one-shot: when it has been left and its calls have returned
nothing happens any more. It is off in those of the families because a dataset may come to
rest: when one provider's call was torn, a rebuild and another provider's torn call
leave files of two lineages, and once the catalog is lost neither a sync nor a
rebuild accepts them (`RebuildPossible` says when this cannot happen).

## 4. Theorems

| Theorem | States |
|---|---|
| `SyncSafety` | `SyncSpec => []SyncInv` |
| `NoTempIsStolen` | `SyncSpec => []TempsSurvive` |
| `NoTempIsLeft` | `SyncSpec => EndLeavesNoTemp` |
| `SuccessMeansIndexed` | `SyncSpec => SuccessIsIndexed` |
| `AvailableRowsStay` | `SyncSpec => AvailableRowsImmutable` |
| `SyncImplementsPublishedRows` | `SyncSpec => ImplementsPublishedRows` |
| `StoreSafety` | `Spec => []IInv` |
| `CoverageIsBacked` | `Spec => []AvailableBacked` |
| `DriftIsOwned` | `Spec => []NoSilentDrift` |
| `RowsAreNeverLost` | `Spec => RowsNeverLost` |
| `AvailabilityIsSticky` | `Spec => AvailableIsSticky` |
| `CatalogAppearsComplete` | `Spec => LossNeedsRebuild` |
| `IndexIsOfOneLineage` | `Spec => []IndexNamesLineage` |
| `GapsAreProven` | `Spec => []UnavailableIsProven` |
| `ScanSafety` | `ScanSpec => []ScanInv` |
| `ScansAreSnapshots` | `ScanSpec => []ScanAnswersSnapshot` |
| `FamilyInvariance` | `Spec => []FamilyInv` (of `FamilySync`, as below) |
| `OneOwnerHolds` | `Spec => []OneOwner` |
| `AvailableBackedHolds` | `Spec => []AvailableBacked` |
| `BroughtIsKeptHolds` | `Spec => []BroughtIsKept` |
| `RebuildPossibleHolds` | `Spec => []RebuildPossible` |
| `OwnersKeptHolds` | `Spec => OwnersKept` |
| `RewritesAreOwned` | `Spec => RowsRewrittenOnlyByOwner` |
| `RefusedBeforePublication` | `SyncSpec => LineageRejectedBeforePublication` |
| `Recorded` | `Spec => []WholeInv` (of `Backfill`, as below) |
| `BackfillTyping` | `Spec => []BackfillTypeOK` |
| `Canonical` | `Spec => []SegmentsCanonical` |
| `CoverageBacked` | `Spec => []RowsBacked` |
| `GapsFetchedOnce` | `Spec => []WindowsExact` |
| `SyncsClose` | `Spec => SyncCloses` |
| `CoverageTellsTruth` | `Spec => ImplementsSlotCoverage` |
| `Shape`, `LiveTyping` | `LiveSpec => []ShapeInv`, `LiveSpec => []LiveTypeOK` |
| `RegistersAgree` | `LiveSpec => []RoutesAgree` |
| `StreamHolds`, `NoUpdateLost` | `LiveSpec => []StreamInv`, `LiveSpec => []NothingLost` |
| `SessionIsStream` | `LiveSpec => ImplementsStream` |
| `NoOtherLeak` | `LiveSpec => []OnlyOverlapsLeak` |

They hold for every value of the constants, from the assumptions named in the
modules alone:

* `StoreAssumption`, `SyncAssumption`, `RebuilderAssumption`: bars are numbered, each
  has a month, the null values are not values, the rebuilder is not a caller.
* `FamilyAssumption`, `RequestsAssumption`: days are disjoint, not empty, and in one
  month each; a request is not empty.
* `BackfillAssumption`: requests lie in `0..Horizon`, rows of the venue and timestamps off
  the grid at most one later; a grid is a fixed step or a set of starts that begins at the
  first instant and goes on past the horizon (`IsGrid`), as Mondays and firsts of months do.
  `IntervalsAssumption`, `PagingAssumption`: months start at instants; window and page
  sizes and the page budget are not zero.
* `LiveAssumption`, `QueueAssumption`: every subscription has a dataset and every dataset a
  client; bar starts are numbers; queues hold at least one element; the null value is not
  a subscription, dataset or bar start.

**Bars.** `AvailableBacked` is not inductive: that a commit reveals only stored rows needs
to know that the call has published all its files (`PreparedBy`), that nobody
changed them since, which needs the locks (`LocksHeld`), that rows are in the file
of their month (`MonthsSorted`), and that coverage points at the index and the
index at the files (`IndexBacked`). `DriftOwned` adds who is responsible where
index and file differ. Their conjunction with the types is `SyncInv`; a rebuild
in progress adds that what it has read is still on disk (`RebuildCurrent`),
because publication needs the gate it holds. A rebuild or loss of the catalog
keeps every conjunct although calls are in flight: `PreparedBy` mentions files
only, never the catalog.

The proof has one lemma per action kind for the effect on the calling process
(`PlanEffect`, `PrepareEffect`, ...), which it groups by what else changes
(`StepKinds`), and one lemma per conjunct over these groups (`TypeStep`,
`LocksStep`, `MonthsStep`, `PreparedStep`, `IndexStep`, `DriftStep`).

**Promises.** The action properties and the refinement need two facts that `SyncInv`
does not have. `TempsOwned`: a temporary that a call has prepared and not published is
still beside its file, because whoever cleans up holds the dataset lock. `FillsGaps`:
a call's rows are in the gaps its plan read, and as long as it holds the lock nobody
else makes those gaps available, so that a prepared file changes no row the catalog
calls available. The second is false with a rebuild between plan and publication, which is why
`AvailableRowsImmutable` and the refinement are theorems of `SyncSpec` and not of
`Spec` (section 5). Under the refinement every step is one of three kinds: files
replaced month by month (`ReplacingRows`), coverage revealed by a durable commit
(`RevealingFacts`), or neither (`KeepingFacts`).

**Lineage.** `LineageInv` adds to `IInv` that a call's files name its provider and its
batch has every final bar the provider was seen to have (`CallProven`), and that files,
index and lineage agree (`FactsProven`). A commit is admitted only over no lineage or its
own, in the transaction that indexes its files, so that a lineage a rebuild has bound
since the plan does not matter; a rebuild claims no gap and binds what the files name.

**Scan.** A reader's snapshot was backed when it was taken, and every file it has
accepted had the content the snapshot's index names; so what it has collected is a
function of the snapshot, whatever was published, indexed or rebuilt since.

**Families.** `FamilyInv` is inductive: a prepared file remains the merge of its batch
over what is on disk until it *is* what is on disk (`PreparedMerges`), which is the
dataset lock's doing, and the index is the files but for what the call at work has
published, unless a call was torn (`IndexCurrent`). Contributors keep to the month of
their file (`FilesSound`), so disjointness month by month is disjointness everywhere,
and the catalog owns nothing the files do not name (`OwnersStored`), so the check
against the catalog cannot refuse or admit what the check against the file would
not. Where a call was torn, only ownership and validity of files survive, and that is
what `OneOwner` and `RebuildPossible` state.

**Refused before publication.** Why `LineageRejectedBeforePublication` holds without
maintenance, and only then: the plan reads the lineage and the commit checks it again,
with the provider call in between. While a call holds the dataset lock nobody but that call
binds a lineage, so the one it read is the one its commit meets (`AdmissionInv`). A rebuild
binds lineages without the lock, which is finding `LineageRejection`.

**Backfill.** That coverage tells what is stored is a circle, and `DataInv`, `CallInv` and
`BackedInv` close it together. A page's cursor stays in its window because windows end where
gaps end; gaps end on the grid because coverage splits no bar, that is, says of an instant
what it says of the start of its bar; and coverage splits no bar because what is recorded
comes from windows that end on the grid. The proof follows the code along that circle:
lemmas about grids (`Floor` and `NextBoundary` cut time into bars, fixed or calendar);
about each function on sequences, as the instants its result shows (`Coalesce` and
`NormalizeSegments` show what their argument shows, `Gaps` what is not available,
`CoalesceFetchRanges` concatenates to the gaps it was given, `ObservationSegments` a bar with a
row as available and an observed one without as unavailable, `MonthSlices` and
`AvailableSegments` every row's bar once); and one lemma per action.

* `PagesInv` is what makes an absent row evidence. A bounded page is complete because it
  asks for at most as many bars as it may hold rows (`PageEnd` counts them), a page of
  funding because its rows are the first ones in order and the next page starts just after the last.
* `TruthInv`: what is stated unavailable the venue does not have. `DoneInv`: windows already
  fetched from an exhaustive venue leave nothing of their gaps unknown; at `Record` that is
  all of the request, which is `SyncCloses`.
* `Rebuild` derives from files month by month what syncs recorded window by window. That the two
  agree on every available bar needs that no row is stored past the horizon of requests.

The refinement of `SlotCoverage` is `TruthInv` and `BackedInv` read at two states: a
recording reveals only what the venue has, and rows stay.

**Live session.** Each concern has an invariant of its own on top of the shape of the
queues (`ShapeInv`: a failed feed holds its one failure and no task watches; so the public
queue). `RoutesInv`: the three layers' registers name the same datasets because calls under
way subscribe datasets nobody else does (`CallsApart`), which is what the reservation in
`_requested` is for. `StreamInv`: received, public queue and merge queue are a split of what
was published, in order, so that `last` bounds every delivered bar start and the refinement of
`UpdateStream` follows step by step. `LeakInv`: a call that overlapped nobody is the only
one to load its client (`LoadsAlone`) and ends before the exit begins (`CallsBeforeExit`), so
its client is registered when the shutdown takes the register, and closed or reported
(`OpenIsKnown`, `ExitPhase`).

### Checked by TLC only

Liveness (`CallsEnd`, `CallsReturn`, `ExitEnds`, `FailureArrives`): fairness and
ENABLED are outside the prover's reach. Every other property of a passing run is a theorem.

The library's induction rules take an operator as a parameter, which the installed provers
cannot instantiate. What a fold or a recursive function computes for every input is
proved with a least counterexample instead: the set of prefixes where the claim fails, if
not empty, has a smallest member, and the step before it contradicts it.

## 5. Disagreements between the code and its documents

* **`LineageRejection`**. `docs/reference/api.md:256`: "a different provider name
  is rejected before publication." A sync whose plan found no lineage publishes,
  and only then finds that a rebuild has bound another provider. The month files
  of the dataset then name two providers, and a later rebuild refuses them.
* **`RebuildDuringSync`**. `packages/xret-data/tests/test_api.py:1824`:
  "Coalesced re-sync must NOT overwrite existing AVAILABLE row values." True
  without a rebuild (run `BarSync`); with one between plan and publication, a
  row that was published but not committed becomes available and is then
  rewritten. That is also why the hash check of a scan is needed.
* **`LiveClients`**. `docs/guides/live-bars.md:33`: "Leaving the context closes
  every native client owned by the session." A client is created before its
  markets are loaded and registered after. Two subscriptions that overlap in
  between create two clients of one id; the second registration replaces the
  first in the dictionary of clients, and the exit, which closes what is in it,
  leaves the first client open. `docs/reference/providers.md:145` says clients "are reused by
  native CCXT client ID within one session". `OnlyOverlapsLeak` shows that
  such overlaps, and subscriptions that overlap the exit, are the only ways.
* **`TornRevision`**. `docs/guides/synchronization.md:73`: "Persisted `available` means
  canonical facts exist." A call that dies between the publication of a revised
  open-interest month and its commit leaves files ahead of the catalog, a fault that
  `docs/explanation/data-lifecycle.md:39` says fails closed "until explicit validation and rebuild".
  The next sync that touches the month merges over the file it finds
  (`storage/family_parquet.py:683`) and indexes the result. A sample the revision
  removed is then available in coverage and absent from the indexed file, and no hash
  differs any more. The other families and bars only ever add rows, so that the
  same sequence leaves their coverage backed (`AvailableBacked`).

## 6. Not modelled, and why

* `validate` (`storage/recovery.py`) takes no lock and changes nothing; what its report means
  while calls run is not documented, so there is nothing to check it against.
* `FileLock` (`storage/locking.py`) polls `flock` until a deadline. Its polls are one
  choice between acquiring and timing out; no state is kept between them.
* `ProviderHandle` (`market_data.py`) and discovery resolve a provider once, under a lock.
* Market resolution and the tables of venues (`providers/ccxt/markets.py`,
  `capabilities.py`, `compatibility.py`, `semantics.py`), schemas, models, configuration and
  the quality rules on values are stateless translations and checks. A fatal finding is an error
  branch of every model.
* Download, checksum and CSV parsing of the archive provider are I/O; which days an
  answer certifies is in `FamilyFacts`.
* The pacer of `client.py` only delays.
* Late funding events: the code has no grace period for them and no document promises
  one. Outside modification of canonical files, and schema migrations of the catalog.
* The qualification tool in `src/tools`, which is I/O over the rest.

What could still be added: a call of several fetch windows in `BarSync`, each with its own
evidence instant, and a second consumer of a live session that leaves it while the first waits.
