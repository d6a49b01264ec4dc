# GeoNet/fits: a TLA+ model

This directory holds TLA+ modules, TLC configurations and TLAPS proofs about
the programs of the GeoNet/fits repository: `dapper`, a pipeline that ingests,
archives and serves time series of device data, and `fits`, a read-only HTTP
service on a database of field observations with a page in the browser that draws
them.  Paths below are relative to
`src/`; `dapper/...` is the dapper part.

## 1. Inventory

### How data flows

    dapperlib client -> Firehose -> CSV files in S3 -> S3 notification in SQS
      -> dapper-db-ingest -> table dapper.records
      -> dapper-db-archive -> one CSV file in S3 per key and month
    dapper-api reads the table (last 14 days) and the CSV files (all time)

    fmp_metadata.pb in S3 -> S3 notification in SQS -> dapper-db-meta-ingest
      -> tables metadata, metageom, metarel -> dapper-api

    fits: loaders call fits.add_site / fits.add_observation -> fits-api reads
    chart page in the browser: GET /type, /site, /observation_results of fits-api
      -> list of sites, markers on a Leaflet map, a Dygraphs chart

The programs share no memory.  They meet in the tables, in the S3 files and in
the queues, and every one of them may be running when another one writes.

### Components

| component | state it keeps | operations | what is hard | what makes it correct |
|---|---|---|---|---|
| `dapper-db-ingest` (`cmd/dapper-db-ingest/main.go`) | the variable `n` of `main`, one transaction; the SQS queue; `dapper.records` | receive, Begin, Prepare, Get, insert, Commit, Rollback, Delete | redelivery, crash between Commit and Delete, the 900 s visibility timeout, several processes, primary key conflicts, deadlock | what is deleted from the queue is stored; all or nothing per notification; every message is settled |
| `dapper-db-archive` (`cmd/dapper-db-archive/main.go`) | `startTime`, `oldestmod`, the batch, tables in memory; columns `archived`, `modtime`; S3 files | SELECT, scan, batch, Exists/Get/AddCSV, Put, UPDATE, DELETE | goroutines per table, ingest at the same time, crash between Put and UPDATE, partial failure, times of two clocks | a row is deleted only when S3 has it; the archive never loses a value; a run ends and is complete |
| `dapper-db-meta-ingest` (`cmd/dapper-db-meta-ingest/main.go`) | one transaction shared by goroutines; the queue | receive, delete old rows, insert per key, Commit, Delete | goroutines sharing `err` and the transaction, deletion of the message after an error | the metadata is that of one file, completely |
| `dapper-api` latest cache (`cmd/dapper-api/data.go`) | `allLatestTables`, `rx`, `cacheLoading` | hitCache, cacheLatest, latest=1, ticker, summary | reads and writes outside the lock, a flag that is no lock, slow loads overtaken by fast ones | a reader gets a snapshot; the cache is refreshed; it does not go back in time |
| `dapper-api` data queries (`cmd/dapper-api/data.go`) | none | getDataLatest, getDataSpan, getArchive | table and archive read one after the other while the archiver moves rows | a record that is stored is returned |
| `dapper-api` metadata queries (`cmd/dapper-api/meta.go`, `geojson.go`) | none | several queries, aggregation | no common snapshot | metadata, geometry and relations fit together |
| `dapperlib` tables (`dapperlib/types.go`) | `Table` | Append, AddCSV, ToCSV, Merge, Trim, Aggregate, ParseRecords, GetFiles | who wins in a merge, blank cells, boundaries | a table is what its records say |
| `dapperlib` client (`dapperlib/client.go`) | none | Send in batches of 500 | a batch fails half way | a record is sent or reported |
| `fits` database functions (`etc/ddl/fits-functions.ddl`) | tables of `fits` | add_site, add_observation | concurrent upserts | the last value given is stored |
| `fits-api` (`cmd/fits-api`, `internal/ts`, `internal/valid`) | none | queries, plots | - | - |
| chart page (`cmd/fits-api/assets/assets/js/ldr-map-charts.js`, `charts.js`) | `allSitesData`, `allDygraphData`, `sitesLayers`, `allSiteMarkers`, `allDygraph`, `selectedParam`, the options and selections of two lists, requests that are out | choose a parameter, select sites, show charts; answers of `/type`, `/site`, `/observation_results` | callbacks read the page as it is when the answer comes; answers late, out of order, never; caches by parameter | list, map and popup show one answer; one chart; what is kept for a parameter is that parameter's |
| date line patch (`leaflet-patch180.js`) | `centerLonSign`, `bounds`, the longitudes of the markers | checkFeatureLocation, moveend | moves are relative to where a marker is; whether to look is decided from the move before | a marker never drifts; one that can be seen is seen |
| footer (`footer.js`) | none | sets a link | - | - |

The hazards of each component, at their lines, are listed in `PROJECT.json`.
## 2. Plan

In order; a module is written so that it can be proved about as well as
checked (parameters as CONSTANTS, one action per operation, no RECURSIVE).

1. `DapperIngest` - the queue, the consumers and the table. *Done.*
2. `DapperStore`, `DapperArchive` - what dapper promises its users, and the
   archiver against concurrent ingests, shown to implement it. *Done.*
3. `DapperArchiveInv`, `DapperArchiveProofs` - the inductive invariant and the
   theorems. *Done.*
4. `DapperCache` - the latest-value cache of dapper-api. *Done.*
5. `DapperIngestProofs`, `DapperCacheProofs` - the safety of the ingest and of
   the cache. *Done.*
6. `FitsSiteMap`, `FitsSiteMapProofs` - the markers and the date line patch. *Done.*
7. `FitsCharts`, `FitsChartsProofs` - the chart page with its requests, shown to
   implement `FitsSiteMap`. *Done.*
8. `DapperArchiveRunProofs` - runs of any number of batches and months: complete, and,
   undisturbed, without loss. *Done.*
9. `StoreSpec` of `DapperIngest` - the ingest fills the store that the archiver
   keeps. *Done.*
10. `DapperCacheTypeProofs` - the tables a load makes, and what an answer shows. *Done.*

What would come next, each with runs of its own:

11. `DapperMetaIngest` - the goroutines of dapper-db-meta-ingest in one
   transaction, the shared `err`, the message that is deleted after an error.
12. `DapperTable` - the pure operations of dapperlib against reference
   definitions: Merge, Trim, Aggregate, GetFiles, lower-cased file names,
   fractions of seconds.
13. `DapperSpan` - a span query that reads the table and then the archive while
   the archiver moves rows from one to the other.
14. `FitsUpsert` - the retry loops of fits.add_site and fits.add_observation.
15. Compositions: ingest and archiver on one table, two archivers of a domain.

## 3. The modules

| module | role |
|---|---|
| `DapperIngest` | dapper-db-ingest, SQS and the table; refines `DapperStore` |
| `DapperIngestProofs` | its theorems |
| `DapperStore` | what dapper promises: a store that only ingestion changes |
| `DapperArchive` | dapper-db-archive, S3 and concurrent ingests; refines `DapperStore` |
| `DapperArchiveInv` | when the archiver is safe, and its inductive invariants |
| `DapperArchiveProofs` | its theorems when no key spans batches |
| `DapperArchiveRunProofs` | its theorems about complete and about undisturbed runs |
| `DapperCache` | the latest-value cache of dapper-api |
| `DapperCacheProofs` | its theorem that an answer is one load |
| `DapperCacheTypeProofs` | its types, and what one load shows |
| `FitsSiteMap` | the map of the chart page and the date line patch |
| `FitsSiteMapProofs` | its theorems |
| `FitsCharts` | the chart page; implements `FitsSiteMap` |
| `FitsChartsProofs` | its theorems |
| `MCDapperIngest`, `MCDapperArchive`, `MCDapperCache`, `MCFitsSiteMap`, `MCFitsCharts` | instances for TLC |

`PROJECT.json` maps every definition to the lines it stands for.  A definition
whose name ends in a fault (`PutFails`, `CommitAnswerLost`, ...) is an error
path of the code; definitions introduced as "Mutant" are no part of any
specification: each is a plausible bug in the definition it stands beside, and
shows that a property of a run notices that bug.

### 3.1 `DapperIngest`

A consumer `c` is a dapper-db-ingest process.  `pc[c]` is its place in the loop
of `main`: `receive`, `begin` (in Process before the transaction), `tx` (in the
transaction) and `delete`.  `n[c]` is the variable `n` of `main`, declared
outside the loop: `json.Unmarshal` into it leaves the Records of the message
before when a body has none, and `Unmarshal` models that.  `todo`, `file` and
`rows` are the positions of Process's two loops; `tx` is what the open
transaction has inserted.  `leaked` counts transactions whose statement could
not be prepared: the code returns without a rollback and the connection stays in
use until the process ends.

| code (`dapper/cmd/dapper-db-ingest/main.go`) | actions |
|---|---|
| receive and unmarshal, 107-120, 151-164 | `Receive`, `ReceiveNothing`, `ReceiveLost` |
| begin and prepare, 166-174 | `Begin`, `BeginFails`, `PrepareFails` |
| loop over the files, 180-197 | `GetFile`, `GetFileFails` |
| parse and insert a line, 197-209 | `InsertRow`, `InsertFails` |
| commit, 211-218 | `Commit`, `CommitFails`, `CommitAnswerLost` |
| delete the message, 124-131 | `Delete`, `DeleteFails` |
| the process dies anywhere | `Crash` |

SQS and PostgreSQL are external.  SQS hides a received message, shows it again
when the visibility timeout of 900 s is over (`VisibilityExpires`, at any time,
also while the consumer is still at work), deletes it by handle and moves it to
the dead letter queue after `MaxReceive` receives.  PostgreSQL makes a
transaction that inserts a primary key inserted by an open transaction wait
(`WaitsFor`, `Blocked`), aborts one of a cycle of waiters (`Deadlocked`), refuses
a committed key (`Rejected`) and refuses connections above `MaxConns`.

A row of the table is a primary key and the file it comes from.  `TableRows` are
the rows there are, `RowsOf(m)` those of message `m`, and `StoreSpec` says that the
table is a `DapperStore` (3.2) whose batches are the notifications: it
changes only by all of the rows of one.

### 3.2 `DapperStore` and `DapperArchive`

`DapperStore` is the promise: a set `stored` of records that can be read, which
changes only by whole ingested batches.  In `DapperArchive` a record can be read
when the table has it or its CSV file in S3 has it (`Readable`), and `StoreSpec`
says that with `stored <- Readable` the archiver is a `DapperStore`: it never
makes a record unreadable, and never makes one up.  `DapperIngest` is a
`DapperStore` too: what the ingest fills is what the archiver keeps, and both keep
the same promise to readers.

`by`, `modtime` and `archived` are the columns of dapper.records for each row (key,
field, time); the value is the ingest batch that brought it.  `s3` has, for each
key and month, the cells of the CSV file: a batch's value, `Blank` (an empty cell)
or `NoCell`.  One run of the archiver goes `idle`, `select`, `scan`, then for each
batch `prepare`, `tables`, and last `delete`; while it is in `tables` every file
has its `job`: `todo`, `load`, `put`, `update`, `done` - the goroutine's
progress through Exists/Get/AddCSV, Put and UPDATE.  At most `Sem` goroutines
are past `todo`, as the semaphore allows.

| code (`dapper/cmd/dapper-db-archive/main.go`) | actions |
|---|---|
| start of a run, 37-60 | `Start` |
| SELECT ... ORDER BY, 62-74 | `Select`, `QueryFails` |
| scan loop and batch test, 76-105 | `Scan`, `EndOfRows` |
| archiveRecords and its goroutines, 124-214 | `ArchiveRecords`, `PrepareFails`, `Spawn`, `TableFails` |
| merge with the existing file, 152-184 | `Load`, `LoadFails` |
| Put, 186-203 | `Put`, `PutFails` |
| UPDATE ... SET archived, 205-213 | `Update`, `UpdateFails` |
| wait, return, next batch, 216-219, 94-110 | `BatchDone`, `Return` |
| DELETE, 112-121 | `Delete`, `DeleteFails` |
| the process dies anywhere | `Crash` |

`AddCSV` and `ToCSV` are translated from dapperlib: cells of the existing file
go over those in memory, empty cells too, and every row is written with every
column.  Ingest is one transaction with a begin and a commit, since `modtime` is
`NOW()`, the time of the begin: what matters to the archiver is when it is set and
when it becomes visible.  Database and archiver have one logical clock, which
`Skew` sets apart.

### 3.3 `DapperCache`

Request handlers and the ticker run `hitCache` and, inside it, `cacheLatest`; each
is a sequence of steps (`pc[p]`), cut where another goroutine can come between:
every read or write of `allLatestTables` or `cacheLoading`, every query, every
Lock.

| code (`dapper/cmd/dapper-api/data.go`) | actions |
|---|---|
| the cached entry is read, 549-558 | `Request`, `Read` |
| `!cacheLoading && time.Since(t.ts) > CACHE_EXPIRE`, 561 | `Check` |
| `cacheLoading = true`, 563 | `Mark` |
| sqlHasNewRec, 567-580 | `AskNew`, `QueryFails` |
| sqlCacheLatest, 472-476; the rows that come, 486 | `Query`, `QueryFails`; `AllRows`, `BrokenRows`, `Come` |
| loop over its rows, storing each domain, 486-531 | `CacheRows`, `Lock`, `Write`, `ScanFails` |
| removal of unused domains, 533-544 | `Lock`, `RemoveUnused` |
| the entry is read again, 586-594 | `Reread` |
| the deferred `cacheLoading = false`, 564-566 | `Unmark`, `Fails` |
| the response | `Answer` |
| latest=1: query, find and replace the table, 223-238 | `GetLatest`, `Find`, `PutTable` |
| first load (`server.go:89`), error only logged | `Startup` |
| unlocked readers (`server.go:98`, `soh.go:58`, `data.go:233`) | `Die` |

`CacheRows` is what the loop makes of the rows that come, its lost last keys
included.  A connection that breaks is no error to it: `rows.Next` returns false as
after the last row and `rows.Err` is not asked (486), so the rows end anywhere
(`BrokenRows`), the half-read domain is stored as if it were complete, with the time of
the newest row read, and the domains after it are removed.  The history variable
`cut` has the moments at which that happened; the properties use it to say what the
code can still promise: `MadeAt` is what a load makes of one moment's table,
`Overlooked` says which keys `sqlHasNewRec` may then not find missing.
A Go map that is read while another goroutine writes to it ends the process, so
`Die` may happen while someone holds the write lock; the cache is then empty and
the service starts again.  The other outcome of such a race is an ordinary read.
A handler that answers shares its slice of tables with the cache
(`live`), so a latest=1 request changes it under the handler.

### 3.4 `FitsSiteMap`

Places are in whole degrees.  `view` is what the map shows, a centre and half a
width, and the same for latitudes; `layers` has, for each parameter, the layer that `sitesLayers` has under
it: its markers, where each is (`at`), and what the patch remembers of the last
check (`sign` for `centerLonSign`, `bounds`).  Leaflet does not wrap longitudes,
so a marker at -178 is not in a view of 160 to 188: the patch moves it to 182.  It moves
only what is out of the bounds, and out means in either direction: a marker too far
south to be seen is moved too, in longitude, when the sign of its longitude is not that
of the centre.  Leaflet itself is in the repository, minified, under
`cmd/fits-api/assets/assets/dependencies/leaflet`.

| code | operators and actions |
|---|---|
| `L.GeoJSON1.checkFeatureLocation`, `leaflet-patch180.js:13-38` | `CheckFeatureLocation`, `CentreChanged`, `Moved` |
| `showSitesDataOnMap`, `ldr-map-charts.js:93-148` | `ShowSitesDataOnMap` |
| `clearOverlayers`, 163-167 | `ClearOverlayers` |
| the handler of `moveend`, 172-178 | `Moveend`, in every step that moves the map |
| `LatLngBounds` of Leaflet, `leaflet.js:6` | `Contains`, `Intersects` |
| `fitBounds`, 6; setting, panning and dragging the view, 6-9 | `FitBounds`, `MoveMap` |

`FitBounds` is the least view with the points; Leaflet, which has whole zoom levels, may
take a larger one, and `ZoomedToMarkers`, that the points are in it, does not depend on it.

`Hooked` says whether `checkMapLayerLocations` was called.  The page as it stands does
not call it (line 140 is a comment); the patch's own usage note (3-9) does.  Both
are modelled: the layer's guarantees with the hook are `dateline`, the page without
it is `charts_page`.

### 3.5 `FitsCharts`

Every handler of the page and every callback of its requests is an action; the
browser runs one at a time, so each is atomic.  A request (`xhr`) is out from
`getJSON` (jQuery, minified, in the repository) until it is answered or fails, and remembers what it was asked for; the
answers come in any order.  What the server sends is named by the parameter it was asked
for: `allSitesData[p] = q` means that under `p` the page keeps the sites of `q`, and
`allDygraphData[<<p, S>>] = q` that it keeps results of `q` for the sites `S`.

| code (`ldr-map-charts.js`) | actions and operators |
|---|---|
| start, 46-67; `charts.js` | `InitChartParams` |
| another parameter, 312-321; `showSites`, 227-244 | `ChangeParam`, `ShowSites` |
| `showSitesDataOnMap` and `showSitesDataSelection`, 93-148, 268-288 | `ShowSitesData` |
| a change of the selected sites, 323-328; `showSitePopup`, 151-158, with Leaflet's panning to the popup (`leaflet.js:7`) | `ChangeSites`, `ShowSitePopup` |
| Show Charts, 330-346; `makeDgChart`, 416-430; `queryChartResults`, 294-305 | `ClickChart`, `MakeDgChart`, `QueryChartResults` |
| answer of `/type`, 193-222 | `AnswerTypes` |
| answer of `/site`, 237-242 | `AnswerSites` |
| answer of `/observation_results`, 300-303; `processPlotData`, 462-483; `makeDygraphPlot`, 574-593 | `AnswerResults`, `ProcessPlotData`, `MakeDygraphPlot` |
| a request that fails: there is no handler for it | `Fail` |
| the map is dragged or zoomed | `DragMap` |

`trouble` is a history variable that nothing in the page reads.  The callbacks
use the parameter that is selected *when the answer comes*, so what can be promised
depends on the user: `"hurried"` once the parameter was changed or a chart
asked for while a request was out, else `"lost"` once a request failed.
`ListIsMap` and `OneChart` hold for every user, `DataByParam` and `AskedOnce` for
one who waits, `ShowsSelected` for one who waits and loses nothing.
`charts_sites` is what happens to one who does not wait.

Left out: static charts for Internet Explorer (`iev > 0`), since no such browser
can parse the template literals of the file; `showSitesSelection`, `btnSites` and
`recheckWindowSize`, which the page does not have or call; popups opened by a click
on the map.

## 4. The runs

| run | expected | what it shows |
|---|---|---|
| `ingest_clean` | pass | two processes, three messages, two receives each, one fault anywhere: deletion means stored, notifications are atomic; every message is settled, every clean file stored |
| `ingest_dirty` | pass | two processes, four messages, common primary keys in opposite orders, a bad line, a body that is no JSON, two connections: the same guarantees, a committed row is never rewritten, and the table implements `DapperStore` |
| `archive_faults` | pass | two files in a batch, two faults of S3, database or crash: the table and S3 implement `DapperStore`, archived means in S3, a run that reaches its DELETE is complete |
| `archive_batches` | pass | one field, two months and batches that split a key, no fault: rows are marked before their own file is put, all is well again at the DELETE |
| `archive_storm` | pass | every fault, skewed clocks, straddling ingests, split keys, blank cells, a semaphore of one: no value in a file is overwritten, every run ends |
| `archive_span` | violation | two fields, two runs, no fault and no late data: a batch that splits a key in the middle of a time puts an empty cell into its file, and the next batch reads it back over the value it archives |
| `archive_straddle` | violation | a transaction open at the SELECT and committed before the UPDATE is marked archived and deleted, unread |
| `cache_reads` | pass | a handler and the ticker, two domains, one fault, a connection that breaks among the rows included: an answer is one load of the table, an outdated cache is repaired but for what such a connection hides, requests are answered |
| `cache_latest` | violation | latest=1 overwrites another key's table after a reload, a key is answered twice |
| `dateline` | pass | five sites, three parameters, a page with the moveend hook: a marker is at its longitude or one turn away, a site has one marker, one that can be seen is seen, the map is zoomed to its markers |
| `charts_page` | pass | two parameters, two requests out at once that end in any order or fail: list, map and popup are one answer, one chart is live; for a user who waits, what is kept and drawn is the parameter's, and is asked for once |
| `charts_sites` | violation | sites that come after the parameter was changed are kept under the new one |

### Bounds, and why they are enough

*Ingest.*  Two consumers are what an interleaving, a duplicate and a deadlock
take; two receives give each message a first delivery and a redelivery after any
fault; two files and three keys distinguish the first file of a notification, the
second and a part of one.  `MaxFaults = 1` is less than `MaxReceive`, which
`CleanFilesStored` needs (with as many faults as receives the dead letter queue
rightly has the message).  In `ingest_clean` three connections leave room for a leaked
one; in `ingest_dirty` there are two, so that a leaked one blocks.

*Archive.*  Two keys, two times and two batches of ingestion are two files, two
rows of a file, and an earlier and a later version of it; the clock lets each batch
begin before, during or after a run, and a second run follow.  Two faults are a
fault and one during recovery.  The clock bound is why TLC's deadlock check is off: the
archiver is a job that stops, and after the last tick nothing is left to do.

*Cache.*  One handler and the ticker are the two goroutines a race takes, and
two domains of two keys and one key let the cache have a middle and a last key,
a first and a last domain.  The clock's three ticks are a record that is cached,
one that is newer, and one that leaves the window of two; `Expire = 0` lets the
cache expire with the next tick, the case in which loads are most frequent.  `MaxFaults = 1`
gives one of each kind (a failing query, a failing scan, a connection that breaks
after any row, a death, a failing first load).  `Series` are the three keys that get
records; in `cache_reads` one of them, of the domain with two keys, is asked for with
latest=1 (`Asked`), which is enough for its writes to meet a load: 407,111 states.

*Date line.*  Longitudes 166, 174, -178, -175 and -160 are sites the network has, one
side and the other of the date line; the 32 views are four centres on each side,
narrow and wide, in a band of latitudes without the southernmost site and in one with it
alone (the two do not touch), so that a move keeps or changes the side and keeps or loses
touch with the bounds before, in every combination `CentreChanged` distinguishes.

*Charts.*  Two parameters, one's site also a site of the other's: the same choice of
sites makes sense under both.  Two requests out at once are what an overtaking takes.
`Picks` has no site, one, and two (the popup's case distinction).  One view to
drag to, beyond the date line; `charts_sites` needs none.  TLC's deadlock check is off
since a page whose first request failed has nothing more to do.

### Fairness, and why the code justifies it

Safety is checked without fairness.  `ingest_clean` assumes that a running
process goes on with its loop (`for` without exit in `main`, and `Crash` counts as
a restart), and that SQS ends a visibility timeout and dead-letters.
`archive_storm` assumes that a started run goes on and that a transaction ends in
a commit or an abort.  The cache runs assume that goroutines go on, that the ticker ticks
(`time.NewTicker` never stops), that the service is started and time passes;
handlers need not be called, and fairness of the lock is that a goroutine waiting
for `rx` gets it in the end, as `sync.RWMutex` promises.  No run assumes strong
fairness or that a fault happens or stops, other than by the bound on their
number.

### What the passing runs take for granted

The archiver does lose data outside of the conditions of `archive_faults` and
`archive_batches`; `archive_span` and `archive_straddle` show two ways, and these are further ones,
seen with the same module by setting the constant that is named, or read off the code:

- `BatchRows <- LateField`: a field that comes after the other fields of its time
  were archived.  The file has an empty cell for it (`ToCSV`), and `AddCSV` copies
  the empty cell over the value in memory (`types.go:299`): the row is marked and
  deleted, and `NothingLost` fails.
- `Skew = 1`: `startTime` is the archiver's clock, `modtime` the database's
  (`dapper-db-archive/main.go:38`); with the archiver ahead, `NothingLost` fails as
  it does in `archive_straddle`.
- `Faults = {"stream"}`: `rows.Err` is not asked after the scan loop (107), so rows
  that never arrived count as read; the UPDATE marks those that fall in the time
  window of a key whose other records did arrive.
- two months of a key in one batch and a Put that fails: the UPDATE of the other
  month's table marks the rows of both, since it goes by key and modtime only.
- two keys that differ only in case share a file (`getFileName`, `types.go:160-171`),
  which the model gives each its own: no run has such keys (plan, item 12).
- an error in a batch that is not the last is logged and forgotten (95-97), so a
  run can end without having archived everything.

The cache properties on content stop at the first time an answer to latest=1 is
written into the cache (`patched`): that write can put an older record over a
newer load, whose `ts` then says that nothing is missing, and nothing in the code
promises that it heals.  `OneLoad` allows an answer to lack the last key of a domain
that is not the last, and, when it is the load of a moment at which a connection
broke, keys at its end; `CacheFollows` excepts the keys that such a moment hid
(`Overlooked`).  Neither exception can be dropped: `cache_reads` then fails.
`RequestsEnd` is stated as `[]<>` idle, which for a goroutine that is idle or at work
says the same as that every request leads to an answer.

## 5. Findings

Code against its own comments or documentation, each with its run:

1. `archive_span`: "don't let a key span batches"
   (`dapper-db-archive/main.go:94`); a record is appended before its key is
   compared, so each full batch ends with the first record of the next key.  Its file is
   put with that record, and `ToCSV` gives the record's row an empty cell for every
   other column the file has; the next batch has the other fields of the
   row, `AddCSV` copies the empty cells over them, and they are marked and deleted.
   It takes no fault, only a run of more than 100000 records.
2. `archive_straddle`: "this data is archived into CSV files in S3"
   (`dapper/README.md:23`); records are deleted that no file has.
3. `cache_latest`: "we'll only return 1 record for each key" (`data.go:201`).
4. `charts_sites`: "sites data by param" (`ldr-map-charts.js:15`); the callback at 239
   keeps an answer under the parameter selected when it comes.  While it is kept,
   the page shows the wrong sites for that parameter without asking; an answer to the
   parameter's own request, if that was sent before and is still out, puts it right.

Further disagreements, read off the code and the models, that have no run of their
own:

- "a snapshot of the latest value for every live metadata"
  (`api-docs/endpoint/data.html:56`): `cacheLatest` appends a key's table when the next
  key comes, and forgets it when the next domain comes (498), so the last key of
  each domain but the last is missing and a domain with a single key is empty.
  `CacheRows` models it and `OneLoad` allows for it, so that no property of a run
  shows it.  The test data
  (`dapper/etc/ddl/dapper-test-data.ddl`) have one domain with metadata.
- "a snapshot of the latest value for every live metadata", once more: when the
  connection breaks among the rows, the loop ends as after the last one (486).  What
  was read of a domain is stored as all of it, the domains after it are removed
  (533-544) and no error is reported.  If a row that came is as new as the newest
  record there is, `sqlHasNewRec` finds nothing new, and the missing keys stay away
  until some record comes in.  `BrokenRows` models it; `OneLoad` and `CacheFollows` hold
  because of what they except (section 4).
- "periodically refresh latest cache" (`data.go:140`): a domain without an entry is
  an error before anything is looked for (553), so it never comes back.  That is
  why `CacheFollows` asks for the entry.
- `makeDgChart` (425) gives `makeDygraphPlot` (574) four arguments of three: results
  that are at hand are drawn with the parameter for the labels, and with two sites
  or more Dygraphs refuses labels that do not fit the columns.
- "check layer location for dateline issues on map move" (170): the hook is never
  installed (140).  With `Hooked = FALSE` `SeenIfSeeable` fails: markers stay where
  the view before wanted them, and on a map that was centred west of Greenwich when the
  sites came, the eastern ones are a turn away from what the map is then zoomed to.

## 6. The proofs

All theorems hold for every value of the constants that the ASSUMEs of the
modules allow.

*`DapperArchiveProofs`.*  `TypeCorrect` and `FilesOnlyGrow` (`ArchiveGrows`) hold of
`Spec` without any condition.  `ArchiveSafety` (`ArchivedInS3`) and
`ArchiveImplementsStore` (`StoreSpec`), for any number of batches, assume what
`DapperArchiveInv` names: `TimesTogether` - all fields of a key at one time come in
one ingest; `Orderly` - no ingest straddles a run's start, one clock, no connection
that breaks unnoticed; `[]KeysWhole` - a batch has all the records of its keys, which
is what "don't let a key span batches" (`main.go:94`) asks for, and a run reads one
month of each key.  S3 faults, database faults and crashes are not restricted.
Each condition is needed: `archive_span`, `archive_straddle` and the list in
section 4 are what happens without it.  `ArchivedInS3` is not inductive: an UPDATE marks
rows by key and time, and is right only because what was put is all there is to
mark.  The invariant has two parts.  `IInv` is what any archiver keeps that reads
the fields of a time together: what a run has read is the table's present
content (`ReadingCurrent`), all fields of a time are together (`RowsTogether`),
what commits during a run is younger than it (`PastIsOver`), tables in memory and
files are whole times (`TablesRight`, `FilesWhole`), a file is put back with
everything it had (`PutKeepsFile`), and a table in memory has nothing that was not in
the file or the batch (`MemoryReadable`).  `SafeInv` is why the UPDATE is right: all
that it can mark of a key is at hand (`KeysAtHand`).

*`DapperArchiveRunProofs`.*  `RunIsComplete` (`RunComplete`) for any number of batches and
months per key: it assumes `Orderly` and `[][OnlyLastFails]_vars` - no call of a
batch fails that is not the run's last, unless the process fails.  main only logs
the error of an earlier batch and comes to its DELETE all the same, so without the
condition the property is false.  The invariant `RInv`: the records read or still to
be read are the table's, and every row to be archived that is not marked is among
them (`ReadingRest`); `oldestmod` is no later than any record of the batch
(`OldestFirst`), so the UPDATE of a file reaches all of the batch's records that it
has, a table that is done has marked them or reported an error (`DoneIsMarked`), and
an error is the last batch's (`ErrorEndsRun`).

Keys that span batches, or have several months, are marked before their own file is
put, so `ArchivedInS3` is false of them.  `MarkedEarlyMadeGood`
(`ArchivedInS3AtDelete`) and `UndisturbedImplementsStore` (`StoreSpec`) show that it is
made good before the DELETE: they assume `TimesTogether`, `Orderly`, `[]TimesWhole` -
a batch has all fields of a key at a time, or none - and `[][Undisturbed]_vars` -
nothing fails between a SELECT and its DELETE.  Beside `IInv` the invariant says
that what is marked is in S3 or still at hand (`ArchivedOrAtHand`) and that the
tables that are done are in S3 (`DoneInS3`).  A Put that fails in between is how
section 4's fourth case loses data, so the last condition is needed too.

Two theorems have conditions on constants only.  `OneBatchSafe`: with fewer rows
than a batch has (`FitsOneBatch`: also one month), any faults but a broken stream,
`ArchivedInS3`, `RunComplete`, `StoreSpec` and `NothingLost` hold - `archive_faults` is an
instance.  `OneFieldSafe`: with one field and no fault, any batch size and any months,
`ArchivedInS3AtDelete`, `RunComplete`, `StoreSpec` and `NothingLost` - `archive_batches` is
an instance.  For these, `ReadOnce` shows that a run has each row once, and the
cardinality of what it reads bounds the batch.  `NothingLost` follows from `StoreSpec`
alone (`StoreLosesNothing`), a store having no way to lose a record.

*`DapperIngestProofs`.*  `TypeCorrect`, `DeletedStored` (`DeletedMeansStored`),
`NotificationAtomic` (`AtomicNotification`) and `RowsKept` (`CommittedRowsKept`), of
`Spec`, without conditions.  The invariant adds to the properties: a consumer at
work on a message with Records has that message's Records in `n` (`NFromMessage`, which is
where the stale `n` would hurt: a body without Records is processed with those
of an earlier message, which is harmless to these properties only because
whatever is in `n` came from some notification), the rows of its transaction are
those of the files it has read so far and none is committed (`TxProgress`,
`TxOwn`), and at `delete` all is committed (`DeleteStored`).
`IngestImplementsStore` (`StoreSpec`): only a commit changes the table, and it adds the rows
of all files of one notification.  It needs, besides, that a row of the
transaction is under the primary key the file gives it (`TxFromFile`).

*`DapperCacheProofs`.*  `AnswerIsOneLoad` (`OneLoad`) and `FlagHasLoader` of `Spec`
without conditions.  The invariant says that every entry of the cache, every
copy of one and every row still to be stored is what a load made of the table at
some moment (`MadeAt`: all of it, all but the last key where another domain may
follow, or its first keys if that moment is in `cut`).  The moment may be long ago and differ between domains; that a
record ingested later does not change what the table had then is the lemma
`PastUnchanged`.

*`DapperCacheTypeProofs`.*  `TypeCorrect` (`TypeOK`) of `Spec`.  The types of the cache are those
of what a query returns and the loop makes of it, so most of the module is about
operators: that `InOrder`, a choice of an ascending enumeration, exists for every finite
set (`OrderExists`; the induction is an argument by the least counterexample, since a
well-founded induction rule cannot be cited) and has every element; that
`LatestTables` has exactly the newest record of each key of the window, by ascending
key (`LatestTablesType`, `LatestTablesRecent`); and what the loop loses
(`CacheRowsType`).  Of the steps, `PutTable` is the one that needs more than types: it
writes a record of the key that was asked for, at an index that some table had
(`KeyAsked`, `RowsTyped`).  With `AnswerIsOneLoad` these lemmas give what a client
cares about.  `OneRecordPerKey`: as long as nothing is `patched`, `EachKeyOnce` holds, so
the write of latest=1 is the only cause of the finding `cache_latest`.
`AnswerIsSnapshot`: for one moment, an answer has only newest records of keys with a
record in the window, each key once and none mixed in, and it has all of them but
for the last key of a domain that is not the last or, if a connection broke at that
moment, keys at its end (section 5).

*`FitsSiteMapProofs`.*  `MapInvariant` and from it `TypeCorrect` (`MapTypeOK`), `MarkersNeverDrift` (`NoDrift`),
`OneSetOfMarkers` (`OneLayerOfMarkers`) and `MapZoomsToMarkers` (`ZoomedToMarkers`), of `MapSpec` without
conditions; `SeenWhenHooked` (`SeenIfSeeable`) assumes the hook and
`DatelineViews`, views that keep to one side of Greenwich and within one turn, since the
patch knows sides by the sign of a longitude.  Its invariant `SideInv` is that the
markers are on the side of the centre, which is what the check decides by.  `FitBounds`
needs the minimum and maximum of a bounded set of integers; `MinMax` gets them from
the least element of a set of naturals, and `LeastView` the view from them.

*`FitsChartsProofs`.*  `PageTypeCorrect` (`TypeOK`), `ListAlwaysMap` (`ListIsMap`), `OneChartAlways`
(`OneChart`), `WaitingKeepsData` (`DataByParam`), `WaitingShowsSelected` (`ShowsSelected`)
and `WaitingAsksOnce` (`AskedOnce`), of `Spec` for any number of parameters, sites and requests
out.  None is inductive alone; `IInv` adds what a callback relies on: sites
and results are only asked for once a parameter is selected, and the parameters
when nothing else is out (`RequestsOK`, `StartOK`), and a user who waits has one
request out, for the parameter selected (`OneRequest`).  `ShowsSelected` and `DataByParam`
need each other: an answer is kept rightly because it is the one waited for, and
a chart has rows because its sites were picked from the right list.
`PageImplementsMap` shows that each step of the page is a step of `FitsSiteMap` or leaves the
map alone, so the map's theorems hold of the page; it needs `IInv`, since the sites
shown are those of a parameter only if what is kept is.  A selected site whose popup
makes Leaflet pan the map is a move of `FitsSiteMap`.

Only model-checked: everything temporal with fairness (`EveryMessageSettled`,
`CleanFilesStored`, `RunEnds`, `CacheFollows`, `RequestsEnd`), which is out of the
prover's reach.  Every invariant and every action property of the passing runs, and both
refinements of `DapperStore`, are theorems; those of the archiver under the
conditions above, which TLC shows to be needed.

## 7. Not modelled

Not yet: dapper-db-meta-ingest, the data and metadata queries of dapper-api, the
rest of dapperlib's tables and its client, the functions of the fits database.
For the chart page and the patch, what is left out is listed in 3.4 and 3.5; the
branch for polylines of the patch (39-54) is never reached, since `/site` returns
points.  Left out for good: routing, formats, health pages, metrics and plots, the
validators and generated code - input and output without state of their own -
and the vendored libraries but for what the page asks of Leaflet and jQuery.  SQS, S3
and PostgreSQL are not in the repository and modelled as the code uses them.  Two archivers of one domain at once are not modelled: how the
job is started is not in this repository.
