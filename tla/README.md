# Crow's Nest: a TLA+ model of signalk-activecaptain-resources

This directory models the Crow's Nest Signal K plugin in TLA+, model-checks it
with TLC and proves its most important properties with TLAPS. Source paths below
are relative to the plugin's own `src/`, and `README.md` with a line number is the
plugin's; `PROJECT.json` maps every definition to the lines it translates.

## 1. The system

The plugin runs in the Signal K server's single Node.js event loop. Every
interleaving comes from `await`, timers and subscription callbacks; there are no
threads. *Inputs* (ActiveCaptain, OpenSeaMap, USCG Light List, NOAA ENC) are POI
sources that one *aggregate source* fans out to and merges. *Outputs* (notes
resource, proximity alarms, route hazards, bridge air draft) read the aggregate.
A shared *position monitor* turns fixes into throttled scans for the outputs that
raise alarms. A *status recorder* collects what every source did; the server
reads it through the *status router*, and the *configuration panel* in the
browser polls it.

| Part | State | Operations | Talks to | What makes it correct |
|---|---|---|---|---|
| active-route reader (`outputs/route-hazard/course-reader.ts`) | cached route, refresh counter, stopped flag | two delta handlers, `refresh`, `clear`, `stop` | server Course and resources API | the cache follows the current course whatever order the answers come in |
| HTTP client (`inputs/http-client.ts`) | active count, waiting queue, next allowed start, close signal | `fetch`, `pump`, retry loop, `close` | ActiveCaptain, OpenSeaMap, ENC, Light List | slots counted exactly, FIFO, spaced, nothing waits for ever |
| position monitor (`monitoring/position-monitor.ts`) | latest fix, throttle, in-flight slot, stopped flag | `onPosition`, `maybeTick`, `runTick`, `stop` | aggregate source, alarm outputs | one scan at a time, spaced, evaluated at the newest fix, none forgotten |
| proximity alarms (`outputs/proximity-alarm/`) with `shared/notification-tracker.ts` | hazards in alarm; notifications on the wire | `evaluate`, `clearAll` | monitor, server deltas | alarm inside the radius, hysteresis, nothing left on after stop |
| bridge air-draft alarms (`outputs/bridge-air-draft/`) | bridges in alarm, resolved clearances, details in flight | `evaluate`, resolver, `clearAll` | monitor, aggregate details | a bridge too low alarms or is being asked for; no claim is made up |
| route-hazard alarms (`outputs/route-hazard/`) | points warned of | `getFetchBox`, `evaluate`, `clearAll` | monitor, reader | warnings are those of the route ahead |
| aggregate source (`inputs/input-registry.ts`) | none of its own | `listPointsOfInterest`, `getDetails`, `close` | sources, status, dedupe | returns although a source hangs; refuses only if all failed |
| bbox debounce (`shared/bbox-debounce.ts`) | promises by key | `get`, eviction, `clear` | ENC, OpenSeaMap, ActiveCaptain | one fetch per window, no failure replayed |
| ActiveCaptain (`inputs/active-captain/`) | memory tier, disk tier with a write timer | list, `getDetails`, `load`, `persist`, `flush`, `close` | upstream, disk | no detail outlives its TTL, none is lost by a clean restart |
| NOAA ENC, OpenSeaMap | debounced lists, details seen | list, `getDetails`, `close` | ArcGIS and Overpass services | every list returns; what is due is in it |
| Light List (`inputs/uscg-light-list/`) | districts, records, tiles, dirty marks; page and index files | refresh pass, `upsertDistrict`, `flush`, `load`, box query | NAVCEN, disk | no record lost by a crash, a failed write or a late load; a box query finds all |
| dedupe and notes resource (`inputs/dedupe-pois.ts`, `outputs/notes-resource/`) | none | merge, collapse; list and get by id | aggregate | every point stands for itself or in another, every note opens |
| status recorder, router, panel view (`status/`, `panel/hooks/use-status.ts`) | a row per source, recent errors; mounted routes; the poll | `record*`, snapshot, registration, poll | every source, browser | rows reflect the recorded outcomes; behind the admin gate; the panel catches up |
| plugin lifecycle (`plugin/plugin.ts`, `outputs/output-registry.ts`) | runtime reference, handles, status line | `start`, `stop`, restart | all parts | stop is complete, one part's failure isolated and reported |
| configuration panel (`panel/`) | saved and edited configuration, number drafts | normalise, edit, save, discard | server, plugin | a clean panel shows what runs |

The hard behaviours are the ones where a handler stops at an `await` and the
world moves on: overlapping course refreshes, a fix or a stop during a scan, a
retry asleep while the client closes, overlapping list requests sharing one
status row, a detail load that outlives its run, a refresh racing a load, an end
of the process between two file writes, a poll in flight as the panel closes; and
the ones where two pieces of code must agree on one convention: box and corridor,
tile index and box query, id made and id split, panel default and plugin default.
`PROJECT.json` lists each as a hazard at the line where it bites, with the
properties about it; three have none, for the reason given there.

## 2. Modules

| Module | Models | State and actions against the code |
|---|---|---|
| `RouteGeometry` | `extractCoordinates`, `clampIndex`, `buildRoutePolyline` | pure operators on sequences of waypoints; an unusable entry is the value `Unusable` |
| `CourseReader` | the active-route reader and the Course API it follows | `deltas` are the server's undelivered deltas in order, `refreshes` the refreshes in flight with the await they are at; one action per handler and per answer or failure |
| `FifoPool` | abstract: a work-conserving FIFO pool of slots | `Enter`, `Leave` |
| `HttpClient` | `RequestQueue` and `fetchWithRetry` | `waiting`, `active` are the queue's fields, `phase` the await each call is at, `gap` what is left of `nextAllowedStart`; timers run down in `Tick` |
| `PositionMonitor` | the monitor | `tick` is the throttle and the in-flight slot, `scans` the positions of open list requests, `called` the `evaluate()` calls of the latest step |
| `ProximityAlarms` | `evaluate`, `clearAll`, the tracker and the notification paths | `active` is the tracker's set, `wire` the last value emitted on each path |
| `HazardWatch` | EXTENDS the two above, with the aggregate's outcomes, a moving vessel and teardown | a scan settles with an outcome per source; the contributor reacts in the same step, as the code calls it synchronously |
| `RouteCorridor` | projection onto great-circle legs, look-ahead, fetch box of the route ahead | pure operators on a grid round the globe; `Bow` is how far a leg between two points of one parallel runs north of it, `Normalized` the seam at 180 degrees, which boxes see and distances do not |
| `BridgeClearance` | clearance parsers, the comparison, the resolver | `cached` and `fetching` are the resolver's maps; a failed detail is not cached; `OnSummary` is the clearance a list carries, an ActiveCaptain bridge's being that of the twin merged into it |
| `AlarmOutputs` | EXTENDS the two above: bridge and route outputs on shared ticks | a tick lists one union box and hands the answer to both outputs with the newest fix and route; in each list bridges are merged with their twins or not |
| `PluginStatus` | rows and recent errors of the recorder | one operator per `record*` method |
| `AggregateList` | overlapping list and detail requests over `PluginStatus` | `outcome` holds what each request has from each source; `Close` is the continuation that records them all in one go |
| `DedupePois` | the merge across sources and the collapse within one | folds over the list in the order of the code, one point a step; `Cell` and `Apart` each have the metres and the cosine of the code's; clearances fold to the least |
| `NotesResource` | EXTENDS `DedupePois`: ids, list and get requests, refused writes | a list is one step; `listed` ids are split again when a note is opened |
| `StatusPanel` | the polling hook and the pill | in-flight mark, hidden and closed panels, answers that come after either; what the sources record meanwhile, or do not (`RecordedAnswer`) |
| `BboxDebounce` | the debounce cache | `slots` is the LRU order, `fetches` the promises, `joined` which promise a call awaits |
| `DebouncedSource`, `NoaaEnc`, `OpenSeaMap` | the two list sources over `BboxDebounce`, `PluginStatus` and `SourceDates` | `query` counts pages and failures of the layers in flight, `known` is the detail cache, of which `Reseeded` gives what may be left once it is full |
| `SourceDates` | `SORDAT`, `Date.UTC`'s carry, the minimum-year filter | a raw date is its length and what `parseInt` makes of its slices; a timestamp is year, month, day |
| `ActiveCaptainList` | the list calls of ActiveCaptain over `BboxDebounce` | a key stands for a box and the types asked for |
| `PoiTiers` | the memory and disk tiers of ActiveCaptain details | a cache, mirror, timer and closed flag per run, one shared file; monotonic `clock`, wall clock behind it by `back` |
| `LightListStore` | the refresh pass, upserts, flush, load, restarts, damaged files | `pass` is the worker pool, `writes` the unfinished page writes, `pageFile` and `indexFile` the disk, `loading` the await load() is at |
| `LightListTiles` | record building, tile index, box query and detail | tiles kept in step record by record; a globe of 8 by 4 degrees |
| `PoiTypeSelection`, `StatusRouter`, `PluginLifecycle` | types asked for, route registration, `start` and `stop` | a part is `<<run, name>>`; what may throw is a choice; requests and loads outlive their run |
| `ConfigPanel` | normalisation, edits, dirty check, save, discard, number drafts | each stored key is read by the panel and by the module that owns it |
| `*Proofs`, `FoldFacts` | the theorems (§6): most about the module of that name; `HazardWatchProofs` also about `PositionMonitor`, `PluginLifecycleProofs` about `StatusRouter` and `ConfigPanel`; `InputsProofs` about `PoiTiers`, `ActiveCaptainList`, `LightListTiles` and `NoaaEnc`; `ResourcesProofs` about `CourseReader`, `DedupePois` and `NotesResource`; what folds compute in `FoldFacts` | |
| `MC*` | constants for TLC; three put independent modules side by side in one run (§3) | |

Data is abstracted to what the properties tell apart. In `HazardWatch` a position
is a point on a line, as the alarm logic only compares distances with radii;
`RouteCorridor`, `DedupePois` and `LightListTiles` work on integer grids that go round
the globe: what the sphere does to the decisions, a leg's bow, the length of a degree
of longitude by latitude and the seam at 180 degrees, is given by constants or kept in
the operators. A waypoint is a name, a box a cache key, an HTTP answer a class
(final, retryable, rejected), a feature or a detail its id. Time is in ticks that
stop where the code can no longer tell.

History variables, which no guard reads, are marked `history` where they are
declared, or say what the code does not keep (`born` of a cached detail in
`PoiTiers`). `faults` counts towards its bound and in the premises of properties
about runs without faults.

## 3. Runs

Passing runs:

| Run | Bounds | Distinct states | What it shows |
|---|---|---|---|
| `CourseReader` | two routes, four courses (forward, reverse, past the end, no such route), two changes of course | 525 000 | with deltas, answers and failures in any order no commit goes back in time, the reader ends at the current course, and a settled polyline starts at the destination |
| `HttpClient` | four calls, two slots, one retry, `Retry-After` up to 3 ticks, close at any point | 82 000 | no lost wakeup, starts spaced, at most one fetch after close, every call settles; `HttpClient` implements `FifoPool` by the mapping at the end of the module |
| `HazardWatch` | six positions, two hazards of two sources, two scans that miss a source | 62 000 | an answered hazard within the radius is alarming when the scan settles; alarms hold in the band; the wire matches the tracker; stop leaves none; a moving vessel is warned |
| `AlarmOutputs` | an inlet with a bend and an ocean leg of 300 NM at 45 degrees, five points (three bridges, two with a twin), one route set and cleared, a live draft or none | 18 700 | a charted bridge too low for the vessel alarms or is being asked for unless a merged twin masks it, and every alarm is true; route warnings are those of the route the tick had; the fetch box covers the corridor but for the bow of a leg; halt leaves no alarm |
| `AggregateList` | two sources (one US-only), two overlapping requests, two errors; or four sources with bridges at, inside and beyond each merge radius, either side of a cell and of 180 degrees; or the panel with three outcomes and one lost poll | 74 900 | a list always returns; every note listed opens; no duplicate within the reach of the sweep is left, no point and no least clearance is lost; the panel catches up with what the sources recorded |
| `LightListStore` | two pages, three records, one new edition, two workers, two faults | 457 000 | a restart, failed request or write, damaged file or slow load at any point never leaves a page incomplete and answered 304; all records arrive in the end |
| `PluginLifecycle` | two starts, two sources, two outputs, three configurations, two throws anywhere; or one stored key of each form with two edits | 683 000 | only a part whose own `stop()` threw outlives its run; Ready means the alarms are driven; a run that is over stays silent; a clean panel shows what runs; a number field shows its value |
| `Inputs` | one source at a time: ENC (two layers, two pages, dates too old, garbled or missing, room for two details), OpenSeaMap, ActiveCaptain's lists (three calls, two keys), its tiers (two runs, one fault, TTL of two ticks), the Light List's tiles (six pages of data, four vessels) | 458 000 | no stale detail, complete answers per type, one fetch per window, every list returns and holds what is due, a closed run is silent, a clean restart keeps what is fresh, a box query finds all |

`AggregateList`, `PluginLifecycle` and `Inputs` each hold several modules that share
no behaviour: a variable `part`, chosen in the initial state, says which one moves,
and the others stay where they began. `PositionMonitor` and `PluginStatus` have no
run of their own: they are checked inside the modules that extend them.

Why the bounds are enough. Two changes of course give three refreshes, so one can
answer before, between and after two others. Four calls on two slots are the
least with two queued behind a full pool, where their order shows. Two hazards of
two sources are the least where one source's failure could hide or clear the
other's. The inlet has a bridge near both legs of its bend; the ocean leg crosses the
look-ahead with one hazard where it bows and one inside or beyond it, by where the
vessel is. Two bridges of the base source and two of another give a duplicate a choice
of survivors and a list a mean latitude that is not theirs. Two details kept of three
let a list drive out what a lookup had brought in. Two pages and two faults cover a
fault during the recovery from another. Two starts are the least where a part, a load
or a list of one run meets the next. Three list calls with a window of one tick let a fetch expire while it is
pending, a second start and the first fail afterwards. A TTL of two ticks within a
clock of three lets a detail be half its life old at a restart and expire after
it. The globe of the Light List is small enough for a box to wrap and for two
tiles to meet at the antimeridian. Bounds in guards are named at their
declarations: `MaxChanges`, `MaxFaults`, `MaxErrors`, `MaxTime`, `MaxRuns`,
`MaxClock`, `MaxStepsBack`, `MaxStarts`, `MaxEdits`, `MaxOutcomes`, `MaxLosses`,
`MaxLookups`, `MaxOsmLookups`, `Speed`; `MaxRetryAfter`, `MaxRetries`, `MaxPages` and
`MaxEntries` are the code's own limits, made small.

Violated on purpose: each of these runs checks one statement of the repository's
own comments or README and TLC refutes it.

| Run | Statement | What the code does |
|---|---|---|
| `HazardWatchPartial` | the notification clears once the vessel moves beyond the radius (`README.md:58-60`) | a hazard whose source did not answer is cleared as "no longer nearby" |
| `LightListMoved` | a record of one page is not confused with one of another (`light-list-store.ts:21-24`) | an upsert removes every LLNR its page held, also one another page has just brought in; the page that has it is 304 from then on |
| `LifecycleMasked` | a failed alarm output is surfaced rather than masked by a bland status (`plugin.ts:193-195`) | the next list of the notes resource sets the plugin status over the error |
| `MergedClearance` | the lowest clearance any source reported decides (`dedupe-pois.ts:151-153`) | an ActiveCaptain bridge that carries a merged twin's higher clearance is neither asked for its own, nor is its own used when the resolver has it (`bridge-clearance-resolver.ts:86-89`) |

Deadlock is checked except where the system really stops: a reader, monitor or
plugin stopped with nothing in flight, a client all of whose calls are done, a
bounded clock at its end.

## 4. Observations

Met while modelling; not runs of their own. Where a definition is named, adding it
to a cfg reproduces the behaviour.

* `course-reader.ts:167` drops unusable coordinate entries before the point index is
  applied, although the comment at 263-267 has it match the server's: on a route
  with such an entry the polyline starts a waypoint off (`MCGappedCoordinates` for
  `Coordinates` violates `DestinationAhead`).
* `http-client.ts:36` says aborting `closeController` cancels the wait; the backoff
  timer at 279 runs on, and only the fetch after it is aborted
  (`CloseCancelsTheWait`).
* `position-monitor.ts:143` commits the throttle before the scan, so a vessel that
  parks right after a scan missed a source is not warned, against
  `README.md:58-60` (`HazardIsWarned`).
* `route-hazard-output.ts:54-56` says the box encloses the route ahead, the corridor on
  either side of it. It encloses the boxes around the route's points, while the scan
  measures from the great circles between them: one between two points of one parallel
  runs out of the box, by 0.8 km at 10 NM into a leg of 300 NM at 45 degrees, and a hazard
  there is never fetched (`FetchBoxEnclosesRoute`, violated by the constants of
  `AlarmOutputs` by the first tick on the route).
* `dedupe-pois.ts:95-97` and `231-234` say that two points within the radius are in cells
  that touch. Cells are measured with 111 320 m to the degree and the cosine of the
  list's mean latitude, distances with 111 195 m and the points' own: two reports just
  within the radius can be two cells apart, and both stay (`SweepIsExhaustive`, violated
  by the first list in `AggregateList`).
* `s57-mapping.ts:152-153` says non-numeric digits are no date, and
  `year-filter.ts:88-89` that malformed data is never filtered out. `parseInt` takes
  201x0601 for June of the year 201, and the feature is dropped (`GarbledDatesAreKept`,
  with `MCGarbledSordatOf` for `SordatOf` in `Inputs`).
* `plugin-status.ts:6-8` says a source is reachable by its most recent request.
  `input-registry.ts:195-207`: a timeout marks the source as just skipped, and while it
  is so marked a list that comes in time is not recorded, so that after an error and a
  timeout the pill stays an error (`PillsAreOfTheLast`, violated in `AggregateList`).
* `normalize-config.ts:58-62` says the panel's and the plugin's bounds are kept in step.
  A stored refresh period out of range is clamped by the plugin
  (`uscg-light-list-input.ts:60`) and replaced by the default in the panel (`PanelAgrees`,
  violated in `PluginLifecycle`'s initial states).
* `plugin-status.ts:127`: `recordError` clears `justSkipped`, so that an error between
  a gated skip and its recording lets an empty list count as a fetch.
* A list answered from the debounce cache marks its source reachable again after a
  failed detail, with no new request.
* A wall clock set back lets the disk tier serve a detail past its TTL, by no more
  than the setback (`DetailsAreNearlyFresh`); `Inputs` has `MaxStepsBack = 0`.
* `SeamarkGroups.tsx` tells the user that no group imports nothing; marinas are asked
  for whatever the groups (`seamark-mapping.ts:162-170`).
* `light-list-store.ts:91-147`: an aid at longitude exactly 180 is missed by a box
  that wraps, and a box around the whole globe visits one cell of the next row
  twice.
* `s57-mapping.ts:161-164` says out-of-range dates are rejected; 20240231 is accepted,
  shown as 2024-02-31 and stamped as 2 March, and `Date.UTC` takes years 0-99 for
  19xx. `ListsWhatIsDue` leaves open what becomes of the features it calls `Misread`.
* `position-utilities.ts:152-163` and `283-288` document that boxes are wrong at the 180
  degree meridian. `Normalized`, `BoxAround` and `UnionBox` do as they do, so
  `FetchBoxCoversCorridor` and its theorem are about routes clear of it.
* An id with a character outside `[A-Za-z0-9_-]` would be raised and cleared in one
  pass of `proximity-alarms.ts`, since the tracker's keys are sanitized and the
  caller's are raw; every source of this version makes path-safe ids.

## 5. Fairness

* Timers fire and the clock advances (`Tick`, `TimePasses`, `Elapse`, `Timeout`).
* Awaited network calls settle where the code bounds them: HTTP requests carry a
  timeout signal; list requests of the aggregate are raced against a timer. No
  source is assumed to answer in `AggregateList`. The ENC and OpenSeaMap lists rest
  on `EveryCallSettles` of the client below them: a page or query that was asked for
  ends, with an error or not.
* The server delivers every delta, and its `getCourse` and `getResource` settle,
  with an error or not (`CourseReader`).
* Fixes keep arriving (`PositionMonitor`, `HazardWatch`): the server streams them
  as long as it has a position.
* The refresh timer of the Light List keeps firing and file operations return.
  The run takes the vessel to be in US waters; outside them a pass does nothing.
* The panel's poll timer fires and its request ends while it is open and visible
  (`StatusPanel`): the browser's fetch is given a timeout signal.
* No answer is assumed to be a success; weak fairness is all that is used.

## 6. Proofs

All theorems are safety properties of the full specifications, for any values of
the constants that satisfy the modules' named assumptions (positive limits, model
values outside the data sets; TLC evaluates them in the runs) and what a theorem
itself assumes. Each goes through an inductive invariant whose conjuncts are named
facts, with one step per action.

* `ResourcesProofs`, the reader: `Inv` adds to the checked invariants that a refresh's
  generation is at most the counter and that one holding the newest generation
  read a course no older than the last delta handled (`RefreshesOk`), that an
  undelivered delta exists while the reader is behind the server (`DeltasOk`) and
  that the cache belongs to the newest refresh once that one is done (`CacheOk`).
  `SettledIsFresh` is not inductive without them: a late answer is harmless only
  because of what its generation says about its version. `DestinationAhead` follows
  for routes of any length whose coordinates are all usable, by what `Reverse` and
  `SubSeq` leave at the head.
* `HttpClientProofs`: `Inv` adds that the queue holds exactly the queued calls,
  once each, and that `active` counts the holders (`QueueOk`); that timers of granted
  starts are spaced against each other and against `gap` (`SpacingOk`); that a
  call made a fetch after close only if it cannot make another (`LateOk`,
  `RetryOk`). From it follow the slot count, the limit, no lost wakeup, spacing
  and the refinement of `FifoPool` (`ClientIsAPool`: initial states map to initial
  states, every step to a step or a stutter).
* `HazardWatchProofs`, the monitor: `Inv` ties the slot to the open request, the
  throttle's elapsed time to the time since the last request, and an open request to
  a fix having been seen.
* `HazardWatchProofs`, the alarms: `WatchInv` is the monitor's `Inv`, the type of the alarm
  state, `WireMatchesTracker`, and no tracked alarm once stopped. The monitor's
  lemmas carry its part over. `CoveredHazardAlarms` and `AlarmHoldsInBand` follow
  from it for ids that `sanitizePoiId` leaves alone (`IdsAreSafe`).
* `LightListStoreProofs`: `NotModifiedIsSafe` and `DiskIsSafe` for any pages, records,
  editions and faults, assuming every aid stays on its page (`AidsStay`; the run
  `LightListMoved` shows what happens otherwise). `DiskIsSafe` compares counts
  and is not inductive: a damaged file could end up with the right count by
  accident. `Inv` therefore says that the file of a current entry holds nothing
  but the published records (`DiskOk`), that the same is true of every write under
  way (`WritesOk`) and of the files a flush leaves behind for the index it is
  about to write (`FlushOk`), and that the records of a current page are in
  memory or in a file load() will read (`MemoryOk`).
* `PluginLifecycleProofs`: what leaked bears the number of a run that is over
  (`LeaksAreOld`), so no later teardown can touch it and no part of the current run
  can be taken for it; the runtime owns parts of its own run only (`RuntimeOK`).
  From it `NothingOutlivesItsRun` and `ReadyMeansDriven`; a lemma on `EnsurePoiTypes`
  shows the monitor asks for every type a started output acts on, whatever the
  configuration selects. `StatusIsGated` covers the router.
* `PluginLifecycleProofs`, the panel: for any fields, bounds, defaults and stored values
  of the kinds `Forms` has. Reading what was read changes nothing
  (`ClampIsIdempotent`, `ShownIsReadAlike`), so what the panel holds is what the plugin
  will read once saved (`IdentityInv`, `CleanPanelIsTrue`); and a draft is dropped or
  rewritten with every edit of its field (`DraftInv`, `DraftsTellTheValue`).
* `FoldFacts` and `AlarmOutputsProofs`: the corridor scan, the box of the route and
  the sums of leg lengths are folds over the legs. What a fold computes is established
  by induction on its initial segments (`IntervalInduction` over a set of indices,
  `FoldTable` for the table of its intermediate values); from it, for routes of any
  length, the scan finds the closest pass (`FlagIsClosestPass`) and the box holds every
  pass within the look-ahead (`CorridorBoxHoldsPasses`). Of the state itself little has
  to be invariant: that only details of ActiveCaptain bridges are asked for or kept
  (`DetailsAreKept`) and that a halted output has no alarm. `FetchBoxIsWideEnough`,
  `WarningsAreThoseOfTheRoute` and `AlarmsStaySilent` need no more. The box is shown to
  hold a point of the corridor for any values of `Rise`, once it is widened by the bow of
  the leg that passes the point, and for routes that, with the boxes around their
  points, stay clear of 180 degrees; §4 shows that it does not without the widening.
  `ClaimsFollowTheChart` and `LowBridgesAreNeverPassedOver` compare with the chart, so
  they assume that lists and details publish the charted clearances of a bridge and of
  its twin (`ChartedIsPublished`, which the run's constants satisfy). Which bridges a
  list merged is arbitrary from list to list; a bridge whose twin's clearance is the
  higher is excepted for as long as it is merged, which `MergedClearance` shows to be
  needed.
* `InputsProofs`, the tiers: `AgesAreBounded` follows an entry through memory, mirror and file:
  its stamp lies between its true load time and that less the setback so far, and a
  hydrated entry gets no more than what is left of its window. `Written` says the
  file holds what no timer is pending for. From them `ServedWithinTtl` (with the
  clock never set back) and the general bound, `OverIsSilent` and
  `CleanRestartKeepsFresh`.
* `InputsProofs`, ActiveCaptain's lists: the cache is a sequence of slots with distinct keys, each
  the promise of a fetch that was not rejected (`PromisesAreHeld`); every call awaits
  a fetch of the key it asked for (`CallsAwaitTheirKey`), which gives
  `AnsweredForItsTypes`; and while the keys fit, no fetch that is still good is out
  of the cache (`GoodIsHeld`, by a pigeonhole on the distinct keys), which gives
  `OneFetchPerWindow` for finitely many keys. `GoodIsHeld` survives an out-of-order
  rejection only because the rejection re-inserts a newer entry of its key.

* `InputsProofs`, the tiles: `Mirrored` says that the records map, the tiles and the
  tile kept for each record hold the same records, each once and in the tile of its
  position. Adding and removing keep it whatever the order, so a load, an upsert and a
  record that moves between pages do. The cells of a box then hold every record in it,
  and no cell is visited twice (`CellsOfBox`, `OneVisit`), which gives
  `EveryQueryFindsAll` but for aids at longitude 180 itself. The module assumes that a
  box falls short of the whole globe by a tile at least: a wider one visits a cell
  twice (§4).
* `InputsProofs`, NOAA ENC: each answered call holds the summaries of the layers that
  did not fail. The filter drops a feature exactly when the year of its timestamp, as
  `parseInt` and `Date.UTC` make it, is too old (`FilterDropsTooOld`, on the carry of
  `Date.UTC`), so that no feature is lost or kept against its date but one whose date is
  garbled or of the first century. What is listed is in the detail cache as long as the
  cache has room for one list (`Reseeded`).
* `ResourcesProofs`, the merge: two places no further apart than the reach on the grid
  of the list are in cells that touch (`ReachNorth`, `ReachEast`, for any scale the
  mean latitude may give), so the sweep finds a twin within the radius and that reach
  (`SweepAccepts`); §4 shows that the radius is not enough. Over each pass,
  step by step: no point kept so far has such a twin among the base points or, in the
  second pass, of its own source (`Clear`, `Single`), and each point taken so far is
  kept or credited on one that carries no higher clearance (`Accounted`, `Covers`). A
  kept point may take further duplicates, so the steps also need what never changes of
  it (`Grows`). From these `NoDuplicateIsListed` and `MergingLosesNothing`.
* `ResourcesProofs`, the notes: every listed id is a source's slug, the separator and the
  id of a point this source still holds (`NotesInv`); it splits back into the two as
  slugs have no separator (`PrefixSplitsOff`), whatever the raw id contains. That gives
  `NotesOpen`. Assumed are that a source gives each of its ids once, that radii are
  finitely many integers and that `None` is no value.

Only model-checked: all liveness properties (`EventuallyFresh`, `EveryCallSettles`,
`MovingVesselIsWarned`, `EventuallyComplete`, the `EveryListReturns` of `AggregateList`
and `NoaaEnc`, `PanelCatchesUp`), which need fairness and `ENABLED`. Every safety
property of a passing run is a theorem. Where a definition is a loop over data it is a
fold, not a `RECURSIVE` operator, and no theorem module reaches one that is recursive.

## 7. Not modelled

* Spherical trigonometry (`geo/position-utilities.ts`): floating point. The decisions
  made on distances are modelled on integer grids, with the sphere's effect on them:
  bows, cosines, metres to the degree and 180 degrees. Legs that are neither along a
  meridian nor between two points of one parallel, and the poles, are left out.
* The LRU limits of the bridge resolvers' caches and of the memory tier of ActiveCaptain
  (5000 entries): what they drive out is asked for again.
* HTML renderers, label tables, message texts, React components and styles: no state
  and no control. A route warning keeps what its text depends on: the distance and
  whether it has the clearance clause.
* The clamp of an over-wide Overpass box and the rounding of a bbox to its cache key.
* Wire schemas: an entry is usable or not. Counts and times of day of the status.
* A wall clock set back, in `PositionMonitor` and `HttpClient`: both compare
  `Date.now()` and stall by the setback.
* Two Light List stores on one directory: `close()` does not end a pass in flight, and
  a quick restart has two passes over the same files.

## 8. What is left

1. Two overlapping Light List passes over one directory.
2. Safety properties of the timing half of `AggregateList`, and their proofs: what the
   status rows say while requests overlap.
3. An abstract specification of an alarm output (alarm iff near and dangerous) that
   both `HazardWatch` and `AlarmOutputs` implement.
4. The course of `AlarmOutputs` taken from `CourseReader` instead of an arbitrary
   route.
