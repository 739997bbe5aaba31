# bobby in TLA+

bobby finds pictures on Bluesky that match a style, scores them with a language
model, and publishes ranked lists that a web page and a Bluesky feed show.  The
work is spread over programs that share no memory:

```
 Jetstream --> skeet-prune --> store (LanceDB on R2) <--> live-refine --> (model)
                                     |        ^                ^
                                     |        +- skeet-appraise |   config/refine.toml,
                                     v           (people)       +-- eval/*.toml
                               skeet-publish --> redis --> skeet-feed --> readers
                                                                (train, promote, ...)
```

These modules describe how those programs go wrong, or do not, between the
steps a test exercises.  Source paths below are relative to `src/crates/`.

## 1. Inventory

| Part | State it keeps | Operations | What is hard | What makes it correct | Modules |
|---|---|---|---|---|---|
| `skeet-refine`, live_refine | a gate (table version), a watermark, the batch of a tick | fetch, score, save, commit, once a minute | a memory of "how far" beside a table others write; failed scorings; rows out of order; restarts mid-tick | no image is forgotten, none paid for twice, a closed gate hides nothing | `Refiner` |
| ... scoring of one image | calls under way, totals, meters | call, retry, parse, count | concurrent calls, retries, a failing one in a batch | every image of a tick is counted once | `Scoring` |
| ... training tools, `eval`, model registry | whole files: registry, splits, results log, prices | train, promote, refine-eval, capture-appraisals, update-prices, sample-costs | load at the start and save at the end, crashes in a save, overlaps, rounding | what is deployed clears the gate and is on record; a cost means the price it names | `ModelRegistry`, `Evaluation`, `Prices` |
| `skeet-prune`, firehose stage | resume cursor, backoff | connect, receive, flap, reconnect | rewind, replay cap, stall timeout and backoff against each other | a resume leaves no gap; attempts keep their distance; poison is not for ever | `Firehose` |
| ... classification and one candidate's way | none | extract, look labels up, download, classify, save, count | lookups, downloads and writes that fail; posts delivered again; faces on edges | what is stored is fit, stored once, counted; nothing fit is dropped | `Candidate`, `Classification` |
| ... staged pipeline | four bounded channels, pools, two tokens | a step of each stage; drain, abort, deadline | back-pressure, close cascade, panics, two ways to stop | nothing stalls, a drain loses nothing, the process ends | `PrunePipeline` |
| ... statistics, status log, metrics | two recorders, a buffer | tally, record, flush, log, export | failed and ambiguous appends, shutdown, crash | no image is lost or counted twice | `Statistics` |
| `skeet-publish`, worker | gate (version key), scores cache | gate, read, probe, replace every list | no snapshot over tables or redis keys; failures between any two commands | lists are whole, never go back, and end up right | `Publisher`, `PublishedRegister` |
| ... read side | the chain of a request | catalog, pipelined read, retry, statistics | races with the swap, wider windows | never blank beside a list that stands | `Publisher`, `Statistics` |
| ... ranking, bands, limits, prediction | none | bands, calibration, visibility, orders, next match | appraisal against score, several images of a post, ties | every page agrees with the list | `Ranking`, `Statistics`, `AppraiseSite` |
| `bluesky`, existence checker | two TTL caches | probe posts, probe images | slow, inconclusive and lost probes | a deletion is seen one TTL late at most | `Curation` |
| `skeet-store` | tables, versions, indices, a scores cache per handle, counters | open, append, upsert, listings, paging, compaction, sweep of uploads | first opens at once, crashes half-way, cursors that move | an opened store is complete; a sweep leaves nothing | `Storage`; the tables in `Refiner`, `Publisher`, `Candidate`, `Curation` |
| `skeet-feed` | montage cache, tile cache, last good picture | page, skeleton, preview, 304s | second-grained dates, regenerations that join, overlap and fail | a 304 is true; the picture catches up | `Feed`, `Montage`, `Statistics` |
| `skeet-appraise` | sessions | sign in and out, pick a feed, page through the table, set and clear bands | overlapping tabs, stale pages, rows saved while paging | only the list is let in; pages miss nothing | `AppraiseSite`, `Curation` |
| exporters | none | scheduled pushes of operations, storage and costs | runs that overlap at different seconds, repeats, late figures, pages and batches that fail | no sample has more than its minute; success means all of it | `Exporters` |
| `observability`, `tracing`, test support | - | offline analysis, logging | - | - | not modelled |

`PROJECT.json` lists every component with its files, its status and the reason
for what is left out; its `hazards` are the list this project works from, each
at its line, with the properties that cover it.

How the parts meet:

* *pruner -> live-refine*: rows of `images`.  An image worker stamps
  `discovered_at` when it accepts an image; the save stage, one channel later,
  appends the row.  live-refine learns of it from the table's version.
* *live-refine, people -> skeet-publish*: rows of `scores` and of the two
  appraisal tables, again noticed by version, and filtered by the registry that
  skeet-publish was built with.
* *pruner -> skeet-publish*: rows of `prune_stats`, summed at a publication.
* *skeet-publish -> skeet-feed, skeet-appraise*: redis keys, per feed a list, a
  scratch key, a refreshed-at stamp and statistics, and one catalog.  No redis
  transaction is used; `RENAME` is the only multi-key step.
* *optimise* rewrites tables: versions move, rows do not.

## 2. Plan

Written and checked: all modules of the table above.  Proved: every safety
property of a passing run, state and step properties alike (section 5).  Left to
the model checker for good: liveness, and the arithmetic the provers do not know
(section 5, "What stays with TLC").  What could still be added is outside the
modelled parts: the observability tools, which only read.

The runs are few on purpose.  Several small machines that do not interact share
one run: `MCTools`, `MCAppraise`, `MCPages` and `MCLoops` choose in `Init` which
of them is alive in a behaviour, and the others rest in an initial state.  What
is checked of each is what a run of its own would check; the state spaces add,
they do not multiply.

## 3. Modules and code

### Refiner

One process, one tick at a time, so `stage` is a program counter:

| Action | Code |
|---|---|
| `Classify`, `SaveAdds`, `SaveSkips` | `skeet-prune/src/classify.rs` stamps; `save_stage.rs` and `persistence.rs` append or skip |
| `SkipTick`, `Poll`, `List`, `Fetch` | `PollingBatchSource::fetch`: version, gate, listing, gate cached with the version of `Poll`, originals |
| `Score` | `score_with`, joined by `dispatch_scoring`; fallback after retries is "not completed" |
| `SaveScores` | `batch_upsert_scores` |
| `Commit` | `Batch::watermark` and `PollingBatchSource::commit` |
| `Restart` | any store error, or a deployment: both memories are gone |

The version is read in one step and the table in another, which is where the
gate could lose a row.  `rows` is a set of (id, stamp) because a failing
`exists()` gives an id a second row, and the map by id in `get_originals_by_ids`
keeps either.  Only live-refine writes scores and nothing calls `delete_by_id`,
so the concurrent reads inside a listing are one step.  `inOrder` is history: no row
was saved with an older stamp than another, and no id twice.

`Scoring` opens the step `Score`: each image has calls under way, at most
`Concurrency` at once, a failed completion is retried three times
(`refine_image_resilient`), a rejected answer is not; the tick's accumulator,
the running totals, the exported counters and the token meters follow the order
in which `live_refine.rs` and `tick.rs` move them.

### Publisher, PublishedRegister, Ranking

`cycle[p]` holds the local variables of `publish_if_changed`; every read of a
version, of a table or of redis, and every redis command, is a step.

| Action | Code |
|---|---|
| `ClearCatalog`, `Advertise` | `PublishedListCatalog::write` from `main` |
| `Begin`, `ReadVersion` | the tick, `version_snapshot` over three tables |
| `CheckPresence` | `all_lists_present` |
| `ReadAppraisals`, `CheckScoresCache`, `ScanScores` | the concurrent reads of `fetch`; `cached_scores` tags with the version read before the scan |
| `Probe` | the existence check; under `StaleProbes` it may miss deletions |
| `ClearScratch`, `Push`, `Swap`, `SwapFails`, `Stamp` | `PublishedList::replace`, one command each; RENAME of a lost scratch key is an error |
| `Summarise` | statistics, then the gate after the last feed |
| `Fail`, `Restart` | an error anywhere in a cycle; the process ending anywhere |
| `Lose...` | eviction, a flush, `redis-cli DEL` |
| `ReadCatalog` ... `ReadStatistics` | `FallbackFeedSource`, `read_with_refreshed_at`, `read_with_retry`, the second connection |

A publication is its set of items with those that are live.  A table cell is
*none*, *hide* or *show*: what makes it so, and the order inside a list, is
`Ranking` (bands, the calibration of a score by its model's threshold, the
visibility of a post by its worst image, the three orders), which `Curation`
applies to rows, scores and appraisals.  Redis applies one command at a time.
The order in which lists are replaced is fixed in the code and free in the
model.  `ListsAreARegister` is the refinement: `list` implements
`PublishedRegister`.

### PrunePipeline, Firehose, Candidate, Statistics

Four views of the pruner, because together they would be out of reach:

* `PrunePipeline`: every worker, the saver, the tally and the firehose task is a
  process that receives, works and forwards.  `Take` and `Stop` are
  `pipeline::recv`, whose unbiased `select!` makes both possible at once;
  `Forward` and `GiveUp` are `pipeline::forward`, where a downstream that is
  gone cancels the shared token; `Panic` is a panic in `spawn_blocking`;
  `Signal`, `Complete` and `Deadline` are `Pipeline::run`.  A channel is closed
  when all workers of the sending stage are over.
* `Firehose`: what that firehose task does while it is online or not.  Stamps are
  kept as ages and timers as what they have run, so that the state is finite
  although time is not.  Endpoints may stamp an event late by up to `Skew`; a
  session ends by a flap, a silence, an event that does not decode, or an
  attempt that fails; `ReplayCursor` is the rewind and the cap, `BackOff` backon's
  schedule.
* `Candidate`, over `Classification`: one delivery of a post as a job with stages
  (label lookup, downloads, classification, save), jobs interleaved at will.
  A job's records are the positions of the accepted images among those
  downloaded.  `Classification` has the thresholds, the suppression of duplicate
  detections, the choice of a frontal face, zones, areas and skin on a grid of
  pixels; what the networks see is an input.  The sort by score is a rank, the
  number of confident detections that come before, and suppression adds one rank
  at a time.
* `Statistics`: the tally's two recorders, the table of intervals, the publisher
  that sums a window, predicts the next match and counts what is live, and the
  reader of page and skeleton.  `Figures` is the shape of what is published
  beside a list.

### Feed and Montage

`Swap` and `SetRefreshedAt` are the two writes of a publication, `ReadList` and
`AnswerHome` the two reads of a page with its conditional GET.  Of the preview,
`Ask` is the request up to the point where it waits, `Join` moka's `try_get_with`,
`FetchTile`, `Compose` and `ComposeFails` the generator, `FinishRefresh` the
spawned task that outlives its request, `AnswerStale` the 200 ms.  `Montage` is
the layout loop of `compose`, one row a step.

### Curation and AppraiseSite

`Curation` has one publisher whose probes take time: `Begin` reads and ranks,
`Probe` sends out what the two TTL caches hold no fresh verdict for, `Told`
takes the verdicts in, `Write` publishes.  Beside it people appraise
(`AppraiseImage`, `AppraiseSkeet`), posts and images go (`Delete`), and an admin
walks through the table page by page (`OpenAdmin`, `NextPage`).  `AppraiseSite`
is the session: a request reads the session's record when it first touches it
and writes all of it back when answered, so `BeginLogin`/`EndLogin` and
`BeginCallback`/`EndCallback` are steps of their own.

### ModelRegistry, Evaluation, Prices

A file is a value that parses or does not: `fs::write` truncates, so a crash in a
save leaves an empty file, which is what `damaged` and the torn writes are.
`TrainStart`, `TrainIterate` and the saves are `train`; the other tools are one
step from load to save unless they interleave with it.  `Evaluation` has the
split, the samples (with the f32 arithmetic where it decides a count), the
confusion matrices, the pinned operating point and the gate, as operators.
`Prices` follows a quote from models.dev through `prices.toml` and a build into a
reported cost.

### Storage and Exporters

`Storage`: `Open`, `CreateTable`, `CreateIndex` by several processes;
`CompactAndReindex` and `PruneOldVersions` by optimise; `BeginUpload`,
`LoseUpload` and the sweep `BeginSweep` ... `EndSweep`.

`Exporters`: three jobs, each a window, pages or batches, and a push that may fail
anywhere.  The clock ticks in half minutes: a run starts at any tick, looks back
some ticks (`Lookbacks`), cuts the stretch into minutes from there on and stamps each
sample with the middle of its window, so runs overlap with the same middles or with
middles half a minute apart, and a last window may be half a minute.  What happens
in a tick (`Happened`) may still be counted `Lag` ticks later, so a window may be read
before it is complete.  Of the buckets `ListBuckets` takes a first page, as
`r2_rest.rs:115-135` does.

## 4. Runs

| Run | Properties | What it shows |
|---|---|---|
| `refiner_safety` | `StragglersStayReachable`, `GateNeverHidesARow`, `NoScoredImageIsRescored`, `NoneBehindWatermarkInOrder` | live-refine neither forgets what it has seen, hides a row, nor scores twice; with rows in stamp order the watermark passes nothing unscored |
| `publisher_one` | `CurrentGateMeansCurrentLists`, `ListsAreARegister`, `ListsConverge` | one worker: a closed gate means current lists, lists change at once and forwards, and end up right |
| `pipeline_drain` | `DrainLosesNothing`, `AbortIsEarned`, `EveryPostIsTallied`, `AbortUnwinds`, `DrainEnds` | no loss, no unearned abort, no starvation, an end in every case |
| `firehose` | `NoSilentGap`, `AttemptsAreSpaced`, `GetsPastPoison` | resumes leave no gap, attempts keep their distance, poison is not for ever |
| `candidate` | `StoredIsFit`, `NothingFitIsDropped`, `ReplayAddsNoRow` | what is stored is what should be, once |
| `pages` | `AnswerIsNarrowestStanding`; `CountsAreKept`, `ExaminedWasSeen`, `NumbersAreFresh` | a request ends in the narrowest feed that stood; the numbers under it are true |
| `loops` | `EveryImageTried`; `NotModifiedIsTrue`, `PictureCatchesUp` | in stamp order every image is tried; a 304 is true; the picture catches up |
| `tools` | `AcceptedClearsFloor`, `AcceptedIsOnRecord`, `WrittenScoresAreShown`, `SpendWithinBudget`; `OperationsAreCounted`, `SuccessMeansAllOfIt`; `OpenedIsComplete`, `SweptIsGone` | the jobs beside the services; also `Scoring` and `Prices`, whose assumptions and actions TLC runs here and whose properties are proved |
| `appraise` | `PagesAgreeWithTheList`, `DeletionIsSeen`, `PagesCoverTheTable`; `OnlyTheListIsServed`, `LandsWhereItAsked`, `PickedFeedIsShown` | what people see and change, and who may |
| `refiner_late_row` | `NoUnscoredImageBehindWatermark` - violated | a row saved behind the watermark stays there until a restart |
| `feed_etag` | `EqualTagsMeanEqualPictures` - violated | two pictures under one ETag |
| `banner` | `BannerAgreesWithGrid` - violated | a banner that counts another list than the grid shows |

The three violated runs refute a sentence of the repository; `findings` quotes it:

* *late rows* - `polling.rs:37` says the oldest unscored straggler is always
  re-included; true of what a listing has once seen (`StragglersStayReachable`,
  proved) and of rows saved in order (`NoneBehindWatermarkInOrder`, proved), not of a row saved with a stamp
  below the watermark.
* *ETag* - `selection.rs:12-14`: equal signatures mean an identical montage.  Stale,
  partial and placeholder pictures leave under the wanted signature.
* *banner* - `handlers.rs:379-380`: the match count always agrees with the grid.  The
  list is read before a publication and its statistics after it.

### Bounds, and why they are enough

* `Refiner`: two images, clock 2, four versions give a batch with a completed and a
  failed image, a later row with an equal, lower or higher stamp, and a write in
  the middle of the tick that follows; the proofs remove these bounds for safety.
* `Publisher`: one item, two windows.  Items do not interact in a publication, and
  `CurrentGateMeansCurrentLists` is a statement per item.  Two windows are
  needed for a cycle that fails with one list replaced.  Two versions are a
  write before and one during a cycle, of any two tables.  One fault leaves
  a scratch key behind, loses a list, or loses the process.  Ages up to 1 let an
  item leave the narrow window and not the wide one.
* `PrunePipeline`: capacity 1, two posts, pools of two: a full channel behind a slow
  worker, a post overtaking another, one worker waiting while the other holds an
  item.  Two panics kill the pool.  The code's capacities, 16, 16, 100 and 100,
  only defer blocking.
* `Firehose`: one unit of time stands for at least the rewind; cap and silence are
  equal, as in the code, and the session must outlast both to be stable; delays
  of 1 and 2 have a doubling and a maximum; three events in view are one before,
  one at and one behind a cursor.
* `Candidate`: two posts that share an image, a grid of 4 x 4 with zones of one
  pixel, nine pictures with faces on ties, outside and too small and with
  several detections, two image workers, one replay, one post labelled from the
  start, one failed store call.
* `Statistics`: either a busy pruner (three ticks, two messages, one cycle, one
  fault) or a reader (two ticks, two publications, one visit, one fault); a
  window of two intervals, one append for two.  `Montage`: up to nine flat,
  square, high and wide tiles on a canvas that two rows overflow.
* `Feed`: three publications, two in one second, for a browser; one publication and
  two scrapers with two tiles and a cache of one montage, so that each new
  selection evicts the other.  The scrapers come to no list or to one with both
  tiles; the other list follows.
* `Curation`: three scenes with a budget for each event - scores and appraisals of
  two posts and three images by quality; deletions with a TTL of 1, batches of
  probes of up to 1, doubts, a restart and a lost list over four ticks; a walk
  by pages of two while rows are saved.
* `AppraiseSite`: two tabs, two accounts, two catalogs, two sign-ins, three visits,
  one fault: the least in which two sign-ins overlap and a stale page picks.
* `ModelRegistry`: four appraised images in two bands, scores 0 to 2, two prompts and
  the V1 entry, two recorded runs, one split, a crash in any save.
  `Scoring`: two images, two calls at once, two batches, one restart.  `Prices`:
  two models, labels, prices and stamps, torn writes.
* `Exporters`: two runs, one fault, one operation, figures up to two half-minutes late;
  runs at ticks 5 to 7 that look back five ticks and stop two or one short of now: windows of
  two ticks and of one, the same or half a minute apart, and a last one still incomplete
  when read.  Two buckets, one to a page, and an odd name.  `Storage`: two processes, two tables with indices, pages of one
  upload, two uploads, one row per table, one fault, one sweep.

Symmetry is used in safety runs only: over images in `refiner_safety`, over the
images of one band in `tools`.  Deadlock is checked where the system goes on for
ever (`refiner_...`, `publisher_one`, `pipeline_drain` with its stuttering end,
`firehose`); the other runs end when the traffic that bounds them does.

### Fairness

* `Refiner`: weak fairness of a tick's steps, because tokio's interval goes on for
  ever and nothing in a tick waits without end.  None for the pruner.
* `Publisher`: weak fairness of the publisher's steps, for the same reason: a
  failed cycle is counted and the loop goes on.  None for the store, redis'
  losses, readers or failures; faults are finite, because convergence is
  about the time after them.
* `PrunePipeline`: weak fairness of the firehose task's steps, of *some* worker's
  step (weaker than fairness for each), of the join and of the deadline's
  timer.  None for connecting, arriving posts, panics or signals, so an outage
  may last for ever, and `DrainEnds` then rests on the deadline.
* `Firehose`: time goes on and the network answers again and again; a process that
  is restarted for ever is the escape `GetsPastPoison` states.
* `Feed`: downloads end, tasks are polled, the site is asked by clients without a
  copy again and again.  That a composed montage is sometimes kept is strong
  fairness, for moka admits to a full cache what is asked for often.

## 5. Proofs

Eight proof modules: `LoopsProofs` (refiner, feed), `PrunePipelineProofs`, `FirehoseProofs`,
`CandidateProofs`, `ToolsProofs` (model registry, storage, exporters, scoring, prices),
`AppraiseProofs` (ranking, curation, site), `PagesProofs` (publisher, statistics,
montage) and `SumProofs`, the lemmas about sums the others share.  A module that
proves about several small machines extends the MC module that puts them together,
for it instantiates them as that one does.  All theorems hold for every value of
the constants that the `ASSUME` of the module, or its `...Constants` where it is
instantiated, allows; no bound of a run is used.

| Theorem | Says |
|---|---|
| `TypeCorrect` (`Refiner`, `Publisher`, `PrunePipeline`, `Firehose`) | every reachable state is well typed; no channel exceeds its capacity |
| `GateSafe` | `GateNeverHidesARow` |
| `StragglersKept` | `StragglersStayReachable` |
| `NoRescoring` | `NoScoredImageIsRescored` |
| `NoneBehindWatermark` | `NoneBehindWatermarkInOrder` |
| `WatermarkOnlyAdvances` | `WatermarkMonotone` |
| `SoleListsAreWhole` | `ListsAreWhole`, for at most one publisher |
| `SoleListsAreARegister` | `ListsAreARegister`, the refinement, for at most one publisher |
| `SoleGateMeansCurrent` | `CurrentGateMeansCurrentLists`, for at most one publisher |
| `AnswersAreNarrowest` | `AnswerIsNarrowestStanding`, for any number of publishers |
| `AbortsAreEarned` | `AbortIsEarned` |
| `DrainsLoseNothing` | `DrainLosesNothing` |
| `AttemptsKeepApart` | `AttemptsAreSpaced` |
| `NothingIsSkipped` | `NoSilentGap` |
| `FitIsOffCentre` | a picture in which `Classify` finds no fault is an off-centre selfie, whatever was detected |
| `OnlyFitIsStored` | `StoredIsFit` |
| `ReplaysAreHarmless` | `ReplayAddsNoRow` |
| `FitIsStored` | `NothingFitIsDropped` |
| `NoImageIsLost` | `CountsAreKept` |
| `CountsAreOfTheSeen` | `ExaminedWasSeen` |
| `PagesAreFresh` | `NumbersAreFresh` |
| `PictureIsLaidOut` | tiles lie within the canvas, none touches another, two rows are shown |
| `ProductionIsOnRecord` | `AcceptedIsOnRecord` |
| `ScoresStayReadable` | `WrittenScoresAreShown` |
| `GateKeepsItsPromise` | `AcceptedClearsFloor` |
| `StoresOpenComplete` | `OpenedIsComplete` |
| `SweepsLeaveFailures` | `SweptIsGone` |
| `SuccessIsComplete` | `SuccessMeansAllOfIt` |
| `CountsAreRight` | between ticks every image of a batch was exported once, as scored or failed, and the scored ones are in the table |
| `PricesAreFixed` | costs reported under one snapshot id were computed by the same prices |
| `VisibleFromThreshold` | a score shows in the feed if and only if it reaches its model's threshold |
| `CalibrationIsMonotone` | of two scores of one model the higher is never ranked below the other |
| `PostIsAsItsWorstImage` | a post shows if and only if no image of it, nor its own appraisal, hides it |
| `WalksMissOnlyTies` | `PagesCoverTheTable` |
| `DeletionsAreSeen` | `DeletionIsSeen` |
| `PagesAgree` | `PagesAgreeWithTheList` |
| `ListIsServed` | `OnlyTheListIsServed` |
| `SignInsLand` | `LandsWhereItAsked` |
| `PicksAreShown` | `PickedFeedIsShown` |
| `ListIsDetermined` | in each order there is exactly one list of given entries and appraisals |
| `PublicationIsDetermined` | in every reachable state a publication that begins has exactly one list to publish |
| `NotModifiedHolds` | `NotModifiedIsTrue` |
| `OperationsAreCountedOnce` | `OperationsAreCounted` |
| `TrainingStaysWithinBudget` | `SpendWithinBudget` |
| `PinLosesNoRecall` | the threshold pinned at a precision floor is the lowest score that keeps to it, and no threshold at all that keeps to it recalls more |

### What the theorems rest on

The constants are as the code has them, and the assumptions that matter say:

* `Firehose`: the base delay is at most the time a session must last to be stable
  (1 s and 60 s), the rewind at most the replay cap, and no event is stamped later than
  the rewind after it was emitted.  Without the last `NoSilentGap` is false.
* `Statistics`: a message counts posts, images and rejections by naturals; a list is
  short enough for its window that the shortest predicted wait is a millisecond at least,
  the limit `prediction.rs:77-79` names.
* `ModelRegistry`, `Ranking`: the tolerance is a fraction, thresholds lie on the scale.
* `Curation`: `Ttl + ProbeTime > 0`; a probe may take as long as `ProbeTime`, and the bound
  in `DeletionIsSeen` counts it.  Scores that are there at the start are on the scale.
* `Feed`: publications are made in the order of their numbers, in time that does not go
  back.  Two in one second are allowed; the property says what comes of them.
* `Exporters`: the stretch a run looks back over is not empty.  Nothing is asked of when
  runs start, of how they overlap or of how late figures are.
* `ModelRegistry!SpendWithinBudget` takes `SharesTruncate` for a hypothesis: what
  smartcore's f32 product of a share and a count yields is at most the quota the share was
  made from.  Nothing else about f32 is used.  TLC evaluates it for all bands of up to 63
  images, as far as the model's integers reach.
* `Candidate`, `Storage`, `Exporters`, `AppraiseSite`: sets that are finite in the code are
  finite.

"At most one publisher" (`Sole`) is a hypothesis of three theorems and is how the
service is deployed; a second one breaks all three, for both push to one scratch key.

### The arguments, by their inductive invariants

* *Gate* (`GateInv`).  The property says nothing of the middle of a tick, where
  the gate already holds the new version.  What is inductive is that neither
  gate nor the version read runs ahead of the table, and that a gate equal to
  the table's version implies the last listing saw all rows.
* *Stragglers* (`StragglerInv`).  Between listing and commit an image is
  reachable because the tick carries it: the invariant follows ids from
  `listed` to `batch` to `completed` to `scored`.  `Commit` is the one step that
  needs thought: the batch's watermark is at most the stamp of every row of
  the batch that was not completed, and `Advance` never passes it.
* *Stamp order* (`OrderInv`).  While rows come in order, a row that a running tick has
  not listed is stamped no earlier than all it has, so `Commit` cannot pass it;
  that the watermark is some row's stamp lets a row equal to it through.
* *One publisher* (`SoleInv`).  Between `RPUSH` and `RENAME` the scratch key holds
  nothing or exactly the next publication; a working publisher's time is the
  clock, so what a list holds is never newer than what replaces it.
* *Current lists* (`ReadInv`, `ListInv`).  A version is read before its table, for the gate
  and for the scores cache alike, so rows read under a version that still stands
  are the rows that are there; a cycle whose key is still the version has left
  every list it is done with as the tables are.  The first holds for any number of
  publishers, as all of it is in their own memory.
* *Answers* (`AnswerInv`).  A feed that has stood since the request began is still to be
  tried, or is the one being read; the feeds that stood all along only get fewer.
* *Cascade* (`CascadeInv`).  Until an abort, a worker ends only behind a channel
  that is empty and whose senders are all over, and such a channel stays so.  A
  task that finds nobody behind its channel is therefore looking at workers
  that panicked, all of them, and only image workers panic.
* *Flow* (`FlowInv`).  Until an abort, a pulled post that did not fall to a panic is
  in a hand, in a channel or tallied; when all tasks are over, `CascadeInv`
  empties the channels.  The image pool must have one worker that ended rather
  than panicked, or the channel before it may keep posts.
* *Attempts* (`PaceInv`).  What is left of a pause and what has passed since the last
  attempt make up the base delay; a session that was up long enough for the
  backoff to start afresh has made it up already.
* *Gaps* (`GapInv`).  Events age alike and come in the order they were emitted; the event that moved the
  cursor was stamped at most the rewind late, so what was not taken is older than
  the stamp by at most the rewind, which is what the cursor goes back.
* *Suppression* (`FitIsOffCentre`).  The best detection has rank 0 and is kept; every
  rank is reached, and what is not kept is a duplicate of something kept before it.
  So when one is kept, it is the best, and the others are its duplicates.  An accepted zone is compared with the
  middle one of its row, column by column.
* *Candidates* (`PostsInv` ... `CountsInv`).  Each stage of a job has what it owes: a download
  for every image wanted, then a record for every fit one, then a row, or a
  failure that is on record; the counts leave room for the records to come.
  Labels, rows and failures only grow, so what one job has is not undone by another.
* *Books* (`Sound`).  What the stage was told of, and what a retry doubled, is in the table,
  in the buffer, in the open interval, or was lost; and no row claims more since
  an instant than was told from then on, for every instant at once.  A figure was
  backed when it was made and what backs it only grows (`BackedStays`).
* *Layout* (`LayoutInv`).  Each row's tiles lie between its top and the next
  one's; a column's width and the cut height leave the gutters; two rows of the
  greatest height fit by the way that height is computed.
* *Registry* (`RecordInv`, `ReadInv`).  A file in use loads, and the candidate is in the log
  before the gate is asked; the reader and the file know all versions scores were
  written under, unless a save was torn or went over a newer file.
* *The gate's promise* needs no invariant of the registry: `PinQualifies` says that a pinned
  threshold reaches the floor it was pinned for, being chosen among those that
  do, and the recall given up is the difference the gate bounds (`Shortfall`).
* *Opening* (`OpenInv`).  A process on its way has everything of the specification that it has
  not got to do, whoever does it; indices are only added and tables only created.
* *Sweep* (`SweepInv`).  What is owed is on the page in hand or beyond the marker, and there is
  a further page if there is any beyond.
* *Exporters* (`FetchInv`, `LogInv`).  A bucket that was listed is fetched or left; when no page
  follows, every line of the day is there.
* *Counts* (`ScoringInv`).  The sizes of the sets a tick has scored, failed,
  and not yet answered add up to the batch; totals and meters trail the tick by
  what it has not exported yet.
* *Prices* (`PricesInv`).  File and baked copy hold quotes only from the history
  of quotes, an id is inserted once, and a torn file parses as nothing.
* *Calibration* needs no invariant: a normalised score is a fraction,
  1/2 lies between the scores below a threshold and the others, and within each
  half two fractions have one denominator.  Numbers are exact; the code's f32 is not.
* *Walks* (`WalkInv`).  The pages so far hold rows down to the cursor, and all of them that
  were there at the start, but for ties in the stamp at a page's edge.
* *Deletions* (`WorldInv`, `CycleInv`).  A verdict is no older than the probe it is of; from
  phase to phase of a cycle what is known of a target ages by at most one
  `ProbeTime`, three in all.
* *Agreement* (`AgreeInv`).  A list made at the version that stands ranks as the appraisals do;
  every appraisal moves the version.
* *Site* (`SiteInv`, `PickInv`).  Sign-ins have numbers of their own, and the record that holds a
  tab's number says where that tab was going; what was picked was on the page it
  was picked from.
* *One list* needs no invariant but the types of rows, scores and appraisals.  Each
  criterion is asymmetric and negatively transitive (fractions are compared crosswise,
  unknown scores come last); taken in turn such criteria are one of that kind, total
  because the ids at the end are; the visible entries are of different posts.  A list in
  order has each entry at its rank, the number of those before it, and ranks are all different.
* *Home page* (`HomeInv`).  The date beside the list is that of its publication or of an
  earlier one; a browser's copy has the date, in whole seconds, of a publication no
  later than the one the date now is of.
* *Operations* (`OperationsInv`).  Every window that was ever cut is one or two ticks long and
  ended by now, so its middle alone tells which ticks it has (`OneMiddle`) and two
  windows share a stamp only if they are the same.  A tick that was firm when
  a run could first read its window is not counted any more (`PartIsLess`), while the
  others only grow: each sample lies between the firm part of its window and the
  whole of it, whichever of two values the store kept, and a run has a sample of every
  window it is past, unless nothing firm happened there.
  Sums over ticks are compared by `SumProofs`.
* *Budget* (`SpendInv`).  What has been paid is at most the rounds so far times the size of a
  sample plus one image per further band; the evaluation was set aside before the
  division, and the division rounds down.
* *Pinning*.  Between two scores the confusion matrix does not change, so any threshold is
  as good as the least score above it; recall falls as thresholds rise, so of
  those that keep to the floor the lowest has the greatest recall.
* *Types* need a little more than `TypeOK`: that a reader has picked a feed
  before it asks for its companions, and who may hold a message.

Sums and suppression are inductions over data.  Where one is needed, a proof takes the
least counterexample (`WellFoundedInduction` for the order of the naturals) and
leads it to a smaller one, so no theorem with an operator parameter is used.

### What stays with TLC

The prover has no part in liveness or `ENABLED`, so `EveryImageTried`,
`ListsConverge`, `EveryPostIsTallied`, `AbortUnwinds`, `DrainEnds`,
`GetsPastPoison` and `PictureCatchesUp` are model-checked only.  f32 shares are
computed bit by bit with a fold and powers of two, about which the provers know
nothing; the one fact needed of them, `SharesTruncate`, is evaluated by TLC.
Which images a split or a sample holds is checked by the assumptions and actions of
`tools`; proved are the sizes (`TrainingStaysWithinBudget`) and the pinned
threshold.

## 6. Faulty variants

Definitions under a comment "Faulty:", or named `Bad...`, `Loose...` or
`OffByOne...`, precede the definition they are a slip of: a strict comparison, a
missing reset, a version read late, a sender dropped early.  No specification
uses them.  Each property of a passing run fails when the one `PROJECT.json`
names for it takes the place of the definition that follows it.

## 7. Behaviour of the code worth knowing

Met while modelling; no run is about them, because a document says nothing
else, or the point is too small for a run, or it needs detail the model leaves
out.

Documents and code that disagree:

* A failed scoring is "left for the next tick" (`skeet-refine/src/tick.rs:22`), but the
  gate (`polling.rs:42`) opens only when some write moves the table.
* LRANGE before GET lets the stamp be newer than the list, against
  `published_list.rs:126-128`; the old grid is then pinned under the new date.
* The feed catalog is written once per process (`skeet_publish.rs:97-99`) and does not
  come back after a flush of redis before a restart.
* Two publishers push to one scratch key (`published_list.rs:121-124`): a rolling update
  or a manual `--once` can mix two publications.
* The open interval's counts are in no record at shutdown
  (`statistics_persister.rs:76`), and the status log's since the last line are never
  exported.
* `results.rs:173` calls the log append-only; tools load it at the start and write all
  of it at the end (`train.rs:113`), so an overlapping tool's runs are lost.
* `metric_types.rs:153` speaks of the highest threshold; the lowest is chosen.
* `firehose.rs:155-156` says a failed download is skipped; the loop over a post's images
  ends there (`firehose.rs:175`).
* `effective_band.rs:76-77` says visibility and sort share the post's band; the sort uses
  the chosen image's.
* `maintenance.rs:61-65` reckons with a 10-minute cron, `infra/k8s/optimise-cronjob.yaml:9`
  is hourly.
* `handlers.rs:34` calls the top bias of the columns exact; five cards in four balanced
  columns are an exception.
* `register_feed` prints a URI under `did:web`, the served one uses the publisher's DID;
  `r2_metrics.rs:247` says streamed deletes are counted by `delete()`, and parts of
  uploads are in no counter either.

Corners:

* live-refine writes scores under the hash it computes; a promoted V1 entry's scores are
  under a V2 hash nobody registered (`docs/versioning.md:183-188`), the exception in
  `WrittenScoresAreShown`.
* `sample_band` (`split.rs:315-336`) panics where f32 rounding asks for more than there is; a
  zero price or round count divides by zero; `extract_json` (`refining.rs:61-65`) panics on
  a `}` before a `{`.  An answer without a usable score is paid for and not metered; a
  fallback's zero cost drags the averages of sample-costs down; a build bakes a torn
  `prices.toml` as it is.
* A 30 s silence is as long as the replay cap, so the gap after it is skipped and logged;
  flaps escalate the backoff beyond the cap; the cursor is computed before connecting;
  replays move it backwards.
* Negative face coordinates are cast to `u32`; a face on a border of zones belongs to the
  last; a failed `exists` writes a second row; the same image under another post is
  skipped; a label set after the lookup is not seen again.  No request has a timeout.
* A deletion in a quiet store is not probed; an inconclusive probe overwrites a verdict of
  "gone"; scores of unregistered versions are dropped before the rule that would hide
  them; items age out of a list only when it is republished.
* A montage whose tiles all failed is blank and cached; a warm-up with an empty selection
  caches a blank one; an older regeneration that ends last becomes the last good picture.
* Rows with one stamp across a page boundary of the admin table may be skipped
  (`images.rs:188`); the view by post replaces the clicked row by the post's first image
  (`admin.rs:366-377`).  Two tabs overwrite each other's sign-in; a stale `return_to` may
  follow; a sign-in begun on `/auth/logout` lands there.
* The operations exporter reads ten minutes every minute, cut at the second its pod
  starts (`cloudflare-operations-exporter-cronjob.yaml:9,30-32`): runs at different seconds
  write every operation again in samples of their own, so a sum over all samples counts
  it several times.  `OperationsAreCounted` therefore speaks of a sample and its minute;
  samples add up where their minutes do not meet.  What Cloudflare adds to a minute after
  its last reading is in no sample.  The two `date`s of
  the cronjob may fall on both sides of a second: then a run's last window is one second
  long, and its middle is half a second off that of any full minute, as the model's
  half minute is off.  With `--from` and `--to` given by hand it may have any length, and
  may then share a stamp with a full minute.
  A metrics store that refuses a second value for a stamp fails the run (`Fail`).
* The listing of buckets is read to its first page only: a bucket beyond it has no gauges
  and the run succeeds.
* Costs of several lines in one bucket share a sample.  With `has_more` but no `next_page`
  the first page of costs would be asked for again, for as long as the answer stays.
* The counters of `r2_metrics.rs` count calls of the wrapper's methods, not what R2 bills:
  a list is one call whatever its pages, a vectored read one whatever its ranges; deletes
  of a stream, parts and completion of an upload are in none.
* The sweep of uploads aborts a live writer's too, and its prefix matches sibling stores.
  Of two processes that open an empty store at once one may fail and must be restarted.

## 8. Not modelled, and assumptions

* Not modelled: the content of images, prompts and answers, the neural networks, HTML and
  templates, image encoding, Arrow decoding, command lines, parsing of identifiers and
  URLs, `tracing` and `observability`, the text of log lines, static pages and the DID
  document, test support, and the examples' tools.  They are most of the lines no
  definition maps to; they hold no state that two actors share, and a model of them
  would restate them.
* The wrapper of `r2_metrics.rs` adds one to a counter in each method; it has no state a
  step could take wrong, and what it leaves out is in section 7.
* `skeet-store` and the domain types are "partly": the queries LanceDB runs are taken by
  their result.
* LanceDB is taken to read and write a table atomically and to move its version with
  every write (the store is opened with a read consistency interval of zero); redis to
  apply commands one at a time.  An append that commits and reports an error is in
  `Statistics`, where the code speaks of it, and nowhere else.
* Stamps and versions are unbounded naturals; the code's microseconds and 64-bit versions
  do not overflow in practice.
