# emby_transcoder: a TLA+ verification project

Models of the concurrent parts of emby_transcoder, a proxy in front of an Emby
server that transcodes video with FFmpeg and feeds FFmpeg through a download
accelerator. TLC checks the models on small instances, TLAPS proves what matters
most for every instance. Line numbers refer to the files under `src/`;
`PROJECT.json` maps every definition to its lines.

## 1. Inventory

### 1.1 Input proxy (`internal/inputproxy/proxy.go`)

FFmpeg reads its input from a loopback HTTP server. Each session registers a
*source*; each HTTP range request on it is a *stream* that downloads chunks over
several routes into a sparse file and copies them out in order.

| component | state | operations | what is hard |
|---|---|---|---|
| chunk cache | `cacheFile`, `cacheChunks`; per record: completed, err, attempts, routes, done channel, context | `prepareCache`, `ensureChunk`, `runChunkAttempt`, `downloadChunk`, `copyCachedChunk`, `closeCache` | goroutines of several streams share a record; a second attempt (hedge) joins it on another route; the lock is released while downloading and waiting; a record runs under its creator's context; the source may be released at any time |
| range streams | `nextWrite`, `pending`, `busyLanes`, `activeRoutes`, `hedgeLosses` | `streamRanges` and its `schedule`, `nextAvailable`, `launch`; worker goroutines; `recordHedgeResult` | results in any order; routes move between lanes while tasks run; lossy routes read further ahead; a bounded window |
| route pool | `activeRoutes`, `finalHosts`, health and failures per route, metadata and fingerprint | `sourceMetadata`, `collectFirstRoute`, `expandRoutes`, `adoptRoute`, `replenishRoutePool`, `markRouteUnhealthy`, `acceptRoute` | background probing against a representation that other probes complete; a single-flight expansion |
| route distribution | `sources`, `dedicated` | `rebalanceLocked`, `routeAssignments`, `streamRouteIndexes`, `routeAttempts` | greedy assignment over sources that come and go, each with its routes in an order of its own |
| slots, gates, worker entries | `slots`, one gate per route; per entry: token, busy, source, bytes | `acquire`, `release`, `acquireRoute`, `beginWorker`, `addWorkerBytes`, `endWorker`, `clearSourceMetrics` | two semaphores taken in one order; cancellation while waiting; entries shared by requests and cleared under them |
| source lifecycle | `sources`, `src.ctx`, `closed` | `RegisterSource` and its release, `ServeHTTP`, `serveFallback`, `Close` | release while requests and probes are running |
| snapshots | none of their own | `Snapshot`, `RouteSnapshots`, `CacheSnapshots` | read-only |
| parsing | none | `parseRequestRange`, `parseContentRange`, `mergeCacheRanges` ... | boundaries |

Correct means: a chunk is downloaded by one record at a time and never again once
stored; bytes are only copied out after they were stored, and in order; every
waiting goroutine is woken; read-ahead is bounded; a stream that is being read
always makes progress while a route works; every route serves the same media; no
slot, gate or worker entry is lost. Where the code falls short of that, section 7
says how.

### 1.2 Transcoder (`internal/transcode`)

| component | state | operations | what is hard |
|---|---|---|---|
| session manager | `m.sessions`; per session: process, directory, play session, access times | `Ensure`, `Get`, `RecordSegmentRequest`, `RecordProgress`, `StopPlayback`, `Stop`, `Close`, `ReapIdle`, `stopSessionWithGrace` | sessions are stopped outside the lock; `Ensure` starts over after that; the reaper acts on an old scan; starting may fail half way |
| buffer control | `bufferPaused`, segment counters; the process's `paused` flag | `bufferActionLocked`, `applyBufferAction`, `ReconcileBuffers`, `Pause`, `Resume` | decided under the lock, applied after it |
| segment window and handler | `SegmentStartIndex`, `OldestSegmentKept`, `HighestSegmentSeen`, `ReadySegmentCount` | `Handler.ServeHTTP`, `sessionForSegment`, `shouldRestart`, `touchSession`, `cleanupOldSegments`, the growing playlist | fields read without the lock; operations by id may hit a replaced session |
| FFmpeg process | `cmd`, `done`, `doneCh` | `FFmpegRunner.Start`, `StopWithGrace`, `waitForExit` | the process may end at any time |
| inputs and pipelines | `m.media`, `m.vaapiEncodeFallback`; per session: input, audio stream, pipeline | `RememberMedia`, `shouldFallbackToVAAPIEncode`, `selectHardwarePipeline`, `audioMapArg` | keyed by the item: its versions and all clients share an entry |
| FFmpeg arguments, probes | none | `buildFFmpegArgs`, hardware probes | text |

Correct means: a session is current or being stopped by exactly one goroutine,
the number of current sessions is bounded, a request gets a session that fits
it, whatever is given up loses its process and its directory, FFmpeg is stopped
by SIGSTOP only while the buffer is full, what is believed to be kept is on disk,
nobody waits for a segment that will not come, everybody hears the audio stream
of their choice, and a pipeline that failed is not tried again.

### 1.3 Server (`internal/proxy`, `internal/emby`, `internal/policy`, `internal/config`)

| component | state | operations | what is hard |
|---|---|---|---|
| failover transport | `preferred` upstream | `RoundTrip` | retries of what may have been processed; concurrent changes of the preference |
| server, playback rewriting | none of its own | `handlePlaybackInfo`, `RewritePlaybackInfoWithReport`, `InputURLForID`, routing | urls from several replies and several processes meet in one session |
| dashboard | login sessions, configuration file | login, logout, save, restart | concurrent saves; the restart ends everything at once |
| configuration | the file | `Load`, `Parse`, `Save` | what is written must be read back to the same behaviour; a rename may not be possible |
| policy, logging | none | `ShouldTranscode` | data conversion |

### 1.4 Interaction

`Server` calls `Manager.Ensure` for playlists and segments, `RecordProgress` and
`StopPlayback` for playback check-ins. `Manager.Ensure` starts FFmpeg through
`FFmpegRunner.Start`, which registers the input with the input proxy and releases
it when the process has exited (`releaseInput`). FFmpeg then reads the loopback
URL: `ServeHTTP` calls `sourceMetadata`, `serveAccelerated`, `streamRanges`, whose
workers call `ensureChunk`. A reaper goroutine calls `ReapIdle` and
`ReconcileBuffers`.

## 2. Plan

In the order of importance:

1. `ChunkCache` (with the abstract `ChunkStore` it implements), proofs in
   `ChunkCacheProofs`: every byte FFmpeg reads goes through it.
2. `StreamRanges`, which EXTENDS `ChunkCache` and replaces its arbitrary callers
   by the scheduler of `streamRanges`, failing routes and other sessions; proofs in
   `StreamRangesProofs`, which EXTENDS those about the cache.
3. `SessionManager`, proofs in `SessionManagerProofs`.
4. `RoutePool`, `RouteAssignments` and `Upstream`: where routes come from, which
   source gets which, and what requests share; proofs in `RoutePoolProofs` and, of the
   last two, in `SharingProofs`.
5. `SegmentWindow`, `BufferControl` and `Playback`: what a session's FFmpeg writes and
   keeps, when it is paused and what it is started for; proofs in
   `SegmentWindowProofs` and, of the last two, in `FFmpegProofs`.
6. `Failover` and `Settings`: what comes before a session; proofs in `ServerProofs`.

A proof module of two components EXTENDS both, so their names differ. The `MC` modules
do the same: one that checks parts of several modules EXTENDS them and adds a variable
`part`.

All of this is done. What is left to a next step: the parsing of intervals and
headers, which is pure and has table tests, and the hazards in `PROJECT.json` that no
property covers.

## 3. The modules and the code

A definition named `D_X` is `D` with a plausible bug; it is used by no
specification and only shows that the properties are able to fail.

### 3.1 ChunkCache and ChunkStore

One source. A worker is `<<stream, lane>>`; `pc`, `job`, `held` and `res` are its
program counter, task, record and error value. `rec` is every `cacheChunk` ever
allocated, so a goroutine may hold a record that the map (`entry`) no longer
leads to. Each action is one critical section of `cacheMu` or one blocking
operation between two:

| code | actions |
|---|---|
| `ensureChunk`, the locked part | `EnsureClosed`, `EnsureHit`, `EnsureHedge`, `EnsureWait`, `EnsureCreate` |
| its `select` on `done` | `WaitDone`, `WaitCancelled` |
| `downloadChunk` without the lock | `DownloadOK`, `DownloadFailed`, `DownloadCanceled` |
| `runChunkAttempt`, settling | `SettleLate`, `SettleFinal`, `SettleJoin`, then `JoinDone` or `WaitCancelled` |
| worker loop | `Call`, `Return` |
| the world | `ClientGone` (request context), `CloseCache` (release) |

A chunk's bytes are its membership in `onDisk`. `DownloadOK` may happen after a
cancellation, as a response may be complete by then, and after `CloseCache`, when
`WriteAt` finds no file. The cache alone lets any worker ask for any job, which
is more than the scheduler does: what is proved holds for any scheduler.
`attempts` and `routes` of a completed record are cleared because nothing reads
them any more.

`ChunkStore` says what a user of the cache may rely on: absent, fetching, stored,
one fetch at a time, no fetch of what is stored. `ImplementsStore` is the
refinement, `Phase` the mapping.

### 3.2 StreamRanges

`Open` is the beginning of `streamRanges`; `Deliver` one turn of its main loop:
take a result, drop it from `activeRoutes` (`ActiveWithout`), count a lost hedge
(`LossAfter`), write out what is in order (`NextMissing`), and run `schedule`
(`Launches`: a hedge of the oldest missing chunk, or else a chunk for every idle
lane). `DeliverError` and `Drain` are the other branches. `RouteFails`,
`RouteRecovers` and `Rebalance` change the routes under it, between any two
turns. `Window` is the closed form of `nextAvailable`; `TakenBy` is what one idle lane
takes and `Fetches` the loop over lanes, each seeing what those before it took.
Routes are numbered from 1 and `pinned = 0` stands for the `-1` of the code.

### 3.3 SessionManager

A session is its generation, its position in `sess`; `sessions` is the map. A
goroutine in `Ensure` is at `"ensure"` before each turn of its loop: `continue`
after stopping a session is the return from `"stop"` to `"ensure"`. `TakeOut` is every
`delete(m.sessions, ...)`; the goroutine then stops what it took out, one session
after the other (`StopBegin` to `StopCleanup`). `variant` is everything
`shouldRestart` compares besides the play session and the oldest segment kept.
`proc` tells a process that is gone (`"exited"`) from one whose `Wait` returned
and whose `done` is set (`"done"`): in between the manager takes it for alive.

### 3.4 BufferControl

One session whose segments are numbered from its first one. `Decide` is
`bufferActionLocked` under the lock, `doing` what each goroutine has decided and not
yet applied (`Applied`: nobody has); `PauseLooks`, `ResumeLooks`, `Signal` and
`StoreFlag` are `Pause` and `Resume`, step by step, without it; the actions of
`Stop` are `StopWithGrace`. Nothing keeps a decision waiting for an earlier one to be
applied. `calm` is history and guards nothing: how many decisions, up to two, were
made since one was made while another was being applied (`Calmer`).

### 3.5 Failover

A caller is one `RoundTrip` of a request in `Outgoing`, and `trip` where it is:
`Begin` reads the preference, `Send` clones and sends the request, `Return` and
`Retry` are the branches after it. `Change` lets upstreams fail and come back at any
moment, `steady` remembers which ones worked all the while.

### 3.6 RoutePool

The routes of one source. `lock` is the request that holds `metaMu` while
`collectFirstRoute` probes (`round`); `scan` are the goroutines in `expandRoutes`,
the one the first probe starts and the one `replenishRoutePool` starts
(`recovering` is TRUE while it runs). `PoolSize` is the number of workers, capped: it
bounds the probes at once and the routes wanted. A fetcher is a goroutine in
`fetchRange`.

| code | actions |
|---|---|
| `sourceMetadata`, `collectFirstRoute` | `Lookup`, `Enter`, `ProbeFails`, `ProbeRefused`, `ProbeExpires`, `ProbeAccepted`, `Leave` |
| `expandRoutes` | `ScanStarts`, `ScanDrops`, `ScanExpires`, `ScanAccepts` |
| `adoptRoute`, `ensureFingerprint` | `ScanReceives`, `ScanSamples`, `ScanSampleFails` |
| `fetchRange`, `recordRouteResult`, `markRouteUnhealthy` | `FetchStarts`, `FetchRetries`, `FetchSucceeds`, `FetchFails`, `FetchCanceled` |
| the release of the source | `Release` |
| `rebalanceLocked`, for another source that comes or goes | `Rebalance` |

What an entrance serves is a final host, a size, two validators, the samples at
the head and all the bytes: two files may agree in any of these and differ in the
next. A world is a download mode and what each entrance serves. The worlds satisfy
`ValidatorsTruthful`: answers whose size and strong etag or date agree are of the
same bytes, which is what HTTP says of them and what `adoptRoute` relies on when it
accepts a route without comparing samples.

`pinned` is `dedicated >= 0`. In failover mode a source follows its focus only while it
is not pinned (`Follows`): one that shares the entrances keeps to the route it was
planned for, perhaps the standby (README.en.md:175), and a download that succeeds there
moves the focus to it. `routeAttempts` reads `dedicated` twice (lines 2202 and 2224); the
model takes the two reads as one. `byHead` and `used` are history and guard nothing: the
urls that were taken because their head alone matched, and the routes that served a
download planned while pinned.

### 3.7 Upstream

A sender is a goroutine that downloads a range, takes a sample, forwards a
request or probes; `stage` is where it is, and `Nobody` holds a free gate. `AcquireRoute` and `Acquire` are the two channel sends,
`GivesUp` is the end of its context while it waits, `Release` stands for both
deferred calls. `metrics` are the worker entries, `lease` is what `beginWorker`
returned; `Cleared` is `clearSourceMetrics`, which idles entries whose requests
still run.

### 3.8 RouteAssignments

Several sources (`Registrants`), each with its own list of routes in the order they
answered, and downloads over them. `Register` and `Withdraw` (the release of a source)
are the critical sections that end in `rebalanceLocked` (`Rebalanced`); `dedicated =
0` stands for -1. `Select` is one turn of the greedy loop of `routeAssignments`,
`Assignments` its result for every source; `HeldByOther` is `reserved`. `Lanes` is
`streamRouteIndexes`, `AttemptOrder` is `routeAttempts`; a download (`Launch`) makes
rounds of attempts (`Round`, `Succeeds`, `Fails`, `Leaves`) as `fetchRange` does. How
a route comes to be accepted is `RoutePool`; here `Accept` and `Recover` let any
fitting one join, in any order.

### 3.9 SegmentWindow

One id. `cur` is the generation in the map, `sess` what the manager knows of it,
`dirs` the FFmpeg and the directory of every generation. A request is `AskSegment`
(`sessionForSegment`) or `AskPlaylist` (`ensureFromRequest`), then `Ensure` in up to
four actions, then the steps that go by id: `RecordSegmentRequest`, `SegmentFound`
with `RecordSegmentReady`, `PlaylistWindow`. `RecordProgress` decides which segments
are old, `CleanupOldSegments` deletes them after the unlock. `Restart` ends the
process: the directories stay (`left`), and the generations start over. Of
`ReadySegmentCount` the handler asks only whether it is above 0, and `ready` says that.

### 3.10 Playback

One item, its versions (`catalog`) and several devices. `Remember` is one call of
`RememberMedia`, the loop of `handlePlaybackInfo` over versions; `AskFor`, `ReadMedia`
and `Look` are the three reads of the registry and the session that a segment request
makes, `wish` what it carries between them; `playing` is the session. `EnsureTakesOut`
and `EnsureCreates` choose the pipeline and the audio stream. An input url is a record
of what `Fingerprint` may compare. FFmpeg that fails and FFmpeg that finishes are one
action, as they are for the code; `TakenAway` is whoever else removes a session
(reaper, report, `Ensure` for another item).

### 3.11 Settings

A document is what a JSON text says of the password, the entrances and the hardware
mode, in either spelling. `Parse`, `Checked`, `Normalized` (a turn of its loop is
`Keep`), `Marshal` are the conversions of `internal/config`, `Starts` what `New`
accepts. `SaveRenames` is the write to a temporary file, `SaveTruncates` and
`SaveWrites` the fallback in place; `Exit` is `os.Exit` of the dashboard or a crash,
`Start` the next process, `Repair` somebody who corrects a file with which the service
does not start.

## 4. Runs and bounds

All runs are exhaustive. Parts of the program that share no state are checked in
one run: the initial state picks the part, the variables of the others stay as
they are, and each property speaks of the part it is about. This multiplies
nothing, as the states of the run are the sum of the states of its parts. The
type invariants of the parts of a run are its `PartsTypeOK`. The inductive invariants
of section 6 and `SessionLimit` are proved for every value of the constants and no
run repeats them.

| run | part: instance | shows |
|---|---|---|
| `input_proxy` | `ChunkCache`: two streams with two workers and one, one chunk, two routes | `AttemptsCounted`, `SingleFlight`, `ResultBacked`, `VerdictIsFinal`, `ImplementsStore` |
| | `RoutePool`: three entrances in two worlds; two requests and one failure, or one request and two failures; or, in failover mode, one request while other sources come and go, with two downloads at once or one failure | `OneRoutePerHost`, `SameMedia`, `StandbyKept`, `UnsupportedUnanimous` |
| | `RouteAssignments`: two sources and three entrances on two hosts, two failures; three sources and two entrances, one failure | `FairlyAssigned` |
| `returns` | `SessionManager`: two calls of any kind over two ids; or three calls of `Ensure` for one id and two variants | `GivenUpReclaimed`, `EnsureAnswers` |
| | `ChunkCache`: two streams of one worker | `CallReturns` |
| `delivery` | `SegmentWindow`: two clients, three segments, two generations; or one client and a restart | `SegTypeOK`, `KeptOnDisk`, `WaitsForWritten` |
| | `StreamRanges`: a stream of four chunks, two lanes, two routes that fail and recover, up to two sources | `LedgerExact`, `OutputBacked`, `ReadAheadBounded`, `StarvedOnlyWhenLossy` |
| `stream_steady` | the same stream, routes and sources undisturbed | `StreamEnds`, `WorkersExit` |
| `sessions` | `SessionManager`: two ids, two play sessions, two clients and the reaper, limit 1, three calls | `OwnedOnce`, `ReturnsFitting` |
| | `Playback`: three items; two devices, or one device and a restart; two PlaybackInfo calls | `HearsChoice`, `FallbackKept`, `RestartedForCause` |
| | `Settings`: two browsers, six documents, three saves, two failures | `SavedIsRun` |
| | `Failover`: three upstreams, two requests, two failures or recoveries | `FailsOnlyAlone`, `NeverUnsendable` |
| | `Upstream`: a download of each of two sources, which share a route, over two slots | `EntryExact` |
| `upstream` | `Upstream`: three requests, one source with two routes, one slot | `NothingLost`, `Served` |
| | `BufferControl`: a handler and the reaper, three segments | `Settled`, `ResumesUnlessCrossed`, `StopEnds` |
| | `Failover`: two upstreams, two requests, one failure or recovery | `Answered` |
| `stream_starved` | the stream of `delivery` | finding: `NeverStarved` fails |
| `stream_foreign_cancel` | two streams, two and one chunk | finding: `NoForeignCancel` fails |
| `session_reaped` | three calls | finding: `ReapsOnlyIdle` fails |
| `buffer_overlap` | `BufferControl`: two handlers and the reaper, five segments | finding: `ResumesWhenLow` fails |
| `stale_directory` | one client and a restart | finding: `ServesOwn` fails |
| `shared_retry` | two sources, three entrances, two downloads at once, one failure | finding: `RetriesApart` fails |

Why the bounds are enough:

- *One chunk* in the chunk cache: records of different chunks share nothing but the
  lock and the closing of the file. Three workers let one attempt settle, one
  join and one wait or create; a record can be completed, deleted and replaced
  while a goroutine still holds the old one. The number of records is not
  bounded by a constant: workers end with their streams.
- `Prefetch = 2`, `HedgeOffset = 2`, `LossLimit = 2` stand for 8 chunks (by
  default), 10 and 3. The code's offset exceeds its window just as 2 is enough to
  leave the window here (a chunk at `n + 2` is outside); four chunks leave room
  for the offset to matter.
- `MaxSources = 2`: `dedicated` is an index modulo 2 of at most two values, and only
  the source's own matters to `StreamRanges`.
- `MaxCalls = 3`: a session to be replaced, a competing call, and one more while
  the first is stopping: while a call for one variant stops what it found, another
  creates a session for the other variant, and the first meets it when it looks again.
  `MaxSessions = 1` makes every competing call meet the limit; the theorems hold for
  any limit and any number of calls. `EnsureAnswers` is claimed for calls that come to
  an end: against others that never stop asking for another variant the loop of
  `Ensure` need not end.
- `PauseAt = 2`, `ResumeAt = 1`, `Last = 3` in `upstream`: FFmpeg gets far enough ahead
  to be paused, and a seek takes the lead away. One handler and the reaper are two
  goroutines whose decisions can meet, also with `StopWithGrace`, a third one.
  `buffer_overlap` has a second handler and segments left to write (`PauseAt = 3`,
  `ResumeAt = 2`, `Last = 5`).
- `N = 3`, `MaxChanges = 2`: an upstream can fail while it is preferred and
  another come back. That every request is answered needs one change.
- `RoutePool`: three entrances on three hosts or two are a first route, a second
  and one that duplicates or contradicts them; one failure starts the
  replenishment, a second one hits while it runs. Two requests race for the first
  probe. One entrance serves a file that differs after the head, so the fingerprint
  decides. With other sources about, two downloads, one planned while pinned and one
  after, move the focus against each other. `MaxRoutes = 3` is never met by a state without failures.
- `RouteAssignments`: two sources with a spare entrance are the case of the README,
  and two entrances on one host make a source's own route one it may not have;
  a third source, more than `maxWorkers`, must share. A failure moves a source off
  its route, a second one off the next.
- `Upstream`: one slot and three requests make a gate and the slot contended at
  once; `MaxBegins = 2` lets an entry be taken over once, by a request that
  begins while the lease before is in use or was cleared.
- `SegmentWindow`: `Final = 2`, `Retention = 1`, `Forward = 1` give every relation of a
  request to the start, the oldest segment kept and the highest one seen; `Starts =
  {0, 1}` puts a start below and above the other; a second generation lets a
  request outlive its session.
- `Playback`: the items have one version with a DirectStreamUrl, one without, and
  two versions; the audio streams' numbers are not their positions.
- `Settings`: the documents use the old and the new hardware field, repeated urls
  (also in another case), empty and missing ones, a missing password, and a base
  path that does not match.

`CHECK_DEADLOCK` is on everywhere; the intended ends are explicit stuttering
actions (`Terminated`, `Ended`, `Rest`, `Over`, `Returned`, `Gone`).

## 5. Fairness

- `ChunkCache`, `StreamRanges`: weak fairness per worker. The Go scheduler runs
  every ready goroutine, and a download ends: the HTTP client has timeouts and
  `fetchRange` gives up when its routes are exhausted. A client is never obliged
  to leave nor a source to be released. `StreamEnds` is claimed for the
  undisturbed case only; what disturbance does is `stream_starved`.
- `SessionManager`: weak fairness per goroutine, for the reaper's steps, and for
  the end of a process that was killed and for `Wait`. A process that was not
  killed need not end, a session need not fall idle and no client need call.
- `BufferControl`: weak fairness for applying a decision and for `StopWithGrace`
  (its timers fire); strong fairness for `ReconcileBuffers`, a ticker that fires
  again and again and a mutex that Go hands to waiting goroutines. FFmpeg need
  not write and clients need not ask.
- `Failover`: weak fairness per `RoundTrip`; the base transport has timeouts.
- `Upstream`: strong fairness for a request at a gate and at the slots, as a
  blocked sender of a Go channel waits in a queue; weak fairness for the end of a
  download or a sample, which have timeouts, and for the deferred releases. A
  forwarded request need not end: FFmpeg may stop reading.

In a run of several parts the fairness of a part holds only while it is at work.

## 6. Proofs

`tlapm` checks all of them for every value of the constants, under the assumptions
named in the modules. TLC evaluates these in the runs.

| assumption | what it asks |
|---|---|
| `CacheAssumption` | finitely many workers |
| `RangeAssumption` | chunks and routes are numbers, a request is not empty and lies in the file, a stream has its lanes numbered from 1, at most `Prefetch` (`streamRanges` caps the workers), the thresholds are positive |
| `ManagerAssumption` | finitely many ids, a positive limit, the markers are no members of what they mark |
| `UpstreamAssumption` | finitely many senders, positive bounds |
| `RouteAssumption` | at least one entrance, none twice, positive numbers of workers and retries |
| `ValidatorsTruthful` | answers with the same size and validator are of the same bytes. It is about the upstream servers and nothing in the code checks it; without it `SameMedia` is not claimed |
| `WindowAssumption`, `BufferAssumption` | the thresholds are natural numbers, playlists start within the media, the reaper is no handler |
| `PlaybackAssumption` | an item has a version, audio streams are numbered from 1, the marker of nothing is no member of what it marks |
| `SettingsAssumption` | what may be saved and the first document are documents, the first one has a password and parses (the first start succeeds), the default url is one |
| `AssignmentAssumption` | sources and urls are numbered from 1, positive numbers of workers and tries |
| `FailoverAssumption` | at least two upstreams (with one the transport is not installed), methods and bodies are of the known kinds |

**ChunkCacheProofs.** `CacheInv` is inductive (`CacheInvariant`). The properties
alone are not: `ResultBacked` reads the verdict of a record, so verdicts must be
backed by bytes (`SuccessBacked`) of the right chunk (`HeldFits`, `EntryFits`), and
`"lost"` must never be a record's verdict or a download's result
(`LostIsRelative`), since a worker told `"lost"` lets its stream copy the chunk.
`SingleFlight` needs that a closed cache has an empty map. For `AttemptsCounted`
the set of attempts of a record grows or shrinks by exactly the worker that moves.
Four actions write records; `HedgeEffect`, `CreateEffect`, `FinalEffect` and
`JoinEffect` say what they do to the sequence, `RecordSteps` that no other action
does, `RecordsLast` that records stay and completed ones do not change, and
`OwnSteps` that what a goroutine carries changes only in its own steps. From the
invariant follow `TypesHold`, `AttemptsExact`, `OneFlight`, `ResultsBacked`,
`VerdictsLast` and `CacheImplementsStore`; the last maps `EnsureCreate` to `Fetch`,
`SettleFinal` to `Settle`, `CloseCache` to `Shut` and everything else to a stutter.

**SessionManagerProofs.** `ManagerInv` is inductive (`ManagerInvariant`): map and
hands share out the sessions whose directories are left. `OwnedOnce` alone is not:
that a goroutine's `todo` is disjoint from the others' and off the map
(`HandsFit`) must be known together with where goroutines are (`PlacesFit`: `cur`
is among `todo`, who is not stopping has nothing in hand). `StepKinds` sorts the
steps into those that keep directories and the map, those that take sessions out,
those that create one and the cleanup. `LimitHolds` is an induction of its own on
top. `ReturnsFit` is an action property: only `EnsureReuse` and `EnsureCreate`
return a session, and both in the critical section that checked or made it.

**StreamRangesProofs.** `RangeInv` is inductive (`RangeInvariant`): the cache's
`CacheInv`, that a stream not opened has idle lanes (`NotStarted`), that output
begins at the request (`InRange`), and `LedgerExact`, `OutputBacked` and
`ReadAheadBounded` themselves. The main loop is the one caller of the cache, so each
of its steps is a step of `ChunkCache` for the cache's variables, a change of routes,
or `Apply`: take results and hand out tasks. `CacheStepKeeps`, `RouteStepKeeps` and
`ApplyStep` are the three cases. What `Apply` needs of `Launches` is `LaunchesFit`: one
task per idle lane, different chunks, none under way on its route, all within the
window. It follows from the recursion over lanes by an induction on the number of
the lane (`UpToExists`, `TakenFits`). `StarvedOnlyLossy` is an action property: if
`schedule` launches nothing although a lane is idle (`NothingLeft`), the oldest missing
chunk is outside the lane's window, which happens only on a lossy route.

**SegmentWindowProofs.** `WindowInv` is inductive (`WindowInvariant`). `KeptOnDisk` alone
is not: a cleanup decided earlier must not reach beyond what was counted as deleted
(`TasksPast`), and for `WaitsForWritten` what counts as deleted must end where the
generation's FFmpeg began or later, although a request may move the session's start
(`CurrentFits`). `GivenMade` keeps a request that outlived its session away from the
directory of a generation that is not made yet. `DirStep` and `HandlerStep` are the
two ways a step may touch the directories and the requests.

**FFmpegProofs**, buffer control. `BufferTypesHold` and `BuffersSettle` hold for every order
in which decisions overtake each other. `BufferInv` is inductive (`BufferInvariant`): once a
decision was made that met no other, at most one goroutine applies one until decisions
meet again, and `Coherent` says at each of its steps what has been brought into
agreement with the manager's belief: the flag after one such decision (`FlagOnTheWay`),
the process after two (`ProcessOnTheWay`), because the second one finds the flag right
and therefore signals. `CalmerIs` says what a decision makes of `calm`.

**FFmpegProofs**, playback. `PlaybackInv` is inductive (`PlaybackInductive`). Each of the
three properties needs what the steps before it carried. `HearsChoice`: a request asks for
a choice that a reply gave it, even after a restart (`ChoicesOnly`); the mapped stream is
that of the session, and a request is served only by a session of its stream
(`MapsOwnStream`); so the number in the url is found among the streams (`AudioMapFinds`).
`FallbackKept`: an end in hardware is either remembered in `fallback` or still lies in
the session that `Ensure` will find (`FailureKept`). `RestartedForCause`: inputs are made
for a device that asked and from one url of its version (`InputsMade`), and once FFmpeg
has the DirectStreamUrl every later request of the only device has it too
(`DirectKept`, because the registry never loses it while the process lives:
`DirectStays`); then two inputs differ in nothing that `Fingerprint` compares.
`SessionStep` and `WishStep` sort the steps by what they do to the session and to a
request. From the invariant follow `PlaybackTypesHold`, `ChoiceHeard`, `FallbackHolds`
and `RestartsCaused`.

**ServerProofs**, failover. `FailoverInv` is inductive (`FailoverInvariant`): none of the
upstreams a request has behind it worked all the while (`PassedFailed`), only the last
failure is returned (`ReturnsLast`), and a body that can be read once has one attempt
(`OneShot`). `RoundReachesAll` is the arithmetic: N attempts in a row, from any
preference, reach every upstream. `FailoverTypesHold`, `FailsAlone` and
`BodiesSendable` follow.

**ServerProofs**, configuration. `SavedConfigurationRuns` has two halves. What `Save`
writes is read back to the same behaviour (`ReadsBack`), for every configuration the
program can hold (`Valid`): `normalize` leaves a list without empty, repeated or
equivalent entrances (`NormalizedClean`) and leaves such a list alone
(`NormalizedKeeps`). The list is built by a recursive function; `KeptExists` shows by
induction on the number of entrances that it exists, `NormalizedIs` what it is.
And the file holds what was saved last: `SettingsInv` is inductive (`SettingsInvHolds`)
with what the file may hold (`KnownText`), that a second writer in place marks it as hurt
(`LoneWriter`), and that a file nobody writes and nothing hurt is the last one saved
(`LastSaved`); `OverEmpty` is why a write over a truncated file leaves no tail.

**SharingProofs**, upstream requests. `UpstreamInv` is inductive (`UpstreamInvariant`). `EntryExact` alone is
not: an entry that is handed on must get a token newer than every lease of it
(`LeaseFits`), no two requests may have one lease (`LeaseUnique`), and a cleared
entry's new token must be nobody's. For `NothingLost` the set of requests that hold
a slot grows by `Acquire` and shrinks by `Release` alone (`SlotSteps`), and who is in
a gate has asked for it and not ended (`GatesHeld`). From it follow `UpstreamTypesHold`,
`SlotsAndGatesReturned`, `SlotsCapped` and `EntriesExact`. `LeastExists` gives the
first free entry, so that `Entry` chooses one.

**SharingProofs**, distribution of routes. `FairlyAssigned` speaks of one state, but not of
any: `ShareInv` is inductive (`ShareInvHolds`) with the types, that finitely many sources
are registered, that no url is in a source's list twice (`OneOfEach`, or the first of the
routes at a place would not be the only one) and that a download under way has a route left
to try (`AtWork`). `Assignments` is a recursive function over the sources in their order:
`ChosenExists` makes it for the first n of them, by an induction on n (`NumbersReach`),
and `AssignedIs` says that each source is given `Select` of the hosts used before it.
`SelectIs` says which of the four preferences of the greedy loop made a choice, and
`ForcedOnly` and `PinsKept` read the two promises off it; for the second, a source that
holds another's host without wanting it had nothing else left. For the types,
`AscendingIs` and `AttemptsIs` show that a retry goes over routes that are there.

**RoutePoolProofs.** `PoolInv` is inductive (`PoolInvariant`). `RoundFits` says of the
first probe that what was launched and neither failed nor is on its way was
refused; `RefusedByAll` follows, as a round ends only when nothing is left to launch.
`StateFits` says what goroutines and downloads carry from one critical section to the
next: the place of a failed route is in the list, a sample compared is the one of
the metadata or will become it (`PrintFits`, `ScanFits`), and downloads have routes that
are there (`FetchFits`). `Undisturbed` is what holds while no download has failed: one
goroutine, which knows the hosts of all routes and wants more of them than there
are (`Expanding`), all routes healthy, the focus on the first or on one that served a
download planned while pinned (`FirstFollowed`). `SameMedia` needs what the goroutines
carry (`MediaFits`, `Carries`): a url about to be accepted has all bytes of the media or is
in `byHead`, which stays empty until there is a fingerprint (`PastFits`).
`ExpandSteps` sorts the steps of `expandRoutes` into four kinds (`GoesOn`, `Compares`,
`Matched`, `Joins`), each with a lemma of its own. From the invariant follow
`TypesHold`, `OneRouteEach`, `MediaSame` and `StandbyStays`. `MediaSame` has no hypothesis
on failures; what it excepts, routes taken by their head alone, is what the code excepts.

**Only model-checked.** Liveness, which needs fairness: `CallReturns`,
`GivenUpReclaimed`, `EnsureAnswers`, `StreamEnds`, `WorkersExit`, `Served`,
`ResumesUnlessCrossed`, `StopEnds`, `Answered`. Every safety invariant and action property of a passing run is
stated by a theorem; `PartsTypeOK` of a run is the conjunction of its parts' type
invariants, each of which has one (`TypesHold`, `BufferTypesHold`, `PlaybackTypesHold`,
`FailoverTypesHold`, `SettingsTypesHold`, `UpstreamTypesHold`, `SharesTypesHold`).

## 7. Findings

- `stream_starved`. A route that lost `hedgeLossThreshold` hedges in a row is read
  `hedgeChunkOffset` = 10 chunks ahead, outside the default window of 8, and is not
  used for hedges. If it is the only route left to a stream, because another
  session pinned the source to it or the other route failed, `schedule` launches
  nothing, no result ever arrives, and the stream waits until FFmpeg gives up.
- `stream_foreign_cancel`. A record's context derives from the stream that created
  it. A hedge of another stream that joined it is cancelled with that stream, and
  the error ends the stream that is still being read.
- `session_reaped`. `ReapIdle` scans under the lock and stops by id after it: a
  session renewed or replaced in between is stopped. The window is small for the
  first id and grows with every session that is stopped before it, up to the
  grace period each.
- `buffer_overlap`. Decisions to pause and resume are applied after the unlock and
  may overtake each other: FFmpeg then stays stopped while `bufferPaused` is
  FALSE, until a request misses the segment window and restarts the session, or
  the reported position goes back far enough for another pause to be decided.
  `Settled` and `ResumesUnlessCrossed` say what holds all the same: two decisions that
  meet no other put it right, and FFmpeg is always woken until two decisions meet.
- `stale_directory`. `nextGeneration` starts over in every process, the directory of
  a session is named after it, `MkdirAll` takes the directory as it is, and no exit
  removes one. The first session of an item after a restart serves, and counts as
  ready, what the FFmpeg before the restart left at the same generation, until its
  own FFmpeg has overwritten it. The input cache of the same program removes stale
  files at its start.

- `shared_retry`. A download whose route failed is to leave the routes of other
  sources for last, but `routeAttempts` compares indexes of different lists: each
  source has its routes in the order they answered. The retry then prefers the host
  that the other source downloads from and puts a free one behind it. The test of
  two sessions has the same order in both sources.

Disagreements the models show in plain sight and no run is spent on.
`WholeMedia` of `RoutePool` does not hold: while a stream fills the cache the fingerprint is
of the first 64 KiB alone (`proxy.go:1140`, `1293`), and a route whose head matches is
used, whatever its middle and tail are. `README.en.md:169` and `:192` say that samples of
the head, the middle and the tail are hashed. The first route downloads chunks as a
rule when the second is probed, so this is the normal case for servers that send no
validators; `SameMedia` says which routes it concerns. `NotReplayed` of `Failover` does not
hold: a write whose body can be had again is sent to the next upstream
(`upstream_transport.go:102`, and a test expects it), while `README.en.md:173` says that
requests such as POST are not replayed. `FailsOnlyAlone` asks nothing of such requests.
`DistinctHosts` of `RoutePool` does not hold once a download failed: the goroutines
of the first expansion and of a replenishment each remember only the hosts they
found (README.en.md:192 says such entrances are deduplicated).
`RangeRequestsCapped` of `Upstream` does not hold: probes take no slot
(README.en.md:169 speaks of a hard global limit). `BlankKeeps` of `Settings` does not
hold: a save without a password writes the running one over one saved since the
start (`dashboard.go:282`). `OwnVersion` of `Playback` does not hold: all versions of
an item have one id, and the last one remembered wins (`playback.go:297`).
`EnsureStartFails` leaves the new generation's directory behind
(`manager.go:497`), which nothing refers to any more.

## 8. Not modelled

- In the modelled parts: the failover mode of `streamRouteIndexes` (a source by itself takes
  `FocusIndex` of `RoutePool`, a pinned one its route of `RouteAssignments`); errors of writing to the client, which act as the
  client leaving; disk errors, which act as a failed download; an `os.MkdirAll`
  that fails, which acts as a rejected `Ensure`; the times at which routes are
  checked; a temporary file that cannot be written beside a configuration file that can
  be renamed over (`config.go:233`); gaps that retention leaves in the count of ready segments beyond the
  limit of 256 segments per scan; the 12 hours of a dashboard login, which may end
  at any time; Windows, where `Pause` and `Resume` do nothing.
- The parts are composed where they share state in the code: `StreamRanges` with
  `ChunkCache`. Others meet only through a few values, which each module lets be
  anything the other may produce: routes that fail (`StreamRanges`), sessions that
  are taken out (`SegmentWindow`, `Playback`), sources that are released.
- In `Failover`: a client that gives up, after which every further attempt fails at
  once, and a `GetBody` that fails. In `BufferControl`: the time `Kill` takes.
- `SessionLimit` bounds the map. FFmpeg processes may exceed `MaxSessions` while
  sessions that were taken out are being stopped; the code promises no more.
- The components listed in `PROJECT.json` as `not_modelled`, with the reason for
  each: the parsing of ranges and headers, snapshots, the text of playlists and of
  FFmpeg's arguments, client policy, logging.
