# LiveCast-Server in TLA+

Specifications of LiveCast-Server, of the parts whose correctness rests on the
order in which goroutines, requests and failures meet; the runs that
model-check them; and machine-checked proofs about the most central ones.
Paths are relative to the root of the repository; `core/` stands for
`backend/core/internal/`.

1. [The system](#the-system)
2. [What is modelled, and how it corresponds to the code](#what-is-modelled)
3. [The runs](#the-runs)
4. [Fairness](#fairness)
5. [The proofs](#the-proofs)
6. [What the models found](#what-the-models-found)
7. [What is not modelled](#what-is-not-modelled)
8. [Plan](#plan)

To check: `tlc -workers 2 -config Path.cfg MCPath` (each run of the table below
in the same way), and `tlapm` on each of the `...Proofs.tla`.

## The system

LiveCast-Server is a desktop application (Wails: Go and a window) that receives
the video of phones, shows it, records it, offers it as NDI, and tells the
phones whether they are on air. It embeds a fork of the MediaMTX server, which
receives, records and distributes the streams.

| Part | Code | State it keeps | Operations | Talks to | What makes it correct |
|---|---|---|---|---|---|
| Path | `core/core/path.go` | source, stream, readers, clients on hold, on-demand state and its timers, recorder, hooks, counter of pending requests | describe, add/remove reader and publisher, source ready/not ready, four timers, reload, close | manager (callbacks and one counter), static source handler, stream, recorder, sessions | no client is forgotten or told twice; nobody reads a stream that is not fed; what was started on demand is stopped; nothing survives the path |
| Path manager | `core/core/path_manager.go` | map of paths, their configuration names, the configuration | find/create a path for a client, close an idle path, hot and cold reload, shutdown | paths (waits for them), sessions, API | a name has one live path; the map is what runs; a path has the source of its entry; waiting ends |
| Static source handler | `core/staticsources/handler.go` | running, context, configuration, retry timer | Start, Stop, ReloadConf, SetReady, SetNotReady | path (calls, and answers requests of the source), the `Run` of the source | one `Run` at a time, none after Stop; a stream exactly while a run feeds it; Stop returns; failures are retried |
| Static sources | `core/staticsources/*`, `core/protocols/whip`, `core/protocols/webrtc` | a connection, a reader goroutine, deadlines | `Run` of eight kinds of source | handler, the network | a call keeps the contract of the interface; it ends, and leaves nothing open but what two of them are known to leave |
| Stream | `core/stream/*.go` | current sub stream, time offset and last time, readers and their queues | write a unit, add/remove a reader, hand over to the offline segment and back | path, publishers, sessions | readers see the sub streams one after the other, in time order; no callback after removal; the gaps are filled |
| Codec pipeline | `core/stream`, `core/codecprocessor`, `core/protocols` | parameter sets, an encoder for packets that are too big | decode, remux, offer tracks | stream, sessions | a viewer can decode what it is sent, whenever it came |
| RTSP and RTMP servers | `core/servers/rtsp`, `core/servers/rtmp` | sessions, connections, hooks | protocol callbacks, kick, close | manager, path, stream, external commands | a session that ends gives back its path and its commands |
| Recorder, recording store, cleaner | `core/recorder`, `core/recordstore`, `core/recordcleaner` | current segment and part / files / a timer | write, rotate, fail, restart, delete | stream, file system | segments follow each other and are whole; nothing young is deleted |
| Playback | `core/playback` | none | list, get | file system | what is listed is there and can be asked for |
| Core | `core/core/core.go` | the components of the server | create, reload, close | everything | a component is replaced together with what depends on it, and only then |
| Configuration, its watcher, API | `core/conf`, `core/confwatcher`, `core/api` | the configuration; last change | load, validate, edit, notify | core | what is accepted takes effect and can be run |
| Authentication | `core/auth` | users, a cache of keys | authenticate, reload, refresh | servers, API, path manager | a verdict is that of what was in force |
| External commands, hooks | `core/externalcmd`, `core/hooks` | processes | start, restart, terminate | paths, servers, core | no process is left when the server ends |
| Tally | `backend/tally/vmix.go` | last state of each camera, stop channel | Start, Stop, poll vMix | camera control | every goroutine ends after Stop; what was noted is what was sent |
| Camera control | `backend/control/manager.go` | connection of each camera | register, read loop, SendCommand | phones | the newest connection is the one in the map |
| Application, preview, DVR | `app.go`, `backend/preview`, `backend/dvr` | NDI encoders, broadcasters, ffmpeg processes | GetTelemetry, HTTP endpoints, record | API of the server, decoder, NDI | an output for each stream that stays; no frame to a closed channel; no process is lost |

A client (a session of a protocol server) asks the manager for a path, the
manager looks it up or creates it, increments `pendingRequests` of the path and
returns it; the client then calls the path itself, which is another goroutine.
The path calls the manager back (`setPathReady`, `setPathNotReady`,
`closePathIfIdle`), and the manager waits for paths that it closes. A path owns
a static source handler, whose `Run` sends requests to the path; the same
goroutine of the path stops the handler and waits for it. A stream has no
goroutine of its own: writers, the path and the sessions meet on its mutex.
The core closes and creates all of these when the configuration changes, and
the API, one of them, asks it to.

What is hard to test there is listed, line by line, under `hazards` of
`PROJECT.json`. In short: goroutines that wait for each other in a circle
(manager and path, path and handler, handler and source, API and core,
`RemoveReader` and a writer); decisions taken on what another goroutine said a
moment ago (`closePathIfIdle`, the configuration that `go reloadConf` carries,
an answer of the API that is late); timers against the demand they were armed
for; reloads and failures in the middle of everything; and teardown in every
state.

## What is modelled

Every module has one action per event of the code, named after the function or
after the select case, and the whole handler is one action wherever the code
runs it without giving way. Where a handler blocks half-way (on a channel, a
mutex, or another goroutine) it is split there, and nowhere else. `map` in
`PROJECT.json` gives the lines of every definition. Definitions with a `_` and
marked "Faulty variant" are not part of a specification: each is the definition
below it with a plausible bug, and the property it breaks is named under
`mutants`.

| Module | Models | State |
|---|---|---|
| `Path` | one path, its clients, and what the manager does to it | `phase` (serving an event, inside `closePathIfIdle`, gone), `ctx` (context, and the two steps of the manager's decision), the fields of the path, `readerState` and `publisherState` of the clients |
| `PathManager`, `Registry` | the manager and its map; the paths as it sees them; what it promises | `manager` (where its goroutine is), `paths`, and of each path `loop`, `conf`, `cancelled`; `Registry` is the abstract specification |
| `SourceHandler`, `SourceRun` | `run()` of the handler between the path and its source; the contract of a call of `Run` | `path`, `run`, `instance` of each call, reloads on their way |
| `StaticSources` | one call of `Run` of RTP and MPEG-TS (each by UDP or a Unix socket), RTMP, SRT, RTSP, HLS and the two camera sources | `main`, `reader`, the connection, the deadline (`clock`), the goroutine that waits for the camera (`waiter`), the other end |
| `WhepSource` | the same of WebRTC: handshake, trickled candidates, callbacks | `main`, `inner`, the peer connection, the session at the server |
| `Stream` | hand-over between sub streams, readers, queues, mutex | `path`, `subStream`, `worker` and `queue` of each reader, `mutex` |
| `Relay` | a unit on its way from a publisher to a RTSP and a RTMP viewer | parameter sets that arrived and that are held, the encoder, packets and frames sent |
| `Servers` | sessions and connections of the RTSP and RTMP servers on one path | protocol state, running handler, request, hook, what the path holds of each client |
| `Recordings`, `Playback` | recorder, cleaner and deletion by the API; what the playback server makes of what is on disk | `store` (the files), the segment being written, clock, faults |
| `Core` | the components, their reload, the watcher of the file, edits of the API | what each component was `given`, references that `dangle`, `core` (loop), how it is asked to end (`cancelled`, `interrupt`), `broken` (the watcher) |
| `Conf` | files, old names, defaults, validation, edits, the entry for a name | what is written, what is derived |
| `Auth` | the three methods, the cache of keys | users, keys, who holds the mutex, requests |
| `Commands` | the goroutine and the process of the commands of hooks, the pool | `routine`, `process`, `owner` |
| `Tally` | vMix pollers and the connections of phones | `poller`, `lastStates`, `connections`, `light` |
| `App` | NDI outputs, previews, recordings by ffmpeg | `query` of each window, `output`, `activeNDI`, `broadcasters`, `processes` |

What one has to know to read them:

- **`Path`.** A client makes one blocking call at a time, so a request on its
  way is a state of the client; the hold lists are the path's own. The
  on-demand state of static sources and that of publishers are the same
  variables: a configuration never has both (`ValidConf`, from `conf/path.go`),
  and neither can be hot reloaded. Each event ends as in the code:
  `EndWithCheck` for those after which the path looks at `shouldClose`, a plain
  return for the others.
- **`PathManager`.** Closing a path is two steps, since `pa.wait()` blocks the
  manager; a reload is a step for each path, as `doReloadConf` visits them,
  with the configuration delivered later by a goroutine of its own (`late`).
  Configurations are functions from keys (names, and one regular expression) to
  a kind, which cannot be hot reloaded, and a version, which can. Path instances
  have identities so that a name can have two of them; one that is gone and
  referred to by nobody is used again.
- **Sources.** `SourceHandler` has abstract calls of `Run`; `StaticSources` and
  `WhepSource` have one concrete call each; the three meet in `SourceRun`, which
  each implements from its side. A deadline is set per packet (RTP), once for
  the tables (MPEG-TS, SRT, RTMP), per request (RTSP), per HTTP request (HLS: so
  that connecting as a whole is not bounded), and not at all by the cameras. The
  process of the camera and the callbacks of pion are external; the goroutine that
  waits for that process (`rpicamera/source.go:250`) is not.
- **`Stream`.** `SubStream.Initialize` is taken in the steps that the mutex
  makes of it. A unit is the number of its sub stream and a timestamp.
- **`Servers`.** gortsplib is external: of it the model has what the handlers
  use (one handler at a time per session, `OnSessionClose` when none runs, no
  handler begun after Close). The path answers as it likes.
- **`Recordings`.** Time is in ticks; a segment is a header, parts and samples.
  A tick is what the names of two files tell apart. The length of segments is part
  of a case (`SegmentDuration`); `LongSegments` says when it is more than what the
  tracks and the clock can be apart, which the configuration does not ask for.
  Creating a file, its header and its first part are one action, so that nobody lists
  or gets the file in between. The functions of `Playback` are those of the code,
  over the set of segments.
- **`Core`.** Parameters that the code always treats alike are one parameter. The
  close flags of `closeResources` imply each other; what they close is the least
  set that is closed under those implications (`ClosedWith`). The server ends in two
  ways that are not alike: `Core.Close` cancels the context, from outside; a signal is
  read by the loop only, in its `select`, and the context is cancelled after that
  (`core.go:284`). A watcher that fails closes its channel, which the loop then reads
  again and again.
- **`Conf`.** A written value is optional, so a set of values is a record with
  the fields that are given; each edit derives everything again.

The MC modules hold the constants of the runs. `MCSources`, `MCMedia` and
`MCServices` each instantiate several specifications: a behaviour is one of
them, and the others stay where they begin.

## The runs

| Run | Instance | States | Shows |
|---|---|---|---|
| `path` | 13 configurations, 2 readers, 2 publishers | 60 000 | `ClientsAgree`, `DemandAgrees`, `StreamAgrees`, `ReadersAreKept`, `EveryDemandEnds` |
| `path_manager` | 2 names and the pattern, 3 configurations, 1 reload, 1 client, 3 instances, symmetry | 344 000 | `MapAgrees`; `ImplementsRegistry`: it refines `Registry` |
| `path_manager_liveness` | 1 name, the primary camera, 1 reload, 1 client | 62 000 | `PathsAnswer` |
| `sources` | handler (ordinary and camera, on demand or not, one reload), ten protocols, WHEP | 19 000 | `OneRun`, `SourcesAgree`, `ContractIsKept` (three refinements of, or to, `SourceRun`), `NothingHangs` |
| `stream` | video and audio, 1 reader, queue of 1, 3 sub streams, timestamps 0 and 1 | 306 000 | `SilentOnceRemoved`, `IsContinuous`, `NobodyWaits` |
| `media` | recorder: 4 cases of format, length of segments, bounds and faults, 2 streams; relay: 10 publishers | 402 000 | `MediaAgrees`, `PlaybackAgrees`, `SegmentsStay` |
| `servers` | 2 clients of 5 pairs of kinds | 226 000 | `ClientsAgree`, `ClosingEnds` |
| `core` | 14 parameters, 2 changes, 1 request | 166 000 | `ReloadsAgree`, `ShutdownEnds` |
| `core_deadlock` | 13 of them | | violation of `EditsReturn` |
| `services` | 6 files and 2 edits; 2 requests of authentication; 1 hook on 2 systems | 86 000 | `ServicesAreRight`, `EditsTakeEffect`, `ServicesEnd` |
| `tally` | 1 camera in 2 inputs of vMix, 2 phones, 2 starts | 58 000 | `ConnectionsAgree`, `LightIsCurrent`, `StopEndsPolling` |
| `app` | 2 queries over 2 streams; a viewer and 2 recordings over 1 | 140 000 | `WindowAgrees`, `EncodersFollowStreams` |

Each run also checks its `TypeOK` (or `TypesOK`, `TallyTypeOK`, `CoreTypeOK`). A
property that a run names is a conjunction of named parts, each of which states
one thing. Deadlock is checked where the specification says explicitly when
everything has ended (`path`, `path_manager`, `stream`, `sources`, `tally`); in
the other modules behaviours stop at their bounds.

### The bounds

- **Path.** Two readers give every combination that the handlers distinguish
  (one attached and one held, on its way or refused, with the limit of one reader
  in some configurations), two publishers the override and a late removal.
  The configurations are every kind that `validate` accepts, and the reloads
  between those that differ in hot options. `MaxReadyCommands` is 2: the correct
  value is 1, and the bound lets the second exist.
- **Manager.** Two names allow one path to be visited by a reload while another
  is created or closed. Three instances are a path, its successor and a path of
  the other name. The configurations change an entry hot, change it cold, and
  move a name between its entry and the pattern. The proofs have no bound.
- **Sources.** Two identities of a call are enough to see two at a time, and are
  used again without limit; one reload, since two may overtake each other; two
  ticks of patience distinguish a timeout from a slow peer; two requests and two
  tracks.
- **Stream.** Three sub streams are offline, publisher, offline again. A queue
  of one fills. Two timestamps and two tracks let a track be ahead of the other.
  Two readers (4.8 million states) were tried and showed nothing new: readers
  meet on the mutex only.
- **Recordings.** Segments of 3 ticks and parts of 1 over 5 ticks give two
  segments and the beginning of a third; offsets of 0 and -1 let the tracks
  disagree by a tick; one fault, at any point; two streams are a restart. A case
  with segments of 1 tick has them shorter than what the tracks are apart, so that
  one takes the name of another.
- **Relay.** Three frames are a key frame, one that depends on it, and the
  change of the parameter sets; `Width` 3 makes sequence numbers wrap.
- **Core.** Fourteen parameters are one of each way in which components depend
  on them; two changes are a change and its way back, two that overlap, or a
  server that is switched off and then changed.
- **Services.** Two edits are one that validates what the other left; two
  requests are one that fetches keys and one that waits; two launches are a
  restart.
- **Servers, tally, app.** Two clients are a reader and a publisher, or two who
  want to publish; two starts of the poller are the replacement of a goroutine
  that is asking vMix; two queries are one with the older answer; three outputs
  let one stream have its second while the first is still referred to.

## Fairness

Go's `select` chooses at random among the cases that are ready, so an event of
a loop that is ready again and again is served: strong fairness (`LoopFairness`
of `Path`, `ManagerEnds` and `RunInnerEnds` of `PathManager`, `Drain` of
`SourceHandler`, `Ends` of `Tally`, `FileChanged`, `Leave` and `TakeEdit` of
`Core`, `WaitGatheringDone` and `HandshakeExpires` of `WhepSource`). A goroutine
that can go on does: weak fairness for its steps. A mutex of Go is handed to
those who wait for it (its starvation mode; a waiting writer of an RWMutex holds
up new readers): strong fairness for `Swap` of `Stream`, `Lock` of `Tally`, and
the requests of `Auth`. HTTP requests of the code have timeouts, so they end.

Assumed of what is outside, and said at each `Fairness`: the callback of a reader
returns; a write to a phone returns, which the code does not guarantee
(`WriteMessage` has no deadline); a command that is told to end obeys; the camera
process obeys when it is told to end; the window keeps asking. Nothing is assumed
of clients, sources, publishers, phones, files or reloads: none need ever come,
leave, work or fail.

## The proofs

TLC checks small instances; the theorems hold for every value of the constants
that satisfies what is written at them: any number of clients, configurations,
names, instances, tracks, phones, units. TLAPS checks them. Each module proves,
for its component, that an inductive invariant holds at the start (`...Init`) and
is kept by each step (`...Step`, one lemma per action or group of actions), and
that it implies the property (`...Implies`); each inductive invariant was checked
by TLC on the instance of its run before it was proved.

| Module | Theorems | The argument |
|---|---|---|
| `PathProofs` | `TypeCorrect`, `CountCorrect` (with `PendingCorrect`) | the counter of pending requests is the number of clients that were given the path and wait |
| | `HoldCorrect`, `ReadCorrect`, `PublishCorrect` (with `ClientsCorrect`) | `ClientsInv`: what a client waits for is on the list of the path that answers it |
| | `IdleCloseCorrect`, `AgreeCorrect` | `IdleInv`: while the path is inside `closePathIfIdle` nothing has called it that the counter does not show; hence `ClientsAgree` |
| | `DemandCorrect`, `FeedCorrect`, `StreamCorrect`, `KeptCorrect` | `StreamInv`: on-demand state against timers (`DemandInv`), source against feeder, stream, recorder and commands (`FeedInv`); hence `DemandAgrees`, `StreamAgrees` and the action property `ReadersAreKept` |
| `PathManagerProofs` | `TypeCorrect`, `MapCorrect` | `MapInv` adds to `MapAgrees` where each blocking call stands: a path is cancelled only while the manager closes it (`CancelledIsSubject`), a decision is about a listed path (`DecidesOnListed`), a path just closed leaves a gap (`ClosedLeavesGap`), what a reload has still to visit is listed (`TodoIsListed`) and what it has visited has its present entry (`EntriesAreCurrent`). For any number of reloads |
| | `RegistryCorrect` | refinement: `ClientsHold` gives each client the path of its name, then every step is a step of `Registry` or none |
| `SourcesProofs` | `OneRunCorrect`, `HandlerTypeCorrect` | `RunInv`: a run is alive only while the handler is running and not waiting to retry, and none once `Stop` has returned |
| | `FedCorrect`, `LastingCorrect` | `FedInv`: the run that reported ready is the present one; `ReloadInv`: where each configuration on its way is |
| | `ContractCorrect`, `CallsKeepContract` | each step of the handler is a step of `SourceRun` for each of its runs, each step of a call of any protocol too: the two sides of one contract |
| | `SourcesTypeCorrect`, `WhatIsLeftCorrect`, `SourcesCorrect` | `CallInv` and `WhepInv`: what each place of `main` and of the goroutines has opened and has to close. Two things are left and are named: a connection that a Unix listener accepts while it closes, and the goroutine that waits for a camera whose `Run` was cancelled (`OnlyTwoAreLeft`). With the handler they give `SourcesAgree` |
| `StreamProofs` | `RemovalCorrect` | `ReadersInv`: who holds the mutex, and that only the reader being removed waits with it |
| | `ContinuityCorrect` | `ChangeInv`: the phase of the path against the sub streams; `ConcatInv`: what a reader was given, then its queue, then what is to be written, follow each other |
| | `StreamTypeCorrect` | `ClockInv` bounds the shifted clock by the number of changes; `QueueTypes` the queues |
| `AppProofs` | `AppTypeCorrect`, `WindowCorrect` | `WindowInv`: no two previews are one (`PreviewsDiffer`), each open viewer has its broadcaster and each recording its process (`ViewerInv`, `DvrInv`) |
| | `ConnectionsCorrect`, `TallyTypeCorrect`, `LightCorrect` | of `Tally`, which the application polls for: `ConnInv`, the map against the open connections; `LightInv`: a command being sent carries what was last noted (`SendingIsCurrent`), a phone that is gone shows nothing (`GoneIsDark`) |
| | `CoreTypeCorrect`, `ReloadsCorrect` | of `Core`, which starts the server that the application shows: `ComponentsFit`: until the core ends, what runs is wanted, as configured; it all runs again before something is closed. On the least set of `ClosedWith`: it spreads to what comes after (`ClosingSpreads`) and holds nothing without cause (`ClosingHasCause`, by removing one member) |
| `ServersProofs` | `ServersTypeCorrect`, `ServersCorrect` | `Inv` is a conjunction per client; a step of one client leaves the others untouched (`Untouched`), so each action is proved for its own client |
| `RecordingsProofs` | `RecordingsTypeCorrect`, `SegmentsAreKept`, `HooksAreCalled` | `RecInv`: the segment being written comes after those on disk, and after those of earlier instances by name too; if segments are long, after all of them by name (`StoreFits`, `Older`). That needs that a waiting sample is not further from the clock of the server than the publishers' offsets and the tolerated drift (`NextFits`). Of a short segment it says what can happen: it takes the name, and the file, of an earlier one of its own instance and of no other. `HooksFit`: which of the two calls the segment at hand has had, from the state of its file. Each operation on the disk keeps the segment and the other files (`Stays`) and the order of the calls (`CallsStay`), and the writers of the two formats are sequences of such operations |
| | `SamplesCorrect`, `DurationsCorrect` | `KeptInv`, on the files and the segment at hand, which the operations on the disk take and return together (`Disk`). The numbers of the samples of a track grow within a part, from part to part and from file to file, and those still to come are greater (`OrderInv`); no sample is before its segment, and the sample that waits is newer than what is held (`TimesInv`). While nothing fails, the end of a segment is that of one of its samples and no other ends later (`LastInv`; for a file that was not finished, that the last part has a greatest end is `GreatestIs`), and the video goes on with the sample that waits (`JoinInv`), if no other track is too far ahead of it. `RecInv` is needed for each: that the segment is the newest file makes it the one the next follows |
| | `RelayCorrect` | `RelayInv`: the format has the newest sets that arrived (`FormatFits`), the encoder or the publisher's numbers go on after the last packet (`PacketsFit`, on lemmas about `% Width`: `WrapPlus`, `WrapOffset`), no picture is missing from the log of frames (`FramesFit`). Of a kind a client of no codecs is offered one track, and every codec that RTMP brings can be offered to a client of all (`OfferIs`) |
| | `MediaTypeCorrect`, `MediaCorrect` | the two of them together, as the run `media` has them: `MediaAgrees` |
| `ServicesProofs` | `ConfCorrect`, `EditsCorrect` | `ConfInv`: what is in force was derived from what is written and would be derived from it again (`IsDerived`). It is not enough that each configuration was valid when it was accepted: an edit starts from the written values of the one in force, old parameters included, so these have to be such that converting them again changes nothing. `ValidateIs` says in one equation what the steps of `Validate` make of what is written; `LookupCorrect` that the entry found for a name is the first that matches |
| | `CommandsCorrect` | `CommandsInv`: hooks against goroutines (`OwnersFit`), goroutines against processes (`RoutineFits`), the pool against both (`PoolFits`) |
| | `VerdictsCorrect` | `AuthInv`: the keys that are held are not older than the last refresh nor than the request that fetched them (`KeysFit`), so that keys young enough for a request are recent enough to judge it (`YoungKeysAreRecent`) |
| | `ServicesTypeCorrect`, `ServicesCorrect` | the three of them together, as the run `services` has them: `ServicesAreRight` |

### What the theorems assume

- The assumptions on constants are in the modules that declare them, and TLC
  evaluates them on each run; a module that is only instantiated (`Auth`,
  `Commands`, `Relay`) has them in the MC module (`ServicesAssumption`,
  `MediaAssumption`). They are types, what the code fixes (an RTMP publisher has
  tracks that RTMP can carry, segments are not kept for less than they last, the
  period of the keys is positive, the values that files and bodies give are of the
  fields they name), and that `None` is nothing else. Nothing is assumed of how
  long segments are; where their length matters (`LongSegments`) the property says
  so.
- `DecoderErrors = FALSE` (`IdleCloseCorrect` and what follows from it): a
  publisher refused for a codec without RTP decoder leaves its stream behind
  (*Known differences*). The theorems before it do without, as does `path`.
- `RegexpIsKept` (`StreamCorrect` only): a reload that moves a path to a regular
  expression does not ask whether it is idle (`path.go:747`), so a path nobody
  uses may stay until its next event. `FeedCorrect` proves the other parts of
  `StreamAgrees` without it.
- `"secondary" \notin Kinds` (`FedCorrect`, `SourcesCorrect`): a secondary camera
  whose primary ends does not tell `SetNotReady`.
- `MaxConf = 2` (`LastingCorrect`, `SourcesCorrect`): one reload. Two travel in
  goroutines of their own and may overtake each other; the older configuration
  may then win.
- `ServersCorrect` exempts the clients in `raced`, as the property does: those
  kicked while a handler of theirs runs.

### What is only model-checked

- Liveness (`EveryDemandEnds`, `PathsAnswer`, `NothingHangs`, `NobodyWaits`,
  `ClosingEnds`, `ShutdownEnds`, `ServicesEnd`, `StopEndsPolling`,
  `EncodersFollowStreams`): temporal reasoning under fairness needs `ENABLED`, which
  this version of TLAPS does not have.
- `ListAgrees` and `GetAgrees` of `Playback` (`PlaybackAgrees`): they compare what
  folds and filters over sequences of segments and samples compute, an induction
  over data.

Where an invariant needed an induction of its own (`LookupCorrect`: among the
entries that match there is a first; `GreatestIs`: among the ends of samples there
is a last) it is taken from the well-ordering of the naturals
(`NatLessThanWellFounded`), whose theorem quantifies over sets and not operators.

## What the models found

With a run of its own (`findings` in `PROJECT.json` quotes the lines):

- **An edit of a path blocks the API and the core** (`core_deadlock`). The
  handlers that edit paths wait for the core with the mutex of the API held, and
  the core, when it is reloading for another reason, waits for that mutex, or for
  the handlers. `Core.Close` ends it, since it cancels the context from outside. A
  signal (SIGINT, SIGTERM) does not: the loop would have to read it, and does not get
  there. `ShutdownEnds` says exactly that.

### Known differences

What the models reach, or the properties exempt, without a run of its own:

- *Path.* An on-demand publisher that goes away by itself while the close timer
  runs leaves the state `closing`; the next client is put on hold without a start
  timer, and the close timer resets the state without answering it (`path.go:956`;
  `backend/core/mediamtx.yml:725` says that readers are closed after a timeout).
  Hence `SourceHeldIsAnswered` is about static sources.
- If a sub stream is refused after `setAvailable` (`path.go:550`, the constant
  `DecoderErrors`), the stream, the recorder and the runOnReady command stay, and
  the command is started again for the next publisher.
- A path that a hot reload turns into a regular-expression path, and that nobody
  uses, is not closed until its next event (`path.go:747`). `DynamicPathReleased`
  counts the clients on their way, and the proof has to know why
  (`RegexpIsKept`). A path may be closed for being idle while it has clients on hold;
  the teardown answers them.
- *Manager.* A secondary camera blocked in `pathManager.AddReader` while the
  manager waits for its path: each waits for the other (`path_manager.go:264`; the
  comment at `:456` says that the wait is safe). `PathsAnswer` is checked without
  secondary cameras. Reloads travel in goroutines of their own and may overtake
  each other, so that a path may end up with the older configuration.
- *Handler.* `ReloadConf` of a handler that is not running returns without
  keeping the configuration (`handler.go:296`; `docs/2-features/05-configuration.md:17`
  says changes are applied), and a camera panics when it is refused
  (`rpicamera/source.go:165`), which happens when it is stopped at that moment.
- *Sources.* `srt.Dial` does not look at the context; the size of the UDP buffer
  that an RTSP run overrides stays for later runs; a secondary camera whose
  primary ends returns without `SetNotReady`; a connection that the Unix listener
  accepts while it is closed belongs to nobody. A primary camera that is stopped
  leaves a goroutine behind each time (`rpicamera/source.go:250`): it sends the end of
  the camera on a channel without buffer, which `Run` no longer reads once it has
  returned because of the context.
- *Stream.* `initialize2` ranges over the readers without the mutex
  (`sub_stream_format.go:177`), and Go stops the process if a reader is added at
  that moment (variable `crashed`); `docs/2-features/08-always-available.md:3`
  promises readers an uninterrupted stream.
- *Relay.* FLAC from RTSP packets never reaches a RTMP viewer, nor FLAC from RTMP a
  RTSP viewer; parameter sets that change between key frames reach remuxed
  viewers at the next key frame; a viewer whose queue overflows does not wait for
  the next key frame.
- *Servers.* A kick of a session whose SETUP or RECORD handler is running makes it
  a reader or publisher that nobody removes; during PLAY it leaves its command
  running, for which `Pool.Close` then waits; during PAUSE it closes the command
  twice. The variable `raced` exempts these clients.
- *Recordings.* When another track is ahead of the video by more than
  `MaxBasetime`, the next segment begins after the key frame it was opened for,
  and the frame is dropped (hence `VideoIsNotLate`); a sample that is refused
  because the part is full is still counted in the duration of the header (hence
  the exception of `MaxPartSize`): the proofs of `SamplesAreKept` and
  `DurationsAreTrue` failed on these. A first segment may begin without a key
  frame (`format_fmp4_track.go:101`); a failed header leaves an empty file that
  makes every listing fail; `onSegmentCreate` may be called twice after a failed
  create; an MPEG-TS duration may be negative with two tracks; the cleaner may
  delete the segment being written; `conf/path.go:783` has no minimum for
  `recordSegmentDuration`, and with one second or less and a track that stalls,
  the sample that waits begins two segments, which have one name, and `os.Create`
  truncates the first (the names may even go backward): `SegmentsStay` allows that
  loss if segments are short, and `ListAgrees` and `GetAgrees` are about long
  ones; a header that cannot be read in the segment after those that are sent
  makes `/get` fail when all has been read (`on_get.go:86`); `muxerMP4.flush` may
  be called without a segment (`muxer_mp4.go:92`); what `/get` sends near its
  border may be off by the skew of the tracks; `%z` is decoded with minutes as
  hours (`recordstore/path.go:60`).
- *Core.* Some parameters, `srtpAddress` among them, are not compared
  (`NotCompared`), `closeAPI` leaves out the RTMPS server, the API is restarted
  by a parameter of a RTSP or RTMP server that is switched off (`core.go:828`; the
  proof of `ReloadsAgree` failed on it), the watcher drops events
  within a second, an invalid file at a reload ends the server, and once the
  watcher has failed the core reloads the file over and over (it reads a channel that
  is closed, `confwatcher.go:115`).
- *Conf.* Legacy credentials freeze the configuration (and an edit of
  `authInternalUsers` is accepted and replaced by them); `authMethod` and
  `authHTTPAddress` are accepted and overridden when `externalAuthenticationURL` is
  given (the proof of `EditsTakeEffect` failed on both); old `webrtcICEServers` are
  appended at every validation; old parameters override new ones at every
  validation; the catch-all entry, once injected, stays, and `~^.*$` written
  literally shadows others though `path.go:158` says otherwise; an optional value
  cannot be unset by PATCH; a regular expression with a camera on demand could
  open the same camera twice.
- *Auth.* The mutex is held during the fetch of the keys, so that all requests by
  token queue; a failed refresh refuses everybody though old keys exist; the
  expressions of paths are not anchored; the user "any" returns the unverified name.
- *Commands.* The command that follows may run while the first is still ending; on
  Unix the exit code is always 0 (`cmd_os.go:45`), so `OnExit` never reports a
  failure; a blank command panics; on Windows a process that cannot be put into
  its job is left.
- *Tally.* Two goroutines poll after a quick Stop and Start, or Start and Start; a
  phone that connects while its camera is on air is told nothing until the next
  change; of a camera in several inputs the program input prevails, as the comment
  in `vmix.go:151` says, and between preview and off the last input decides.
  `control/manager.go:120` prints the map without its lock.
- *App.* The clean-up of a query closes every encoder that its answer does not
  name, also when the query failed (`app.go:506`; the comment at `:503` speaks of
  disconnected streams); `streamStats` is written under the read lock
  (`app.go:442`); streams whose names end alike replace each other's preview
  (`app.go:476`); a stream republished between two queries keeps an output whose
  pipeline has ended; a pipeline that fails to start is never started again; a
  viewer of a stopped broadcaster waits for ever; a recording restarted within the
  second overwrites the file (`-y`).

## What is not modelled

`components` of `PROJECT.json` lists every part with its reason. Bit streams, RTP
and container bytes, metrics, logging and the window are data transformation or
input and output. The HLS and WebRTC servers are in the repository and are not
started by `core.go`. `app.shutdown` exists and is not registered in `main.go`, so
no orderly shutdown of the application ever runs. Protocol libraries (gortsplib,
gortmplib, pion, gorilla/websocket) are outside the repository.

Within modelled parts: API queries and lists change no state; the byte counters and
`WaitForReaders` of the stream; `DESCRIBE` and the list of connections of the RTSP
server; MPEG-4 Video, the shared clock of HLS and the encoding of the offline segment
in `Relay`; segments of earlier versions, tracks of unsupported codecs and a wall
clock that goes back in `Recordings`; the decoding of single values in `Conf`; the
clock synchronisation of camera control.

## Plan

Done: the components of the table at the top, each with its run and, but for
`Playback`, its proofs. Left, in order:

1. The parts of `ListAgrees` that no fold is needed for.
2. The HLS and WebRTC servers, once the core starts them.
