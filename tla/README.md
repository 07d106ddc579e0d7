# TLA+ verification of the media server (MediaMTX fork)

The server receives live streams from publishers (RTSP, RTMP, SRT, WebRTC), from
static sources it connects to itself (cameras, other servers, files) or from commands
it starts on demand, and hands each stream to readers, to the HLS muxer and to the
recorder. Everything meets in a **path**: one goroutine per path name that owns the
source, the stream, the readers and the requests that wait for a stream. Around it are
the manager of paths, the servers of the five protocols, the recorder, and a supervisor
that closes and creates all of them again when the configuration changes. This project
models these as state machines, checks them with TLC and proves their safety with TLAPS.

    cd tla
    tlc -workers 2 -config path_safety.cfg MCPath
    tlapm PathProofs.tla

## 1. Inventory of the system

| component | state it keeps | operations | interacts through |
|---|---|---|---|
| path (`internal/core/path.go`) | configuration, source, stream, recorder, readers, requests on hold, two on-demand states with two timers each, hooks | `do*` handlers of `runInner`, timers, termination | unbuffered channels, each with the context of the path as the other case |
| path manager (`core/path_manager.go`) | map name -> path, configurations, HLS server | reload, remove and wait, find or create, ready / not ready / close | channels; waits for a path it removes |
| static source handler (`staticsources/handler.go`) | running, context, configuration, the instance and its retry pause | `Start`, `Stop`, `ReloadConf`, `SetReady`, `SetNotReady` | called by the path; calls the path; starts the instance |
| static sources (`staticsources/*`) | one connection each | `Run` | call the handler; the secondary camera reads another path through the manager |
| stream and readers (`stream/`) | formats, readers under a mutex, a ring buffer per reader | add, remove, write, drop when full | called by every protocol from its own goroutines |
| protocol servers (`servers/{rtsp,rtmp,srt,webrtc,hls}`) | tables of connections, sessions, muxers | accept, new, delete, kick, API | manager and path calls; `Close()` back from the path |
| recorder, record store, cleaner, playback | current segment and part, files | start, write, rotate, restart after an error; scan, delete, concatenate | reader of a stream; file system |
| core (`core/core.go`) | every resource above | create, reload, close | configuration watcher, API, signals |
| configuration and watcher (`conf/`, `confwatcher/`) | parsed configuration; last event | load, validate, find the configuration of a name; signal a change | core, manager |
| external commands and hooks (`externalcmd/`, `hooks/`) | process, restart pause, wait group | start, restart, terminate | path, publishers, readers |
| peer connection (`protocols/webrtc`, `protocols/whip`) | context, channels that are closed once, tracks | callbacks of the library, gather, wait, close | sessions and the WHEP source |
| authentication (`auth/`), certificate loader (`certloader/`) | users, keys of JWT under a mutex; the pair in use | request, reload, refresh; load on a signal | servers; watchers, HTTP |
| API, metrics (`api/`, `metrics/`) | configuration, references to servers | edit, read | core; mutexes of their own |
| NTP estimator, logger, pprof, PTZ, limits | little or none | request / answer | |

What makes each of them correct:

- **path**: a reader never stays on a stream that is gone; a request on hold is answered
  once; on-demand sources stop when unused and only then; late messages of a replaced
  publisher change nothing; nothing is left behind when the path ends.
- **manager**: a name has one path; a path that is replaced is gone before the next one
  starts; a reload applies the last configuration; the HLS server knows which paths are ready.
- **handler**: one instance at a time; `Stop` returns; a failed instance is tried again.
- **stream**: a reader that was removed gets nothing more; a slow one delays nobody.
- **servers**: a session is in the table exactly while it lives; each request has one answer.
- **recorder / cleaner / playback**: the segments of an instance go on from each other, no segment that is still
  wanted is deleted, concatenation keeps the order of time.
- **core**: whatever depends on a resource is closed before it and recreated after it; a
  reload that has begun ends.
- **peer connection, commands**: what was closed calls nobody back, and closing returns unless a process goes on.
- **authentication, certificates**: what was revoked is not accepted; what was changed is loaded.

Hard behaviours: messages of many goroutines to one path in any order; contexts that are
done between a send and its answer; timers that race the event they wait for; waits that
form a cycle (manager, path, handler, instance); failures half way (`setReady`); reloads
that overtake each other; kicks that race the handler of the same session; callbacks of
libraries in any order; I/O that fails in any state. `PROJECT.json` lists them one by one under "hazards".

## 2. Plan

| # | modules | about | state |
|---|---|---|---|
| 1 | `Path`, `StreamBroker` | the path and its clients; what it promises to readers | checked; all safety and the refinement proved |
| 2 | `StaticSource`, `SourceContract` | handler, instance, path and manager at `Start`/`Stop` | checked; all safety and the contract proved |
| 3 | `PathManager` | reload, removal and creation of paths, what paths and the HLS server are told | checked; all safety proved |
| 4 | `Core` | creation, reload and end of all resources, the API, the watcher, metrics | checked; all safety proved |
| 5 | `ProtocolServer` and `RTMPServer`, `SRTServer`, `RTSPServer`, `WebRTCServer`, `HLSServer` | tables, clients and their path | checked; all safety proved |
| 6 | `Recorder`, `Playback`, `RecordCleaner` | segments from their first sample to their deletion | checked; all safety proved |
| 7 | `Stream`, `Command`, `PeerConnection` | goroutines that are stopped while they call back | checked; all safety proved |
| 8 | `CodecProcessor` | the units of a stream on their way to its readers | checked; all safety proved |
| 9 | `CertLoader`, `AuthManager`, `NTPEstimator` | files, keys and times that change under their users | checked; all safety proved |

Each invariant, action property and refinement that a passing run checks is also a theorem. What is
left is liveness, which only TLC checks (end of section 5), the cases the properties leave out
because the code is not right there (section 6), and what is not modelled (section 7).

## 3. What the modules model

### Path

One `Path` is the goroutine `path.run` and the clients that talk to it. Channels are
unbuffered, so a client's send and the handler are one action. An action stands for a
whole `do*` handler with every call it makes and the `shouldClose()` check that follows
it in `runInner` (`Continue(panics, checksUse)`: some handlers do not check).

| code | module |
|---|---|
| fields of `path` | the variables of the same names; `openStreams` adds the streams that were initialized and not closed |
| `staticsources.Handler` | `handler`: stopped, starting, ready |
| `doDescribe`, `doAddReader`, `doRemoveReader`, `doAddPublisher`, `doRemovePublisher` | actions of the same names, one per outcome (answered, held, refused, fails) |
| `doSourceStaticSetReady`, `...SetNotReady`, four timers, `doReloadConf` | actions of the same names |
| `setReady`, `setNotReady`, `consumeOnHoldRequests`, `addReaderPost`, `onDemand*` | helpers with those names |
| `close`, the end of `runInner`, the two halves of the rest of `run` | `Close`, `RunInnerTerminated`, `ClosePath`, `Terminate` |
| a panic ("should not happen", a nil hook) | `phase = "crashed"` |
| `RemoveReader`, `RemovePublisher` that find the context done | `RemoveReaderSkipped`, `RemovePublisherSkipped` |

Clients: a reader is idle, waiting for an answer, reading, or gone; it may ask again while it
reads (an RTSP session adds itself once per track). `closedReaders` and `closedPublishers`
are those whose `Close()` the path called and who have not left yet. A path configuration
keeps the fields the path decides by; `ValidConf` is what `conf.Path.validate` lets through.

Abstracted: media, queries, authentication, the answers of the fallback, the read-only API
calls; a hook is a flag. The instance of the static source obeys `SourceContract`
(`StaticSource` checks that). `InitCanFail` says whether `stream.Initialize()` may fail.

`StreamBroker` is what a path promises to readers: at most one live stream, a reader gets
that one or none, and a stream is never replaced under a reader. `Path` implements it with
`live <- stream` and `watching` the stream of each reader that was not closed.

### StaticSource and SourceContract

Four goroutines that wait for each other: the path (in `Handler.Stop` or not), the goroutine
of `Handler.run`, the instance, and the path manager in `removeAndClosePath`. A send on a
channel that is selected on is a step of its own, and every waiting place is a state. The
goroutines that bring a new configuration to the handler and to the instance are sets of
"couriers", which arrive in any order. Five kinds of instance: network sources ("plain", "hls",
"whep"), the primary camera ("camera", panics on a refused `SetReady`) and the secondary camera
("secondary", asks the manager for the primary path and never reports not ready).

Abstracted: what the sources receive; that `stream.Initialize()` may fail (covered in `Path`).
A kind differs from "plain" in when it takes a new configuration (`TakesReload`) and in what it
does at its end (`AfterStreaming`); a WHEP source takes none until it streams.

`SourceContract` is what `Path` assumes: stopped, starting, ready; ready only after a start,
once. `StaticSource` implements it.

### PathManager

The goroutine of `pathManager.run`, the goroutines of the paths as far as the manager can see
them, the goroutines that bring a new configuration to a path, clients, and the HLS server.

| code | module |
|---|---|
| `pm.paths`, `pm.pathConfs`, `pm.hlsServer`, `pm.ctx` | `paths` (a record `pathData` per name, `NoData` if absent), `pathConfs`, `hlsServer`, `ctxDone` |
| the place where `pm.run` is | `manager.at`: serving; in `doReloadConf` ("reload", "wait" in `path.wait()`, "create"); in `hlsServer.PathReady/PathNotReady` ("hls"); ended |
| a `path` object | `path[p]`: `phase`, `conf`, `source`, `stream`, `ctxDone`; an object that has ended and that nothing refers to is used again |
| `doReloadConf` | `ReloadPathConfs`, then per name `ReloadRemoves` + `PathWaited`, `ReloadUpdates` or `ReloadKeeps`, then `PathsReloaded`, `CreateStaticPath`, `StaticPathsCreated`; `initialize` starts at the last two |
| `go path.reloadConf(c)` | a member of `couriers`, taken (`DoReloadConf`) or given up (`ReloadConfSkipped`) in any order |
| `pathReady`, `pathNotReady`, `closePath` and `doPathReady`, ... | `DoPathReady(p)` or `PathReadySkipped(p)`, and so on: served by the manager, or past it because a context is done |
| `Describe`, `AddReader`, `AddPublisher` | `RequestFound` or `RequestCreates` at the manager, then `DoDescribe`, `DoAddPublisher`, ... at the path, or `PathGone` |
| `SetHLSServer`, `Server.Close` | `HLSStarts` .. `SetHLSServerSkipped`; `hls.told` is the set of paths the server was told are ready |

Inside the path, only what the manager depends on is kept: a source that is a handler or a
publisher, the stream, and `shouldClose()`. On-demand state and requests on hold are `Path`'s
(they can only delay `shouldClose()`); overriding a publisher is too. `Kinds` stands for all the
fields of a configuration that are not hot, `Settings` for those that are. One regexp matches
every name. A refused request changes nothing and is no step.

### Core

One goroutine, `Core.run`, and those it meets: the handlers of the API, the watcher of the
file, a scrape of the metrics. A configuration is the set of the fields that differ from
those the server was started with, one field standing for all that are used and compared alike.

| code | module |
|---|---|
| `createResources` | `CreateResources`, `CreateResourcesFails(r)`; `CreateOrder` |
| the arguments each resource is given, and its registration with metrics and manager | `Settings`, `Given`, `Registering` |
| the boolean expressions of `closeResources` | `Compared` (fields), `ClosedWith` (other resources), `CloseFlags` |
| the calls at its end, in order | `CloseOrder`, one `CloseResource` step each, then `ResourcesClosed` |
| hot reload (`ReloadPathConfs`, `ReloadInternalUsers`, ...) | `HotFields`, `HotReloaded` |
| `api.ReloadConf`, which takes the mutex of the API | `APIReloadConf` |
| `onConfigGlobalPatch`, which sends from a goroutine of its own | `OnConfigGlobalPatch`, then `PendingConfigSet` in any order |
| edits of path defaults and paths, which send with the mutex held | `OnConfigPathsEdit`, `EditorConfigSet` |
| `confwatcher` and the file | `FileWritten`, `WatcherEvent`, `WatcherError`, `ConfChanged` |
| `metrics.onMetrics` | `ScrapeBegins`, `ScrapeEnds`; `scrape = "nil"` if its server was taken away |

`object[r]` has the settings a resource runs with, the resources it refers to, and those of
them that were closed under it (`dangling`). `ReloadedLikeRestarted` compares all of them with
a server that is started with the last configuration. Each edit changes any one field, so
each term of each comparison of `closeResources` is met.

### Servers

`ProtocolServer` is what RTMP, SRT, RTSP, WebRTC and HLS have in common, each of the five
`EXTENDS` it: the loop of `Server.run` with the table of clients and its channels, `Close`, the
place of each client (`client`), its standing with the path (`member`: out, asking, routed,
refused, reader, publisher) and the section of the configuration its credentials were
checked against. An answer of the path takes two steps, manager and path; the section may
be reloaded between them. `http` is what each server adds:

| module | adds |
|---|---|
| `RTMPServer` | connections: handshake, reading, publishing, errors, kick; `AcceptError` ends the loop |
| `SRTServer` | requests that are accepted or rejected, also before the loop knows them |
| `RTSPServer` | sessions of gortsplib, whose handlers run one at a time; `http[c].handler` is the one in progress. `APISessionsKick` runs `onClose` in the goroutine of the API: a session that was kicked while a handler waited for the path is marked `cut` |
| `WebRTCServer` | sessions and the requests (POST, PATCH, DELETE) that wait for them |
| `HLSServer` | muxers, on demand and always-remux, their instances and restarts; the path with its notices to the server; the requests that wait for a muxer |

The sections matter where credentials are checked before the path is asked: SRT, RTSP and
WebRTC have two, the others one (`OneSection`). `OnePatch` lets one client patch candidates.

### Recording

`Recorder` has the goroutine of `Recorder.run` with its restart pause, the instance, and the
two formats. In fMP4 each track holds one sample back (`next`), the segment is switched at a
sample of the leading track (`Switches`), the other tracks begin it at
`nextSegmentStartingPos`, parts are closed when they are long enough; in MPEG-TS a segment
is switched at a random access unit, and what is written goes through a buffer (`Flush`). Any
write may fail, any sample be refused. A format is closed whatever ended its instance
(`FormatClose`): after an error of a codec, MPEG-TS still writes its buffer, which may create the file
and run both hooks; only after a failed write does the buffer stay broken.

`disk` has each file with the hooks that ran for it: whether it has a header, the `duration` that is
in it (or, where that could not be put there, in the last part found: -1 if there is none), how far
its parts reach (`written`), what of it was `lost`, and whether anything about it `failed`.
`EXTENDS Playback`, which makes of these `Files` what the code does:

| code | module |
|---|---|
| `recordstore.FindSegments`: every file that was created, by its name | `FindSegments` |
| `parseSegment`, which fails without a header or without a duration, and then so does the list | `CanBeParsed`, `ParseSegments` |
| `concatenateSegments`, `Server.onList` | `ConcatenateSegments`, `OnList` |
| `segmentFMP4MuxParts`, which returns the duration of the parts it sent | `MuxParts` |
| `seekAndMux`, which opens one file after the other, up to a gap after what was sent | `SeekAndMux` |

The code works on sorted lists; no two segments begin together, so a list is the set of its
members, its order that of their starts, and an entry is given by the segment it begins with and
the last one that goes on from there (`LastOf`). When the last instance has ended, `SegmentsPlayable`
requires that a list is refused only because of a file that could not be written; that otherwise it
covers each instant that was recorded, with one entry for each instance; and that what is sent for an
entry reaches its end, unless a sample or a part of its last segment was lost: then it ends with the
parts that are there, or fails where a part was torn. Whatever is lost ends the instance, so that
only the last segment of an instance can have lost anything.

`RecordCleaner` is the goroutine of `Cleaner.run` with its timer and its reloads: `CleanedInTime`
says how old a segment may grow under the configuration it had since when.

Times are small integers, `Tolerance` the second `segmentFMP4AreConsecutive` allows. One video
and one audio track stand for any number of tracks of each kind; `DoubledTracks` are those
of MPEG-1 audio, whose timestamps the code doubles.

### Stream, commands and peer connections

`Stream`: the writers of two formats, `BytesSent`, and the owners of two readers share a
read-write mutex (a writer that waits keeps new readers out, as in Go); a unit goes to the
readers one by one, is dropped and counted when a queue is full, and `RemoveReader` waits for
the goroutine of the reader with the mutex held. `account` of a reader is the fate of each
unit it was given. `Command`: the goroutine of `Cmd.run`, its process, the pause, `Close` and
the wait group of the pool. `PeerConnection`: the library (external) changes its state and
calls back from goroutines of their own; the user is the session of a publisher, that of a
reader, or the client of WHEP; `signal` counts how often each channel was closed.

### CodecProcessor

What `streamFormat` and the processor of a video format do with each unit: an access unit
(`ProcessUnit`) or an RTP packet (`PacketRouted`, `PacketDecoded`, `DecodeFails`, `PacketRefused`
are the ways through `ProcessRTPPacket`). `known` is the parameter sets in `Format`, `latest`
those the source sent last; `routed` and `frame` are what RTSP readers and the others got of
the current access unit. A NALU is its type and, for a parameter set, its version; a packet
carries whole NALUs, and an access unit at most one parameter set of each type. The decoder
and encoder of the library are what the processor relies on: NALUs collected until the last
packet of an access unit, and written out as they are. "Changing" parameter sets have
`MaxParameters` versions, the others one.

### Certificates, authentication, times

`CertLoader`: two files that are written one after the other, a watcher for each, which throws
away what comes within a second of the last event, and the loader that reads one file after
the other. `AuthManager`: the mutex, internal users, the keys of JWT with their refresh
period; requests take the time before they take the mutex. Which user and which permission
match is one version. `NTPEstimator`: `Estimate` over small rates and clocks; timestamps may jump
back and forth, its clock only goes on.

`MCServers` and `MCMedia` let TLC choose one protocol, or one part, in each behaviour: their
instances share nothing, and so their state spaces are added and not multiplied.

## 4. Runs

| run | spec | shows | bounds |
|---|---|---|---|
| `path_safety` | `Spec` | type correctness; `ReadersShareLiveStream`, `PublisherIsSource`, `HoldIsJustified`, `ClosingOnlyUnused`, `NoPanic`, `StreamIsWhole`, `CleanEnd`; action property `UnusedPathCloses`; refinement `ImplementsBroker` | 2 readers, 1 describer, 2 publishers, 4 streams, every kind of configuration, 2 recording settings, `InitCanFail` FALSE; symmetric in clients and streams |
| `path_live` | `FairSpec` | `HeldExactlyOnce`, `TimersFollowDemand`, `ReaderLimit`; liveness `StaticHoldAnswered`, `WhatIsOverEnds` | on-demand configurations with room for one reader, 1 publisher, 2 streams, `InitCanFail` TRUE |
| `path_dead_stream` | `Spec` | violation of `ReadOnlyWhenSourceReady` | |
| `source_safety` | `Spec` | type correctness; `OneInstanceAtATime`; refinement `KeepsContract`; all kinds of source | 2 settings, 3 couriers |
| `source_live` | `FairSpec` | `ReadyIsFed`; liveness `NobodyWaitsForEver`, `FailedSourceRetries`; network sources, on demand or not | 1 courier |
| `path_manager` | `Spec` | type correctness; `OneSourcePerName`, `ManagerView`, `MapFollowsConfiguration` | 1 name, 2 path objects, 1 client, 3 configurations (own section, regexp, both), 2 couriers, endless reloads; symmetric in the path objects |
| `path_manager_live` | `FairSpec` | `NobodyWaitsForEver` | no HLS server, 2 configurations, 1 courier |
| `core_reload` | `FairSpec` | type correctness; `NoDanglingReference`, `ReloadedLikeRestarted`; liveness `ReloadsEnd` | all 15 resources; `MaxEdits` 2: any one field, then one of `LaterEdits`; the metrics read one server (`ScrapedServers`); no path edits by API while a file is watched |
| `core_reload_deadlock` | `FairSpec` | violation of `ReloadsEnd` | the same, `PathEditsWithFile` TRUE |
| `servers` | `FairSpec` | type correctness; `LeavesPath`, `SessionsAreSound`; action property `AdmittedAsChecked`; liveness `EverythingEnds` | 2 clients of each protocol, 2 sections, one client patches candidates |
| `media` | `FairSpec` | type correctness; `EndedForGood`, `RecordingsSound`, `NothingDropped`; liveness `EverythingEnds` | see below |
| `recording_mp3` | `Spec` | violation of `NothingDropped` | one instance, MPEG-1 audio |

The last four properties of `media` are conjunctions of one property per part, as the parts
are of one module: `EndedForGood` of `Rec!HooksInOrder`, `Str!GoneForGood`, `Cmd!NoProcessLeft`,
`Peer!ClosedForGood`, `Aut!NothingRevoked`; `RecordingsSound` of `Rec!SegmentsPlayable`,
`Cln!CleanedInTime`, `Est!NeverBack`, `Pro!KeyFramesDecodable`; `NothingDropped` of `Rec!NothingDropped`,
`Str!EveryUnitCounts`, `Crt!ChangesLoaded`, `Pro!RoutedWithoutGap`. The comments in `MCMedia` say what each means.

Why these bounds are enough to be interesting: two readers are the least with which one can
fill a path of `maxReaders` 1 while the other is on hold, and with which one leaves while the
other stays; two publishers are the least that can override one another; four streams let a
reader hold an old one, a recorder another, while a third replaces a fourth. With
`InitCanFail` a failed stream is leaked (the code never closes it), so streams are the bound
of `path_live`. Couriers are bounded by `MaxCouriers`. In `PathManager` names meet only in the
manager, which handles one at a time; two path objects are an old and a new path of one name,
and two couriers the least that can overtake each other. Reloads are not counted.

In `core_reload` the first edit runs over all fields, so every expression of `closeResources`
is decided both ways; the second is of a field that closes a resource others hang on, one
that closes a leaf, one hot field and one that reaches all servers. Two clients of a server
are the least that can override, and meet in the table. In `media`: segments of at least
`SegmentDuration` 3 and parts of 2 in `MaxTime` 5 units of time make two switches (the second
segment begins with a sample that was held back), two instances one restart; two readers, two formats and a queue of one unit the least with which a
queue is full while another is not; a cleaner with terms of 0 (keep), 2 (an interval of 1)
and 6 (the longest interval, 3) meets every order of reload and tick; one local candidate, two tracks and one
reconnection meet every order of callbacks; each file of a certificate is written twice;
two requests and one new key with a refresh period of 2 are the least in which a stale
answer may be stored; `ClockRate` 3 and `Second` 2 do not divide each other, so that the
estimate is rounded. H.264 has two parameter sets and
packets that can be encoded again, MPEG-4 video one set and packets that are refused, AV1 none
(`Codecs` may name `h265` too, whose three sets take three times the states and no other path).
Three NALUs (`MaxNALUs`) in up to three packets let the
decoder, the encoder and an error come in the first, a middle or the last packet.

Deadlock is checked in the runs of `Path`, of network sources and of `PathManager`; `Ended` is
the stuttering step of what has ended. `CHECK_DEADLOCK FALSE` is said where a part really
stops: the secondary camera can stop the server (`source_safety`, see section 6); a server that has ended or
crashed, clients that are gone and a recording that is at its bound have no further step
(`core_reload`, `servers`, `media`). There the liveness properties say who may not stop.

### Fairness

- a timer that is armed fires (weak fairness): the Go runtime does that;
- a goroutine whose context is done sees it. In `Path` weak fairness is enough, because the
  step stays enabled; in `StaticSource` the goroutine may take other cases of its `select`
  first, and strong fairness stands for Go's random choice among the ready cases; in
  `PathManager` that holds for what a path tells the manager, for the context of path and
  manager, and for the answers to clients;
- a reader or source that was told to end returns and says so;
- `Core`: the goroutine of the core goes on with the reload it has begun (`CloseStep`), nothing else;
- servers: the loop, the goroutine of each client and of each request go on (weak), the manager
  and the path answer each client in the end although others are served between (strong);
- `media`: callbacks return, the library reports the states it
  has reached, each goroutine goes on (weak). No process has to exit, since the code sends SIGINT and
  nothing else: `Pool.Close` returns, and a command that is closed ends, unless a process goes on, and
  `EverythingEnds` says so. Strong only where a `select` has the context
  among cases that come back: the pause of a command (`PauseTerminated`) and the loader
  of a certificate (`Done`);
- nothing obliges a source to connect, a publisher to come, an open reader to leave, a command
  to exit, or an administrator to do anything.

## 5. Proofs

No theorem is about the small values of the runs: each holds for every value of the constants
that satisfies the named assumptions of its module. Every inductive invariant was checked with
TLC on the run of its module before it was proved (where it says that there is a sequence, TLC
was given the slices of the access unit).

`PathProofs` holds for every set of readers (finite),
describers, publishers, streams, settings and configurations that satisfy the named
assumptions of `Path`.

1. `PathProofs`, without an assumption on `InitCanFail`: `TypeCorrect`, `HeldCorrect`,
   `TimersCorrect`, `ReaderLimitCorrect`. `TimersFollowDemand` is not inductive by itself: a
   closed path keeps its states, so `TimerInv` adds what the phases say.  `ReaderLimit` rests
   on `AdmittedBound`: a sequence has no more distinct members among its first n than n.
2. `PathProofs`, assuming `~InitCanFail`: one inductive invariant `IInv`, whose parts are
   `SourceInv` (source, handler and configuration fit), `DemandInv` (on-demand state and
   handler fit), `StreamInv` (stream, hook, recorder, open streams), `SessionInv` (what each
   client has against what the path thinks), `HoldInv` (nobody on hold with a stream),
   `UseInv` (closing only unused), `EndInv` (what is over) and `TimerInv`. None is inductive
   without the others: that the close timer finds an armed hook, for example, needs
   `StreamInv` and `DemandInv`, and that a late `RemovePublisher` is harmless needs
   `SessionInv`. From it follow the safety properties of `path_safety`, one theorem each.
3. `PathProofs`, of the steps: the action property `UnusedPathCloses`, and that every step of `Path` is a
   step of `StreamBroker` or none (`BrokerCorrect`).

`InitCanFail` is an assumption because the code does not keep these invariants otherwise
(`path_dead_stream`).

4. `StaticSourceProofs`: `TypeCorrect`, `OneInstanceCorrect`, `ReadyIsFedCorrect`,
   `ContractCorrect`. `OneInstanceAtATime` speaks of the moments after `Stop`; what keeps it true is
   `HandlerInv` (the handler runs exactly while the path thinks so) with `InstanceInv` (there is
   an instance exactly when the goroutine of the handler has one to wait for). `ReadyIsFedCorrect`
   assumes that no configuration is that of a secondary camera, which ends without
   `SetNotReady` (section 6). `ContractCorrect` shows that every step is one of `SourceContract`
   or none: it discharges, for the handler, what `Path` takes for granted of its source.
5. `PathManagerProofs`: `TypeCorrect`, `OneSourceCorrect`, `ViewCorrect`, `ConfigurationCorrect`.
   The hard part is the middle of a reload: `ConfInv` says that a path fits the old configuration
   until it is its turn and the new one from then on (`InForce`), and `View` that whoever is not in
   the map has ended, or is the one the manager waits for, or has no source any more.
   `pm.ctx` done ends both the view and the promise, as in the run.
6. `CoreProofs`: `TypeCorrect`, `NoDanglingCorrect`, `ReloadedCorrect`. First the tables: a
   setting is compared, hot reloaded, or in `NotCompared` (`SettingsCompared`); what enables a
   resource is compared (`EnabledCompared`); whoever was given a resource is closed when it is
   (`FlagsFollow`), and before it (`ClosedBefore`), except the API and the RTMPS server. Then the
   invariant: `ObjectInv` (a resource refers to all that runs of what it was given),
   `UsersClose` (whoever was given what is to be closed is to be closed) and `Kept` (what goes on
   running has the settings of the configuration that is applied and waits for nobody).
   The proof is for any number of edits of any fields; `MaxEdits` bounds only the runs.
7. `ServersProofs`: `TypeCorrect`, `LeavesPathCorrect`, `SessionsCorrect`, `AdmittedCorrect`, each
   for all five protocols. The steps of `ProtocolServer` are dealt with once and cited for each
   server (`Table`, `Out` and `IsChecked` are the parts of the invariants they share); then
   `RTMPInv` to `HLSInv` add what only that server knows, such as which place of a session goes with
   which answer of its POST (`PostIsAt`), what a session of RTSP holds of its path while a
   handler waits (`HoldsPath`), and which muxers there may be (`Remuxed`).

8. `MediaProofs`: `EndedCorrect`, by one inductive invariant for each of the five parts
   `EndedForGood` speaks of, and `Spec` lets only one of them move.
   - `RecorderInv`: everything on disk is complete, or writing it failed, but for the current segment
     (`Current`), and nothing on disk begins after it, so a file is never begun twice unless writing it
     failed. What `HooksInOrder` promises of a file that failed is only that it is not complete before it
     was announced, nor twice.
     That the next segment begins later than the last rests on `NextStart` (the oldest sample that
     is not too far behind the newest is newer than the start, because segments are longer than
     `Tolerance`) and on `SampleInv` (a sample that is kept is not newer than its track);
     what a chain of writes, each of which may fail, does to a file is `Writes`, proved of each
     operation on a segment and handed on from lemma to lemma.
   - `StreamInv`: who stops a reader holds the mutex alone, so no writer is writing.
   - `PeerInv`: the states the library reports, has still to report and has reported
     (`SignalInv`), so no channel is closed twice.
   - `AuthInv`: what was promised to a request is what the server of keys has, or what is cached
     (`PromiseInv`), at each place between asking and judging.
   - `CommandInv`: a process is there only while its command waits for it.

   `EndedCorrect` assumes that the timestamps of no track are doubled. The model names segments by
   timestamps, the code by absolute times, which it does not double: with MPEG-1 audio the names in the model
   are not those of the code, and `recording_mp3` therefore has one instance and does not ask about names.

9. `RecordingProofs`: `RecordingInv`, the invariant of a recorder that says what it leaves for
   playback, and what follows from it (`RecorderTypesAre`, `DiskPlayable`).
   - `StepInv`: while the tracks are in step, a sample that is kept is the last of its track, and what
     is kept of a track that is not silent is not older than the segment. So
     `nextSegmentStartingPos` never has to skip a track that has begun: nothing is dropped.
   - `HeldInv`: the segment in memory against its file (`Held`): instance and number are those in the
     header, the parts reach as far as the segment or the rest is still in memory, unless something was lost
     (`Covered`), and the duration is not beyond what is there unless it was; it is opened at most once
     more than writing it failed. It is handed on through each chain of writes, as `Writes` is in
     `MediaProofs`.
   - `OrderInv`: a segment that is finished is over before a later instance begins; within an
     instance it begins no later than its predecessor ends, and overlaps it by at most `Tolerance`;
     the current one goes on from there (`GoesOn`, `Follows`). Only the last segment of an instance can
     have lost anything, since an error ends the instance: so what is sent does not stop before it.
   - What a list makes of such a disk (`Recording`): the segment before another in the list is its
     predecessor in its instance or the last of an earlier one, so `Concatenates` holds exactly of those
     that are not the first of their instance (`IsFirst`); each entry is then one instance
     (`FirstIsOne`), also of the part of the disk that `FindSegments` takes (`PieceOf`). A file that
     cannot be parsed is one that failed; of a stretch of time in which there is none, all is listed and sent.
10. `PartsProofs`: `TypesCorrect`, `RecordingsCorrect`, `NothingLost`. `PartsInv` is, for each part,
   the invariant of `MediaProofs` or `RecordingProofs`, or one of these:
   - `CleanerInv`: what expired before the current interval began is gone; an interval lasts half of
     `recordDeleteAfter` at most, which is `CleanedInTime`.
   - `CertInv`: at each place of the loader, what it has read of a file is what the file holds,
     or an event of that file is still on its way or was missed (`ReadInv`).
   - `EstimatorInv`: the last estimate is computed from the reference. That `multiplyAndDivide` is
     monotonic, also below zero, where Go rounds the other way, is proved of `\div` (`Rate`).
   - `UnitsInv`: what the writers have still to push, what is in the queue and what was called back
     of a format are one ascending sequence (`Older`, `IsAccount`).
   - `PeerBounds`: each counter and set of the peer connection within its bounds, next to `PeerInv`.
   - `ProcessorInv`: until packets are encoded again, all of an access unit has been routed and the
     decoder has collected the end of it; from then on what was routed is its beginning, and the two
     overlap in the NALUs that were routed before (`UnitGoesOn`). What `Content` does to sequences that are joined is proved of the recursive function `ContentUpTo`: of a
     sequence for which it were false there would be a shortest prefix (`SmallestIsThere`).

   The three theorems assume that no timestamps are doubled, for the reason given above;
   `recording_mp3` shows that `NothingDropped` is false otherwise. That concerns MPEG-1 audio
   in fMP4 only: everywhere else the constant is empty.

What the proofs changed in the models: an object of a path is used again only when no entry of
the map has it (`Fresh` of `PathManager`); `"none"` is no section of the configuration
(`SectionsAssumption`); the fields that are edited later are fields (`CoreAssumption`); the bounds of
times, candidates, keys and clocks are numbers, and no request is named `"free"` (`TimesAssumption`,
`PeerAssumption`, `AuthAssumption`, `CertAssumption`, `EstimatorAssumption`, `CleanerAssumption`,
`ProcessorAssumption`). `Playback` was written with folds over sequences and is now
written with sets, `EveryUnitCounts` with the indices of the queue instead of a filter, and
`Content` with a recursive function: what operators that are recursive or take an operator
return is beyond the provers. `MaxTime` is at least 1 (`TimesAssumption`), without which no sample is
written.

Only model-checked: liveness, since fairness and ENABLED are beyond the prover
(`StaticHoldAnswered` and `WhatIsOverEnds` of the path, `NobodyWaitsForEver` of the handler
and of the manager, `FailedSourceRetries`, `ReloadsEnd` of the core, `EverythingEnds` of the servers and of
the parts), and the violations of section 6.

## 6. Where the code differs from what it says

Shown by a run:

- `path_dead_stream`: `setReady` assigns `pa.stream` before `Initialize()` and leaves it there
  when that fails; readers are then given it.
- `core_reload_deadlock`: the handlers that edit paths send the configuration to the core with
  the mutex of the API locked. If the core has just taken a change of the file, its
  `api.ReloadConf` waits for that mutex: neither goes on.
- `recording_mp3`: MPEG-1 audio is written into fMP4 with `u.PTS + u.PTS`: its clock runs
  twice as fast and samples of the other tracks are discarded.

Modelled; the properties are stated so as to leave these out, and say so:

- Paths. The timer of `runOnDemandStartTimeout` is armed only when the command starts: a request
  held after its publisher left has none (`StaticHoldAnswered` is about static sources). Each
  hot reload travels in a goroutine of its own: of two, the older may be applied last. A path of
  the regexp that was moved to a section of its own may close itself before it learns so
  (`MapFollowsConfiguration` leaves such publishers' paths out). While `close()` is under way
  the manager may create a path again whose old source is still closing (`OneSourcePerName`
  is about the time before).
- Sources. `Handler.ReloadConf` forgets a configuration that comes while the handler is stopped.
  The primary camera panics when `SetReady` is refused. The secondary camera ends without
  `SetNotReady`, and asks the manager for the primary path while the manager may wait for its
  own path: the server then stops serving (`source_live` has network sources only).
- Core. `closeResources` does not compare the SRTP, SRTCP and multicast settings of the RTSPS
  server (`NotCompared`); `closeAPI` does not take in the RTMPS server, so that the API may keep
  one that was closed (`NoDanglingReference`). A scrape reads the servers of the metrics without
  a mutex and may meet nil while a reload takes them back. A watcher that failed closes its
  channel, which makes the core reload again and again. Global settings patched through two
  requests may be applied in the other order. A file that is invalid ends the server. A logger
  that cannot be opened again is nil when the error is logged.
- RTSP. A kick runs `onClose` in the goroutine of the API. While a handler of that session waits
  for the path, the session may stay in the path, or `onPlay` meets a nil path (`cut`).
- WebRTC. After an error `readRemoteCandidates` answers a PATCH twice; nobody takes the second
  answer, and later PATCH requests wait for the end of the session (`RequestAnswered`).
- HLS. A path that is removed while it is ready tells the server nothing; one that is created in
  its place may be ready before the dying muxer has left the map, and has then no muxer
  although `hlsAlwaysRemux` is set (`AlwaysRemuxed`).
- RTMP and SRT. A connection that is on hold for a path is not cut by a kick or by `Close`: it
  leaves when the path answers.
- Recording. If writing the header of a segment fails, `onSegmentCreate` may run twice and
  `onSegmentComplete` never; and the file stays: each list that needs it answers 500 and each
  request that comes to it fails, whatever else was recorded. If writing a part fails, or a sample is
  refused, the header gets a duration that includes what was lost: what is sent ends
  before the entry of the list does, and a torn part may fail the request (`SegmentsPlayable` says "unless"). The last segment after a switch may end before the one it
  follows. Segments not longer than the tolerance may be named before their predecessors
  (`TimesAssumption`). The cleaner goes by the start of a segment, also of one still being
  written, and starts its interval anew at each reload.
- Units. In the access unit in which encoding begins, NALUs that were routed before come again
  (`RoutedWithoutGap`). A decoder that is created in the middle of an access unit gives the
  first reader a part of it (`KeyFramesDecodable`, "late"). Packets that cannot be decoded are
  kept from RTSP readers too, but only if there are, or were, other readers. A parameter set
  in front of a frame that is no key frame is taken out for other readers. A parameter set in
  fragments is taken out and not kept. `h265.updateTrackParametersFromAU` compares with
  `Format`, not with the set found before in the same access unit as H.264 does.
- Peer connections. The WHIP client does not look at its context while it gathers; it ends by
  its handshake timeout. `incomingTracks` is appended to by the session while `run` closes
  its members.
- Commands. Nothing but SIGINT is sent to a process, and only if its command is closed: `Pool.Close`, and
  with it the end of the server, waits for a hook that ignores it, or that is not closed at all because it
  runs once (`runOnDisconnect`).
- Certificates. A change that comes within a second after the last is thrown away, and nothing
  repeats it (`ChangesLoaded` says "unless"). A watcher that fails makes the loader load again
  and again. `Close` does not wait for the loader, which may set a certificate afterwards.
- Authentication. The mutex is held during the HTTP request for the keys, so that one slow server
  delays every request.

## 7. Not modelled

Wire protocols, the bytes of packets and the audio codecs of `codecprocessor` (which keep no
parameters), most of `protocols`, TLS, HTTP,
the boxes of recordings, logging, the text of metrics, PTZ and operating system limits: input and
output, or data transformations far beyond small instances. Of the configuration, parsing,
defaults and environment; of the API, listing and pagination, which only read; of RTSP, connections
without a session and tunnels; of file watching, removal and links; of authentication,
the comparison of users, permissions and addresses. The counter dumper only writes to the log.
`PROJECT.json` has the state of each component.
