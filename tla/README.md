# GnssView: a TLA+ model, its checks and its proofs

GnssView is a Qt 6 / C++ desktop application for GNSS receivers. It reads bytes
from a serial port, a TCP or UDP socket or a transport plugin, cuts the stream
into NMEA sentences, binary frames and text, decodes them with built-in and
plugin protocols, shows position, satellites, a deviation map and a TEC map,
records sessions to disk and sends commands and files back to the receiver.

This directory holds the model of the part of that which is hard to test: the
state that several asynchronous events share. Paths below are relative to the
root of the repository, where the C++ sources are under `src/`.

The whole application runs on **one Qt event loop**. There are no threads and no
locks. What can go wrong is the *order of events*: signals, queued events, timers,
replies of servers, plugin reloads and clicks may come in any order, handlers call
each other synchronously through direct signals, and flags, copies and timers
must still agree afterwards. So throughout the models **an action is one event
together with everything its handlers do**, or one call of the handler that is
on the stack where that is the more readable grain (`FileSend`).

## 1. Inventory

| Component | State | Operations | Interacts with | Correct when |
|---|---|---|---|---|
| File-send service (`core/AppController.cpp` 1000-1130, `core/FilePacketizer.cpp`) | `m_fileSendQueue`, `m_activeFileSendJob`, `m_fileSendTimer`, download replies | FILE button with a path or URL, reply finished, timer, write of a packet, raw commands, `sendRequested` of plugins | transports (synchronous `sendData`), automation plugins (queued connection), network | every accepted file ends; files in order, not mixed, gapless, on one transport; the report is true |
| Transport selection (`core/TransportViewModel.cpp`, `transports/*.cpp`) | lock, active transport, state of every device, plugin transports | open, close, socket and device signals, tab selection, plugin reload | controller through `openChanged`, recorder | lock, active transport and what is open agree; each connection gets a session |
| Session recording (`storage/RawRecorder.cpp`) | session directory, two files | start session, new root, frames received and sent | settings by direct signals, controller | bytes go to the session of their connection, once; directories are never shared; nothing without a log root |
| Settings (`core/AppSettings.cpp`) | log root, two switches, plugin switch and directory, a group per plugin; the stored file | setters, load and normalise | recorder, plugin reloads, start-up | no kind of logging without a directory; the file holds the settings in use |
| TCP read buffer (`transports/TcpClientTransport.cpp`) | buffer, "dispatch scheduled" flag, queued dispatch events | readyRead, dispatch of 16 KiB, disconnect, close, reconnect | controller through `dataReceived` | in order, once, none of an earlier connection; a non-empty buffer is passed on |
| Stream segmentation (`core/StreamChunker.cpp`) | buffer of one stream | feed, reset | framers of the protocols | concatenation of chunks is the stream; sentences are found; bounded buffer |
| Protocol routing (`core/BinaryProtocolRouter.cpp`, `core/ProtocolDispatcher.cpp`) | route and pending bytes per stream, parser state per plugin | probe, feed, reset | protocol plugins | frames reach the protocol that owns them |
| Position epochs, deviation map, UI refresh (`core/AppController.cpp` 1174-1448, `models/DeviationMapModel.cpp`) | location, last sample, points, four dirty flags, refresh timer | frame, timer, new session | decoder, models, QML | one point per epoch, best sentence, right date; every change is shown |
| NMEA decoder (`protocols/NmeaProtocolPlugin.cpp`) | line buffer, satellites, ids in use by constellation and signal, cycle and round marks | feed, sentence handlers, reset | controller and its satellite table | complete and current satellites and marks |
| TEC overlay (`tec/TecMapOverlayModel.cpp`) | observation time, debounce timer; per source dataset, overlay file and last request; selection | observation, timer, answer, reset, selection, reload | TEC plugins, settings, decoded times | picture, files, datasets and selection agree; due requests are made |
| Update checker (`core/UpdateChecker.cpp`) | check in flight, silent flag, release shown | silent and explicit check, reply | network, UI, start-up | an answer speaks as its check was asked for; offers are newer |
| Automation and protocol plugin reload (`core/AppController.cpp` 768-963) | plugin lists, connections, queued reloads | reloads, selection | settings, loaders | plugins in use are those the settings ask for |
| Plugin loaders (`core/*PluginLoader.cpp`) | list of loaders | directory scan | Qt | precedence of directories; one transport of an id |
| Application shell (`app/main.cpp`) | start-up timer | start, end | settings, update checker | the start-up check follows its setting |
| Command buttons, list models, TEC renderer, QML | presentation | - | - | - |

How they interact, along the way of a byte: a transport emits `dataReceived`;
`AppController::handleIncomingBytes` records it (`RawRecorder::recordRaw`), hands it
to the automation plugins, chunks it (`StreamChunker`), records and decodes the
chunks (`recordChunk`, `ProtocolDispatcher`, `BinaryProtocolRouter`) and applies the
messages (`applyProtocolMessage`), which marks parts of the UI dirty and starts
the refresh timer. In the other direction commands, file packets and plugin sends go
through `TransportViewModel::sendToTransport` to the device. `openChanged`
is handled by the view model first (it connected first), then by the controller,
which starts a session if the transport is the active one.

What is hard here: the two-step opening of TCP; handlers whose order
of connection matters; plugin transports that are registered again after
a reload; a single-shot timer that outlives, or must not outlive, its job;
settings copied into the recorder; epochs that arrive as several sentences, of
which some have a date and others get the host's; a coalescing timer that must
neither be lost nor be postponed for ever; a dispatch flag and its queued calls, which
outlive the connection they were made for; sentences whose meaning depends on
those before them, any of which may be lost; answers that come after what was asked
for has changed; settings that are stored piece by piece and followed by reloads, of
which some are queued and some direct. `PROJECT.json` lists each such hazard at
its line with the properties that would catch it.

## 2. Modules

| Module | What it is |
|---|---|
| `FileJobQueue` | abstract: files are accepted, delivered packet by packet one after the other, and end once |
| `FileSend` | detailed: queue, active job, timer, downloads, posted plugin sends, transports; implements `FileJobQueue` |
| `FileSend_proofs` | theorems about `FileSend` |
| `Transports` | view model, transports, plugin reload, the controller's reaction to `openChanged` |
| `Recording` | extends `Transports` with settings, recorder and frames |
| `Recording_proofs` | theorems about `Transports` and, on top of them, about `Recording` |
| `PositionView` | UTC merging, deviation points, dirty flags and refresh timer |
| `PositionView_proofs` | theorems about `PositionView` |
| `Stream` | a TCP connection: read buffer with queued dispatches, chunker, router |
| `Stream_proofs` | theorems about `Stream`: chunker, router, bytes of a connection, read buffer |
| `NmeaSatellites` | a receiver's GSV and GSA sentences and the decoder's bookkeeping |
| `NmeaSatellites_proofs` | theorems about `NmeaSatellites` |
| `TecOverlay` | observation times, debounce timer, requests and answers, overlay files, selection, reload |
| `TecOverlay_proofs` | theorems about `TecOverlay` |
| `PluginSettings` | the settings, their file, plugin directories, queued and direct reloads |
| `UpdateChecker` | one check at a time, its answer, versions and assets |
| `Application` | composes `PluginSettings` and `UpdateChecker` from start to end of the program |
| `Application_proofs` | theorems about settings, plugins and update checker in `Application` |
| `Lists`, `Lists_proofs` | selections from a list, as loops make them, and lemmas about them, about recursion on naturals and about concatenation |
| `MC*` | instances for TLC: the sets of transports, plugins and roots, and the symmetry |

Operators written just before a definition with a comment "the mutant ..." are that
definition with a plausible bug put in; they are used by nothing. They document
how each property can fail, and `PROJECT.json` says which property each breaks.

### FileSend

`frame` is the handler on the stack. `"loop"` means that the next step is an event.
Its other two values open the two mutually recursive functions:

| Action | Code |
|---|---|
| `SendLocalFile`, `DownloadFile`, `DownloadSucceeds`, `DownloadFails` | `sendFileCommand`, `downloadFileCommand`, the reply's `finished` lambda, and the tail of `queueFileBytesForSend` (operator `QueueFileBytes`) |
| `StartNextFileSendJob` | `startNextFileSendJob` |
| `SendPacketFails`, `SendPacketSucceeds` | `sendNextFilePacket` (`EndJob` is `reset(); startNextFileSendJob(); return;`) |
| `TimerFires` | `m_fileSendTimer` timeout |
| `UserSends` | `sendRawCommand` of a command button |
| `PluginRequestsSend`, `DeliverPluginSend` | `sendRequested` over the queued connection, `onAutomationSendRequested` |
| `Environment` | everything that opens or closes transports or selects one |

`job`, `sent`, `result`, `wire`, `accepted` and `raws` are histories that the properties
talk about. A file is its number of packets; its bytes, the decoders (hex, base64)
and the packet sizes do not matter to the order of events. A command whose target is a named
transport instead of "Active" is the one whose target was active just then, as `Environment` may
select any transport before and after it. A write may be refused even
when the transport is open (UDP has no peer yet, short write), so `SendPacketFails` has
no guard on `open`. The two defensive branches at the top of `sendNextFilePacket`
are not actions: `SendHasAPacket` says, and is proved to say, that they are dead.

### Transports

`link` is the state of every device (`"connecting"` exists for TCP only: its `openWithSettings`
returns `true` before the socket is connected), `sel` holds `m_lockedTransport` and
`m_activeTransport`, `attached` counts how often `attachTransport` has connected the
controller to a transport. `Lock`, `Activate` and `OpenChanged` are
`setLockedTransport`, `setActiveTransport` and `handleTransportOpenChanged`
as functions on selections, so that an action composes them in the order in which the
signals are emitted; `ControllerReacts` is `handleTransportOpenStateChanged`.
`UserMayClose` is the condition of the close buttons in `TransportConfigPanel.qml`.
The reload branch that looks at the transports while some are still open is
`ClosedBeforeOpenOne`.

Assumed: a transport plugin's `name()` is its `transportId()` and it emits `openChanged`
when it opens or closes, as the property `open` of `include/hdgnss/ITransport.h` (`NOTIFY openChanged`) asks. A plugin is the same
object after a reload (`QPluginLoader` keeps the instance), which is what `attached` counts.

### Recording

Extends `Transports`; `TransportStep` is any of its events with the sessions it
starts. `logging` is the state of `AppSettings`; the recorder's own copies of root and
switches follow it within the same step through direct signals, so they are not
variables. A session directory is its place in `dirs`; its name is what makes it
unique: root, millisecond and numeric suffix. Full disks and removed media are the
choice `usable` at every opening of a file, as the code tests only whether the file
is open. How many chunks a frame completes is a choice here; what they are is the
subject of `Stream`.

### PositionView

A time is a day and a time of day; `Clocks` is the number of epochs in a day, so an epoch
may cross midnight. `now`, `hasTime` and `skew` are the receiver and the error of the host's
date. `HandleFrame` is `handleIncomingBytes` for one message; a frame
with several sentences is several of these steps. `fix` means a valid fix with a
finite position. `ClearUiState` is a new session when `resetUiOnNewConnection`
is set. Whether a message changes an information panel is a choice. Left out:
plugin messages that have a position but no time, and the geometry and statistics of the
deviation map. The tick is a unit of the refresh interval and no real-time claim is made.

### Stream

Bytes are pieces: the body of a sentence, a piece of text, carriage return, line feed, a header
and the rest of a frame. That keeps what `looksLikeTextRun`, `findLineEnd`,
`consumeLineEnding` and the framers look at and drops the length of the rest. `Turn` is one
turn of the loop in `takeAvailableChunks`, with `NextChunk` what it finds, `TakeAvailableChunks` the
loop, `MergeBinary` the merging at its end; `RouteChunk` is `routeChunk` in the state it finds, `Routed` the
loop over the chunks of a dispatch. Loops are recursive functions of the number of turns.

| Action | Code |
|---|---|
| `Connect` | `connected`, with the session that it starts: `startTransportSession` resets chunker, router and decoders |
| `ReadyRead` | the `readyRead` handler and `scheduleBufferedDispatch` |
| `DispatchBufferedReads` | one queued `dispatchBufferedReads`: `PassOn` is the transport's part, `HandleIncomingBytes` the chunker, the router and the decoder fed by `dataReceived` |
| `Disconnect` | the `disconnected` handler and `close()`, which leave queued calls where they are |

`plan` is what the device sends over the connection, any of the `Plans` of its protocol (up to
`MaxItems` sentences, lines and frames); `chunks`, `fed` and `cut` are histories of the connection. Plugins are known by
what they answer (`Framer`, `Probe`, `TrailingBytesToKeep`), which is external. A framer that answers
"wait" blocks every chunk behind it, as in the code.

### NmeaSatellites

The receiver is the environment: `Styles` are the ways in which receivers differ (signal ids in
GSV or GSA or neither, GSA before or after GSV, numbering per signal or through, a talker of its own or
`GN`). `gsvLeft` and `gsaLeft` are the ids it has still to report in this epoch, and `SendGsv` and `SendGsa` send
the next of them: the lowest ids of the first signal, as many as a sentence takes. `ReceiveGsv` and
`ReceiveGsa` are such a sentence with the branch of `parseSentence` that decodes it (`Gsv`, `Gsa`);
`UpdateUsedSatellites` and `IsSatelliteUsed` are the functions of these names. `LoseSentence` is a checksum that
does not match; `StartSession` the reset of the decoder (`resetState`). The controller's own table is not
modelled: `applyProtocolMessage` inserts what a message lists and removes nothing until the user interface is cleared, which
its test wants (`src/tests/GnssViewRegression.cpp` 725, "merge satellite updates instead of replacing prior entries").

A receiver has one constellation for its GSV and its GSA. Where the talker of the GSA is `GN` and the sentence tells
its system (NMEA 4.10 and later), the decoder takes the constellation from there and finds no signal
id, so that `GP` GSV with `GN` GSA of system 1 is the style with talker `GPS` and GSA without signal ids. Receivers whose
`GN` GSA does not tell the system while their GSV have talkers of their own are not represented, nor
are the proprietary `PSSGR` GSA. What the properties exclude is what the code does not do: satellites that the decoder files under
another constellation than the talker's (SBAS under `GP`) are never erased nor are marks
of other constellations reset; signals no longer reported at all keep their satellites; a GSA that lists
satellites of other constellations only leaves the marks of its talker; a GSA without signal id
that follows GSV sentences with signal ids marks one epoch late; GSA sentences with signal ids do not
match GSV sentences without; and under `GN` the ids of all GSA sentences add up.

### TecOverlay

| Action | Code |
|---|---|
| `SetObservationTime`, `ClearObservationTime` | `setObservationTime` with a valid and with an invalid time |
| `Tick`, `RequestRefresh` | the debounce timer and `requestRefreshForEnabledSources` |
| `DataReady`, `RenderFails` | `handlePluginDataReady` with `renderDataset`; the directory or the image cannot be written |
| `ErrorOccurred` | `handlePluginErrorOccurred` |
| `SetActiveSource` | `setActiveSourceIndex` from the list that QML shows |
| `SetPluginsEnabled`, `SetPluginEnabled`, `SetPluginDirectory`, `SetPluginValue` | the signals of `AppSettings` that reload at once or by a queued call |
| `QueuedReload` | a queued `reloadPlugin` |

An answer comes after the call that asked for it has returned, and only to connected sources. A file is its number
(`m_revision`) and the time it shows. A burst of messages is one step.

### PluginSettings, UpdateChecker, Application

`stored` is the file of settings and `settings` the members of `AppSettings`; they are written and read
key by key (`StorePlugin`, `Load`). `queue` are the queued reloads in the order in which they were posted, `inUse` and
`applied` the plugins that the three reloads took and the private settings they gave them.
The setters are the actions; `PostAll`, `Post` and `AvailabilityChanged` what their signals bring about
(`AvailabilityChanged` reloads transports in the step itself). `Files` are plugin
files with a kind and an id, so that two files may carry one id; `Listing` is what lies in a directory, fixed while the program runs, as is
the environment (`EnvDirs`). Plugin objects live on after a reload, since `QPluginLoader` does not unload
them. An empty plugin directory comes back as the default one at the next start.

`CheckForUpdates`, `ReplyRelease` and `ReplyFails` are the methods of `UpdateChecker`; versions are sequences of numbers,
a suffix is dropped by `StripTagPrefix` as the code drops it, assets are their scores. The text of answers and
the scores' rules for each platform are left out. `signalled` is a history.

`Application` is `main.cpp`: `Start` loads settings and plugins and starts the timer of the silent check
if the setting asks for it; `UserCheck` is the menu entry or button; `End` is the end of the program or,
within `setExclusivePluginEnabled`, a crash between two stores (`CrashInSetExclusive`). Each operation on the settings'
file is atomic, as `QSettings` keeps a store operation whole. `Main.qml` shows a dialog for `updateAvailable` only; the
other two signals change the texts of the page.

## 3. Runs

| Run | Instance | States | Shows |
|---|---|---|---|
| `file_send` | 2 transports, 3 files of up to 2 packets, 1 download in flight, 1 raw command, under `FairSpec` | 785,256 | order, completeness, no stranded job, truth of the report, every accepted file ends, refinement of `FileJobQueue` |
| `recording` | 3 built-in and 2 plugin transports, 2 roots (symmetric), 1 stamp, 2 sessions, 1 reload, 1 frame | 873,248 | agreement of lock, active transport and devices; a lone connection gets its session; logging switches, files only under the current root, distinct directories, misfiling limited to TCP |
| `position` | 2 epochs a day, 3 epochs across midnight, 3 points, host's date right | 11,932 | one point per epoch from its best sentence, the date, every change scheduled and shown |
| `stream` | 2 connections of up to 4 sentences, lines and frames, one framed and one unframed protocol, dispatches of 5 pieces | 418,425 | bytes in order, sentences found, frames fed, read buffer drained |
| `satellites` | 2 GPS satellites and an SBAS one, 2 signals, talkers `GP` and `GN`, one satellite in a sentence | 413,902 | satellites and marks are the last epoch's |
| `tec` | 2 plugins, 2 observation times, 2 files written, 2 changes of settings, debounce and gap of 2 ticks, under `FairSpec` | 1,038,378 | picture, files and selection agree, due requests are made |
| `application` | 7 plugin files of 5 ids and 3 kinds in 3 directories, 4 queued reloads, 2 releases | 1,589,400 | settings survive, plugins follow them, answers match requests |
| `file_send_plugin`, `recording_filed`, `recording_once`, `position_dates` | as above | - | the four disagreements of section 6 |

**Bounds and why they are enough.** *Three files* let one be sent while one waits and a
third is accepted, by download or from disk, at each point of the first two;
*two packets* are a first one, which starts the timer, and a last one, which does not; *two
transports* make "resolved when queued" different from "active now"; *one raw command*
is enough since the model has no state of raw commands beyond a posted event.
*Two plugins* are a pair of exclusive devices that a reload closes one before the other, in
both orders of the scan; *one reload* is a transport attached twice. In `recording`, *two roots* and
*two sessions within one stamp* let directories differ in the root only or the suffix only (the stamp
only makes them more different), and leave an old session and a current one; *one frame* at a time suffices since a frame's rows depend on
nothing of earlier frames. In `position` *two epochs a day and three epochs* contain an epoch before,
after and right across midnight, with any number of sentences in each, because a step
repeats until the bound on points, never on frames; *an interval of two* makes
restarting the timer different from letting it run. In `stream` *two connections* let a call
queued for the first be served in the second; *four items*, read in any portions and passed on up to 5
pieces at a time, put every kind of item between every other and every cut within them, and are
longer than one dispatch, so that dispatches chain. In
`satellites` the number of epochs is not bounded; *two satellites and two signals, one satellite in a
sentence* make epochs of several sentences, of which one is lost, with ids in
common between signals and not. In `tec` *two plugins* let an answer to one meet a selection of the other;
*two changes* are two reloads, or a reload overtaken by a change; *two files* are one that replaces
another. In `application` an id lies in two directories and in two files, two automation plugins exclude
each other, one plugin has values, and *four queued reloads* are more than any one setter posts; a setter
that would post more waits. The releases have the same version with a suffix and a newer one that a
comparison of texts would call older.
The bounds (`MaxRaw`, `MaxSessions`, `MaxFrames`, `MaxEpochs`, `MaxPoints`, `MaxItems`, `MaxConnections`,
`MaxTime`, `MaxWrites`, `MaxChanges`, `MaxQueue`) are guards of the model, not of the code. Symmetry is used for the two log roots only, in runs
without liveness: nothing orders or compares roots. Transports are not symmetric, for UART is
active at the start and the scan has an order.

Only run `stream` switches the deadlock check off: after its last connection nothing happens
any more. In the others frames, clicks, settings and selections can
come at any time, so the application never stops; where bounds are used up, selections,
settings or openings still can happen.

**Properties.** All passing runs but `application` have one type invariant. The others:

- `NoStrandedJob`, `SendHasAPacket`: `queueFileBytesForSend` starts a job only if it believes
  that nothing is going on (three conditions ored); the timer and the
  recursion both reach `sendNextFilePacket`. Neither may lose a queued file or send of none.
- `FilesInOrder`, `GaplessOnOneTransport`, `ReportIsTrue`: about the whole history of
  transmissions, whatever fails, opens, closes or is selected in between.
- `ImplementsFileJobQueue`: the same as an abstract specification.
- `ActiveFollowsLock`, `LockHeldWhileOpen`, `OnlyTcpLocksUnopened`, `TwoOpenOnlyByTcp`: the lock
  is recomputed by signals of *any* transport and by reloads. The last two are what
  is left of exclusiveness, given that TCP completes later.
- `LoneConnectionStartsSession` (action property): depends on the view model handling
  `openChanged` before the controller.
- `SwitchesNeedRoot`, `SessionUnderCurrentRoot`, `OwnDirectories`, `MisfiledOnlyWithTcp`:
  settings, sessions and files over every order of events.
- `ChangesAreScheduled`, `EveryChangeIsShown`: flags and timer across flushes and new sessions.
- `OnePointPerEpoch`, `BestSentenceShown`, `ReceiverDateKept`: over all orders of sentences.
- `EveryJobEnds`, `ReadBufferDrains`, `EveryChangeIsShown`, `DueRequestIsMade`: liveness, section 4.
- `BytesInOrder`: chunks, chunker and read buffer together are what was read, however the dispatches
  of an earlier connection fall; the chunker stays below its capacity.
- `SentencesAreFound`: every sentence a chunk of its own, however the reads cut the bytes, unless a line was taken
  without its end. It is stated for devices whose protocol is framed: without a framer a sentence cut off
  right behind binary data is flushed with it (a hazard listed in `PROJECT.json`).
- `FramesReachDecoder`: the route is found and nothing before it is missed.
- `CycleReplaces`, `UsedMarksAreCurrent`: what the decoder holds after an epoch received in full does not
  depend on what was lost before.
- `ShownIsSelected`, `OverlaysAreHeld`, `SettledSelection`: copies of the selected source's state, files on
  disk and the list offered, over answers, failures, selections and reloads in any order.
- `SettingsSurvive`: as long as the program runs, and after every setter, a start would read from the file the settings in
  use. A crash within `setExclusivePluginEnabled` is not covered: it may leave two exclusive plugins enabled, or none, and
  the next start takes what the file says (a hazard listed in `PROJECT.json`).
- `PluginsFollowSettings`: when no reload is queued, what runs is what settings and directories ask for.
- `AnswersMatchRequests`: an answer is signalled as its check was asked for, and offers are newer releases.

## 4. Fairness

`FileSend!Fairness`: a handler on the stack runs to its end, an active `QTimer` fires,
and posted events are delivered. Qt's event loop guarantees these three: handlers do not
block, the loop serves expired timers and the posted-event queue in every iteration. Nothing is
assumed of users, plugins, servers or devices: a download that never finishes holds up no
file, since it is queued only when it has finished (the 30 s transfer timeout is
`DownloadFails` and need not happen). Weak fairness suffices, because an enabled handler or
timer is disabled only by its own step.

`PositionView!Fairness`: time passes (`Tick`) and an expired timer is handled
(`FlushUiRefresh`). Frames may come at any rate and are not fair. `EveryChangeIsShown`
holds because `scheduleUiRefresh` does not restart a running timer; with a restart
(the mutant) a fast stream would postpone the refresh for ever.

`Stream!FairSpec`: the event loop serves queued calls (`PassOn`, the transport's part of
`dispatchBufferedReads`). Reads, connections and disconnections are not fair. The flag
`m_dispatchScheduled` may be reset by `close()` while a call is queued, so that two calls are queued in the next
connection; it never stays set without one, which is what `ReadBufferDrains` rests on.

`TecOverlay!FairSpec`: time passes, and the loop serves the expired timer and queued reloads. Plugins need not
answer. Messages are not fair but no closer together than `Gap` ticks: with `Gap` below
`Debounce` the property is false, for each message restarts the timer. A receiver that sends more than four
bursts a second, each with a time that is due, would never see a TEC map refreshed.

## 5. Proofs

Every invariant and action property that a passing run checks, and the refinement of `FileJobQueue`, is
a theorem; what is left to TLC alone is liveness. All theorems hold for every value of the constants that
satisfies the named assumptions of the modules: `FileSendAssumption` (the bounds are naturals, the
initial transport is known), `TransportsAssumption` (plugin ids differ from built-ins and from the empty name; the scan
visits transports in a linear order, built-ins first), `RecordingAssumption` (having no root is
none of the roots; the bound on frames is a natural), `PositionViewAssumption` (positive day
length and interval; host's date off by at most a day), those of `Stream` (protocols are a list of headers,
which are neither text nor the rest of a frame; the sizes are positive; the chunker's capacity is at least a line given up
and one dispatch, as 256 KiB are), of `NmeaSatellites` (satellite numbers have a constellation, sentences take some
satellites, signals are numbered), of `TecOverlay` (the order of plugins is a list, times and bounds are numbers, the
debounce is not 0, nothing is none of the plugins, times and files), and `PluginAssumption`, `DirectoryAssumption` and
`ReleaseAssumption` (types of files, directories, values and releases).
TLC evaluates the same assumptions.

**FileSend.** `TypeOK` and the listed invariants are not inductive. `IndInv` adds
`QueueShape` (ids are handed out in order and the queue holds exactly the newest of them, and the
active job is the last that left it), `FrameShape` (what the handler on the stack says about job
and timer; between events this is `NoStrandedJob`) and `JobShape` (an active job's index equals
its history; jobs not started have sent nothing; a result is there exactly for started jobs
other than the active one). One lemma per action shows that `IndInv` is kept; from it follow
`TypeCorrect`, `QueueIsServed`, `SendAlwaysHasAPacket`, `TransmissionOrder`, `TransmissionComplete`
and `TrueReport`. `Refinement` shows with `IndInv` that each step of `FileSend` is a step of
`FileJobQueue` or a stutter, for any number of files and packets.

**Transports.** `IndInv` is the conjunction of the properties, which need each other, with
`OnlyTcpConnects`, `OpenIsKnown` and `KnownIsAttached`. Lemmas about `CurrentOpen`, `Lock`,
`Activate` and `OpenChanged` come first (each keeps a selection coherent; the scan finds an open
transport exactly when there is one), then one lemma per event. `LoneConnectionIsRecorded`
proves the action property from `IndInv`; `KnownIsAttached` is what makes at
least one session start.

**PositionView.** `TypeCorrect`, `RefreshScheduled` (inductive as it stands with the type
invariant) and `DateKept` hold for every error of the host's date. `EpochIsOnePoint` and
`MostTrustedShown` are proved under the additional hypothesis `Skews = {0}`, stated in the theorems;
run `position_dates` shows that they fail without it. Their invariant is `MapInv`: points are in
chronological order, the last sample describes the last point, lies not after `now`, and
is of this epoch exactly when a sentence of this epoch has been heard.

**Recording.** `RecInv` is the invariant of `Transports` with the five properties and three parts that
make them inductive. `SuffixesAreInitial`: the suffixes used under a root at a time are 0 to k - 1,
so the first free one is new and stays the next (`FirstSuffixIsNext`, `AddingDirectories`), which gives
`DirectoriesAreOwn`. `DirectoryOfSession`: the session directory was made for the latest session.
`SessionOfOpen`: whatever is open, but for TCP, is what the latest session is of, or that is one of
TCP. The last two and the limits on exclusiveness proved of `Transports` are why bytes are
misfiled with TCP only (`MisfilingNeedsTcp`). A step of transports and the directories it
creates are split into lemmas: one on how many sessions a step starts, one on the sequence of
directories, one on files.

**Lists.** Loops over lists are recursive functions of the number of turns. `FiniteRecursion`
says that such a function has the value its definition gives it, from `SetInduction`: induction over the naturals for a *set*
rather than an operator, which follows from the pigeonhole principle (a set with 0 and all successors that
lacked n would have one member more among 0..n-1 than successors). An inductive fact is then the set of numbers of turns
of which it holds. `PickProperties` (what a selection by positions keeps, in which order), `OnlyMembers`,
`UniqueMembers`, `FlattenAppend`, `FlattenConcat` and `ConcatMembers` are what the other proofs cite. `Pick` and `Only` select by a set
where `SelectSeq` takes an operator, which no lemma could instantiate.

**Stream.** There are two invariants. `ReadInv`, for any devices and portions: what has been read has the flag
`m_dispatchScheduled` set (`BufferIsFlagged`), the flag has a call in the queue (`FlagHasCall`), calls
without a flag are left from earlier connections, one of each (`CallsLeft`), and nothing is read
without a connection (`ClosedIsEmpty`). `ReadsAreServed` is the safety half of `ReadBufferDrains`: a loop
that serves its queue empties the buffer. `QueueIsNotFlooded` bounds the calls by the connections.
`StreamInv` is about the bytes, and makes the three properties of the stream inductive:

- `Whole`: chunks, chunker and read buffer are what was read. The lemmas about the loop (`Taking`, `Takes`)
  show that each turn moves bytes from the head of the rest to the end of the chunks, and the one about
  merging (`Merges`) that it keeps the bytes. That the rest is never longer than `MaxText` keeps the buffer below its capacity.
- `Sentences`: unless a line was cut off, what the chunker has and what comes after it is a sequence of whole items (`Aligned`).
  So what looks like a line at the head *is* the next item, what comes before a line is made of whole frames, and a chunk
  is proper (`Proper`). An invariant about the chunks alone would not do, for what the next
  chunk is depends on where the last one ended.
- `Routing`: what the router has `Heard` of the binary data so far. While no protocol is found there was no frame, and a header at
  the end, which may be half of one, is pending; then all but a front without frames was fed.
- `ClosedIsFresh`: without a connection all is as at the start, so that calls left in the queue find nothing.

From it follow `BytesAreOrdered`, `SentencesAreChunks`, `FramesAreFed` and, with `ReadInv`, `TypeCorrect`, for any streams of items.

**NmeaSatellites.** `Inv` holds whatever is lost: the receiver's part (`ReceiverInv`) says that it goes through its
signals in order, so that of those still to be reported only the first can have begun (`SignalsInOrder`), and that the GSA of an epoch are all
before or all after its GSV (`GsaAndGsv`); the decoder's part (`DecoderInv`) that a satellite whose signal has a set of used
ids is marked as that set says (`Consistent`). `CycleInv`, while nothing of the epoch is lost: of the signals
still to be reported the decoder has seen, in this cycle, exactly the one that has begun, and of each signal begun it
has exactly the satellites reported so far. It is why a second numbering that starts at 1 again does
not erase what was just reported (`CyclesReplace`). `UsedInv` is about the rounds of GSA: when they come first, the GSV
of the last epoch have closed its round, or it had none and no satellite in use; when they come last, the
first GSV of their own epoch has; from then on a set holds what was listed so far (`Collected`), an empty GSA leaves an empty
set (`EmptyIfUnused`), and satellites with signals follow the set for all signals if that came first (`MarkedByAll`). With
`OwnIdsAreRaw` (numbers of the talker's own satellites are kept) this gives `MarksAreCurrent`. Nothing is assumed of
how many satellites, signals, sentences or epochs there are, nor of what earlier epochs lost.

**TecOverlay.** The types need that a queued reload is due to a change (`reloads <= changes`). `ShownIsSelected` is inductive with
them. `OverlayInv` adds to `OverlaysAreHeld` that no overlay's number exceeds `m_revision`, so a new file is
nobody's, and that no two sources hold the same file: the file that an answer replaces and removes is the source's own. `SelectionSettles` uses what the
scan returns for any list of plugins (`Lists`).

**Application.** `AnsweredAsAsked` is the half of `AnswersMatchRequests` that is about the order of
requests, answers and restarts. Its invariant adds that the silence of the check under way is the one it was
asked for with (`SilenceAsAsked`), which a second request must not change. `AnswersAreRight` adds `OffersAreNewer`.
`SettingsAreKept` rests on `FileHolds`: a start would make the settings in use of the file, key by key (`Holds`); a setter
and its stores keep that, and a start takes its settings from the file, whatever stores a crash let happen (`LoadedHolds`). `PluginsAreCurrent`
rests on `PluginsCurrent`: plugins of a kind without a queued reload are what its reload would take now; what that is
(`LoadFromDirectories`, `FoundIn`: the files of the kind in the directories searched, the first of each id for transports)
is proved for all lists of directories and files.

**Only model-checked.** Liveness (`EveryJobEnds`, `EveryChangeIsShown`, `ReadBufferDrains`,
`DueRequestIsMade`): liveness under fairness and `ENABLED` are beyond this prover. For `ReadBufferDrains` and
`EveryChangeIsShown` the safety half is proved (`ReadsAreServed`, `RefreshScheduled`).

## 6. Where the code and its documentation disagree

| Run | What happens |
|---|---|
| `file_send_plugin` | A comment (`src/core/AppController.cpp` 888-890) says that a queued connection keeps plugin sends from interleaving with an active file. The event is delivered at the next turn of the loop, which is between two packets of the file. Calls never nest, but packets of a file are not contiguous on the wire. |
| `recording_filed` | `reloadTransportPlugins` recomputes the lock from what is open, so a TCP attempt loses its lock; another transport opens; when TCP then connects it is not active, no session starts, and its bytes go to the other transport's files. The README promises a session for the next connection. |
| `recording_once` | A plugin transport is registered again after every reload and `attachTransport` connects again without disconnecting: each frame is handled, forwarded and recorded once per registration. |
| `position_dates` | `recordDeviationSample` compares the message's own time, which for GGA and GLL carries the host's date, not the merged time that is shown. If host and receiver disagree about the date (wrong clock, replayed log, seconds around midnight), GGA and RMC of one epoch are two points; the test that says "exactly one" uses the host's date. |

## 7. Not modelled, and why

- *Command buttons*: a list model whose calls change the list and rewrite the file; nothing interleaves with them.
- *List models and the deviation map's geometry*: presentation of data, sequential.
- *TEC renderer*: pixels. *Window style* and most of the QML: layout.
- *Discovery*, the list of serial ports, status texts, byte counters, decoders of file contents, number and time
  formats, the sentences of the NMEA decoder other than GSV and GSA (position sentences enter `PositionView` decoded).
- *Plugins* themselves: not in the repository. They are modelled by what `src/` asks of them; the
  partial frames that a protocol plugin may keep across sessions, and what a second `initialize()` of an
  automation plugin does, cannot be.
- *Replay* of recorded files: the repository has none.

Within the parts that are modelled:

- *A reload of the protocol plugins during a connection.* `reloadProtocolPlugins` (`core/AppController.cpp` 768-779) also
  resets the NMEA state, the dispatcher with its routes and pending bytes, and the framers. `PluginSettings` has what the
  reload takes into use; `Stream` has no such event, so `FramesReachDecoder` is about connections without one, and
  `NmeaSatellites` has it as a `StartSession` only.
- *A line cut off by a read.* Once text was taken without its line end, or with CR only because LF came in the next read,
  `cut` holds until the next connection, and `SentencesAreFound` says nothing more of this one: the LF left over begins
  the next chunk, and with a frame behind it, it can be flushed as binary together with the beginning of a sentence.
- *Text.* Lines that `looksLikeTextRun` does not take for text (too short, or beginning with digits or symbols) and
  printable bytes at the end of unframed binary data are no pieces of `Stream`.
- *The flag "active" in the list of TEC sources.* `rebuildDescriptors` computes it (`tec/TecMapOverlayModel.cpp` 592)
  from the id of the source selected before, as a reload calls it before `applyActiveSourceState` (530, 531);
  `listed` has the ids only, and `ShownIsSelected` and `SettledSelection` do not speak of the flag.
- *TEC plugins* answer a request at most once, with a dataset of the time that was asked for. One that first delivers a
  cached dataset and then a fresh one, or one without a valid time, is not represented.
- *Position sentences* in `PositionView` have a time if they have a fix, and an RMC that has a time has a date.

## 8. Plan

Done: `FileJobQueue`, `FileSend`, `Transports`, `Recording` on top of `Transports`, `PositionView`, `Stream`,
`NmeaSatellites`, `TecOverlay`, `PluginSettings` and `UpdateChecker` composed in `Application`, each with its proofs.
Left, in order of importance:

1. An abstract specification of `Stream` (an ordered channel per connection) with its refinement, to be checked and
   proved from `StreamInv`.
2. The invariants that make liveness plausible as theorems of their own: that `DueRequestIsMade` always has a running timer
   to rest on, as `ReadBufferDrains` has its call in the queue.
3. What a lost sentence can do at most: which satellites and marks of the last two epochs the decoder may still hold.
