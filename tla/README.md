# SensorHost: TLA+ models and proofs

SensorHost is a PyQt desktop application that receives SDF1 frames from vibration
sensors over a CDC serial port or over Wi-Fi (ESP gateways that dial in), shows and
records them, exports a device's SD archive and uploads firmware. This directory holds
TLA+ models of the parts of it that are concurrent, that follow a protocol or that keep
what the user sees true to what happens, the TLC runs that check them and TLAPS proofs that
their safety properties hold for every value of the parameters. Paths below are
relative to `src/src/sensor_host/`; `PROJECT.json` maps every definition to its lines.

Run a check with `tlc -workers 2 -config X.cfg MCModule`, the proofs with
`tlapm M.tla` for the eight modules `M` whose name ends in `Proofs`.

## 1. Inventory

Three kinds of threads exist. The **GUI thread** runs Qt handlers and timers, each
atomically. Every connection has an **acquisition thread** (`AcquisitionWorker.run`) that
reads chunks, parses them, handles frames and sends queued commands. Next to these run the
gateway's **accept thread**, one **writer thread** per recorder, and the **uploader's
thread** during an OTA attempt. They meet in queues, a few locks, and Qt's queued signals.

| Component | State | Operations | What makes it hard |
|---|---|---|---|
| Raw recording: `storage/recorder.py`, sink and deferral in `acquisition/controller.py` | byte-bounded queue, `_is_active`, `_failure`, writer thread; `_recorder`, `_defer_recording`, deferred frames | `submit`, `_writer_loop`, `stop`; `set_recorder`, `defer_recording`, `cancel_deferred_recording` | three threads, a lock released between reserving bytes and queueing them, I/O errors, a join that times out |
| OTA upload: `ota/uploader.py`, `ota/codec.py`, reply queue of the controller | frame, offset, retries; outbound and reply queues with a lazy reset | handshake, BEGIN, DATA, COMMIT, cancel | lost, repeated, damaged and late frames and replies; remains of an earlier attempt |
| Sessions: `presentation/app_controller.py`, `acquisition/sessions.py`, `transport/gateway.py` | `_sessions`, node index, listener slots, selected node | start and stop the server, accept, connect, disconnect, identify, lose a link | callbacks that arrive after what they are about is gone; two links of one device |
| Archive export: `app_controller.py` 680-760 and 1250-1400, `protocol/control_state.py` | `archive_*` fields of a session, mirror of the firmware state | start, cancel, finalise, retry, watchdog | the host acts on a mirror that lags behind the device; an export moves the data |
| OTA update session: `app_controller.py` 786-1045, `ota_dialog.py`; package format `ota/package.py` | `_ota_context`, `_ota_reconnect`, `ota_active`, `ota_awaiting_restart`, the dialog's state, the uploader's thread | choose a file, start, cancel, close, staged, failed, reconnect poll | the device resets at the end, so success and a lost link arrive together; the dialog, the session and the thread have different lives |
| Stream parser: `protocol/sdf1.py`; OTA demultiplexer: `ota/demux.py` | buffer, metrics, mode | feed, resynchronise | results must not depend on how the stream is cut into chunks |
| Sample store: `acquisition/sample_store.py` | chunks of samples, orientation | append, prune, window, envelope, clear | boundaries of the window, a point budget that must keep peaks |
| Playback: `presentation/playback_controller.py`, `playback_bar.py`, index in `storage/archive_library.py` | file, playhead, decoder, pending frames | load, play, pause, seek, stop, tick | timer against seek, damaged files, views shared with live data |
| Console: `connection_view.py`, `archive_view.py`, `main_window.py` | tables and their rows, highlighted node, open question, CANCEL button | select, ask, answer, poll, export finished | timers and lost links go on behind a modal question; ids are used again |
| Control-state parser: `protocol/control_state.py` | `FirmwareControlState` | `updated_from_cli` | replies merge field by field; an ambiguous reply must change nothing |
| UDP wake, remaining views, tools | | | see section 7 |

How they interact: an acquisition thread calls `_handle_frame` for each frame, which hands
it to the store, to the recorder attached as sink, or to the archive recorder; CLI lines go
to the mirror (`FirmwareControlState`). The GUI's timers poll the store and finalise
exports, and consume identity updates. A thread's `finished` signal is the only thing that
removes a session whose link was lost. OTA frames and replies pass through the acquisition
thread; an OTA attempt and an export each suspend status polling.

## 2. Modules

| Module | Models | Checked by |
|---|---|---|
| `Recorder` | the raw-recording path of one connection | `Recorder.cfg`, `RecorderProofs` |
| `OtaSpec` | abstract: what a firmware upload promises | as a property of `OtaUpload`, `OtaUploadProofs` |
| `OtaUpload` | uploader, controller's queues, link and simulated device | `OtaUpload.cfg`, `OtaUploadProofs` |
| `OtaPackage` | layout, packing, self-check and version of a package | through `OtaSession` |
| `OtaSession` | dialog, start gates, uploader's thread, sessions it runs over, the reset and the reconnect poll; uses `OtaPackage` | `OtaSession.cfg`, `OtaTeardown.cfg`, `OtaSessionProofs` |
| `Sessions` | listener, accept thread, connections, node index, GUI | `Sessions.cfg`, `SessionsPortLost.cfg`, `SessionsProofs` |
| `Export` | export control in the GUI, mirror, link and simulated device | `Export.cfg`, `ExportLive.cfg`, `ExportMove.cfg`, `ExportProofs` |
| `Stream` | chunked reading, OTA demultiplexer and SDF1 parser | `Stream.cfg`, `StreamProofs` |
| `SampleStore` | the sample store as operators | through `Playback` |
| `Playback` | index, decoder, control bar, shared views; uses `SampleStore` | `Playback.cfg`, `PlaybackProofs` |
| `Console` | sidebar, node controls and archive page in front of the sessions | `Console.cfg`, `ConsoleProofs` |
| `ControlState` | the parser of CLI replies as operators | through `MCExport` |
| `MC*` | instances for TLC | |
| `*Proofs` | the theorems about the module they are named after | `tlapm` |

A module's inductive invariant is stated at the end of the module itself, next to the
properties, so that TLC can evaluate it as well.

Definitions whose name ends in `Mutant` are faulty variants of the definition after them,
each a plausible slip in the code; with the variant in place the property that
`PROJECT.json` names is violated, so the property depends on what the code does there.

### Recorder
A *segment* is one `RawSessionRecorder` object, from `start` to `stop`. `lock` is the
controller's `_recorder_lock`, held for a whole `submit`; `hand` is the chunk between
`submit`'s two halves. The worker's steps are `HandleFrame*` and `WorkerPut`; the GUI's are
`StartRecorder`, `AttachRecorder`, `FlushDeferred`/`FlushPut`/`FlushDone`,
`DetachRecorder`, `StopRecorder`, `JoinWriter`, `JoinTimeout`, `CancelDeferred`; the
writer's are `WriterGet`, `WriterWrite`, `WriterCount`, `WriterFinish`, `WriterFails`.
`handled`, `offered`, `accepted` and `dropped` are history. Frames are an identity and a
size; file names, metadata fields and the fsync interval are left out.

### OtaUpload
`up` is the outbound queue together with the bytes on the wire, `down` the reply lines on
the wire, `replies` the controller's queue, `resetting` the pending drain of it that only
happens with the next received chunk, whether it holds a reply line (`ReceiveLine`) or only
frames of the live stream (`ReceiveFrames`). The device is `FakeTransport`. A byte of an image is
a pair of package and position, so that a mixture of two images differs from either.
`Faults` names which faults an instance allows: a frame or reply lost, a frame repeated, a
frame damaged (CRC error), a busy device that answers NACK OFFSET, and a slow link, on which
a timeout may overtake a reply. Without `"slow"` a read times out only if no reply is under
way. `SEQ` is left out because the uploader never compares it. `quiet` is history: it says
that nothing of an earlier attempt was under way when this one began, no frame in `up`, no
line in `down` and no READY in `replies`. `start_ota` does not wait for that: it only marks
the reply queue for a drain that happens with the next chunk.

### Sessions
A connection is numbered by when it was opened; `conn` gives its node id and its
listener. `inbox` is the GUI thread's event queue with the accept thread's envelopes and
the `finished` signals, in order. Node ids are `cdc:<port>` or `wifi-<n>`, and `n` starts
again with each listener. `Timer` consumes identity updates. `Live` is the set of node ids
with a session, `Connected` the set the index shows as connected.

### Export
`recorder` is `archive_recorder`, `since` the revision of the mirror at the start, `mirror`
the fields of `FirmwareControlState` the export logic reads. `commands` and `down` are the
two directions of the link. REFRESH asks for the status during an export too (`RequestStatus`),
which the timer's polls do not. The device follows `FakeTransport`; `DeviceAborts` is the
firmware's EXPORT_ABORTED, which the simulator never sends. `disturbed` records that an
export was closed by a cancel, by the watchdog or by a lost link. `counted` says that the
writer thread has counted bytes of the attached file, which is what the watchdog reads;
`failed` holds the files whose recorder failed, over its capacity or at the disk
(`RecorderFails`; how a recorder comes to fail is `Recorder`'s subject). A `stop` that gives
up on its writer is modelled there and not here. `mirror` has only four of the fields;
`MirrorIsParsed` in `MCExport` is the assumption, evaluated by its runs, that its step is the
one of `ControlState` for every line the device sends.

### Stream
A byte is a symbol: half of the magic, a header with type and payload length, text, a
newline, or a CRC that names the content it was computed from (so a CRC is wrong exactly
when the content differs). Magic, header and CRC have two, one and one symbols instead of
4, 24 and 4 bytes: a chunk can still end inside each of magic, header and frame. `script`
is the list of items the device sends, whole frames and lines or what the link leaves of
them: a wrong CRC, a truncated frame whose header waits for bytes of the next, a length out
of range, a header size that only the parser checks (`mismatch`), noise without a newline,
half a magic. Buffers hold positions of the input, so every byte can be followed. Each step
is one round of the `while` loop of `StreamDemultiplexer.feed` or `StreamParser.feed`; the
parser's cursor is the start of `buffer`. `Start(k)` and `Positions(k)` say where the bytes of
item `k` are. Statistics, sequence gaps and the decoding of
payloads are left out.

### OtaPackage and OtaSession
A package is a sequence of words, one per field of the manifest and per byte of the image.
`Byte` scales the widths of a version's parts, and CRC32 and SHA-256 are a polynomial hash
modulo a small prime: weak, but strong enough that one damaged word is always seen, which is
what the assumptions of `MCOtaSession` check next to the round trip of packing, the refusal
of truncated and extended packages, and that the dialog only ever builds valid ones.

In `OtaSession` a link is one TCP connection of a device; `id` is the number in its node id,
which a later listener gives out again. `inbox` is the GUI thread's event queue: accepted
clients, the two signals of a worker that lost its link, and the three endings of an upload.
`worker` is the uploader's thread, in the data phase or waiting for the answer to COMMIT;
`OtaUpload` has what it does there. `machine`, `answered` and `restarted` are the device's
side. The dialog is modal, so actions of the main window need it closed or hidden. Closing it
during an upload asks, requests a cancel and hides it (`CloseDialog`); Esc reaches
`QDialog.reject()`, which `OtaDialog` does not override, and hides it at once, while the upload
goes on uncancelled (`RejectDialog`). `disturbed` collects that Esc hid a running upload
(`"hidden"`) and what the main window then sends to the device in the middle of it: `"gated"`
for START and an export, which look at `ota_active`, `"ungated"` for console commands, CLEAR
SD, the watermark and the live target, which do not. `mirror` is the `ota_state` of each link's
`FirmwareControlState`: `"none"` while no reply has created one, `"unknown"` (`None` in the
code) once any reply was parsed and none spoke of OTA, as after AT+UUID?, and else what the
last status reply said. `IsBack` takes `"unknown"` for OFF, as `_poll_ota_reconnect` does. The
session's parts that `Sessions` models in detail (slots, duplicate devices, several listeners)
are reduced to what an update can meet. CDC sessions are left out: `start_ota_for` refuses
them.

### SampleStore and Playback
A frame has a kind, a timestamp, a peak and a health: intact, a wrong CRC, which only the
parser notices, or a damaged header, where the index ends and the parser looks for the next
frame. A vibration frame carries two samples with the time tag between them, enough for the
clock that `IisTimestampReconstructor` carries from frame to frame. Time is counted in sample
periods. A file is any sequence of frames: the export of an SD ring may span restarts of the
device, where the timestamps start again. `offset_for_time` bisects the timestamps of the index,
so that at a time they cross more than once it may end at any of the places (`OffsetsForTime`).
A frame that is not due holds up all that follow it in the file; `Played` are the frames from the
restart of decoding to the first such one, and `OneBoot` says of a file that its time never goes
back and that vibration frames leave each other the time their samples take: `DisplayIsFaithful`
promises the order of the file for every file, and the order of time and every frame up to
the playhead for those. `from` and `filled` are history. What the store
and the decoder do frame by frame (`WindowArrays`, `ApplyIis`) are recursive functions, which
TLC evaluates and the proofs can unfold. `Envelope` is translated in full, evaluated on every
curve of up to six samples and three magnitudes and proved about for all. A tick may move the
playhead by any number of units up to `MaxStep`, which stands for every speed and delay.
`view` says whose curves the vibration view shows; `paused` is the PAUSE button of the live
display, which that view obeys for playback as well.

### Console
A handler in the GUI thread with everything it emits is one step. `Rank` is the order of the
node ids as strings, in which the sidebar lists them. `row` and `libraryRow` are what
QTableWidget makes of the current row when rows disappear. `dialog` is the open question
with what it was asked about; `erased` collects the devices that an export or CLEAR SD was
started on. The export itself is `Export`'s; here it may end at any time.

### ControlState
A line is the head that selects its parser, the text behind it and the `KEY=value` items in
it; tables say which item becomes which field, and `Parse` is the loop of
`updated_from_cli` with its refusals: a section or a key that comes twice, a number that is
not decimal or too large, a flag other than 0 and 1, a text that is no UUID. `IntValue` gives
the decimal texts of an instance their numbers; how a line is cut into items is left out.
`RepliesMerge` in `MCExport` compares it with a direct definition on every reply of two
lines out of nineteen: a reply is refused as a whole exactly when it is ambiguous or cannot
be read, and otherwise each field shows the last line that reports it or keeps its value.

## 3. Runs

| Run | Instance | What it shows |
|---|---|---|
| `recorder` | 2 segments, 3 frames of 1-2 bytes, both capacities 2 bytes; 100,488 states | no accepted frame is lost, repeated or reordered; the file is a gap-free prefix of what was submitted; clean metadata means a complete file; the byte counter is exact; gaps occur only where the deferral buffer overflowed; a closed file is final; a stopped writer ends |
| `ota_upload` | 2 attempts, images of 2 and 3 bytes in up to 2 DATA frames and one that is too large, 1 retry, 3 faults of any kind; 444,758 states | on a link that was quiet at the start, progress is durable and losses up to the number of retries never fail BEGIN or DATA; every attempt ends; `OtaSpec` is implemented: staged means the whole image of this attempt |
| `ota_session` | 2 devices, 2 links, 1 upload, images of 2 or 3 words; 825,331 states | the final reset is silent; no recording, START or export meets an upload, and anything else only one that was cancelled or that Esc has hidden; RECONNECTED follows a staged upload and is about its device, restarted or not in the two cases named; the dialog learns how the upload ended |
| `ota_teardown` | the same | **violation**, finding 1 |
| `sessions` | 1 port, 2 devices, 2 listeners of 2 slots, 3 connections; 548,830 states | index, sessions, slots, transports and selection agree; a device is online once; CDC is exclusive; no healthy session is dropped; dead sessions are cleared and identified links bound or dropped |
| `sessions_port` | | **violation**, finding 2 |
| `stream` | 432 streams of 3 items, chunks of 1-3 bytes, lines of 3 bytes, 2 OTA sessions; 1,885,365 states | no byte is lost or reordered on the way to the parser; the intact frames are decoded, each once, whatever the chunks and the noise; replies are separated; what is held is bounded |
| `export` | 2 frames, 1 automatic retry, 3 files, 1 lost reply or failed recorder, not together with a disturbance; 1,648,838 states | a file marked complete is the whole archive; a moved archive is saved or on its way; a closed export is over |
| `export_live` | 2 files; 203,137 states | a cancel is confirmed and a stall detected, with the exceptions named |
| `export_move` | | **violation**, finding 3 |
| `playback` | 10 files of up to 5 frames beside a whole one, windows of 1 and 3, 4 operations; 13,809 states | what is displayed is the file up to the first frame that is not due, and for a file of one boot the record up to the playhead; live and recorded curves never mix; playback ends |
| `console` | 2 devices, 3 nodes per listener, 5 operations; 1,124,018 states | the highlighted node is the target; only what was confirmed is done; CANCEL follows the exports |

**Why the bounds are enough.** `Recorder`: with capacity 2 and sizes 1 and 2 both buffers can
be full, exactly full and refuse a large frame but take a later small one; three frames put one
in the file, one in the writer's hand and one queued; two segments show one recording closing
while the next starts. `OtaUpload`: three bytes in chunks of two give a full and a partial DATA
frame, two attempts let one meet the leftovers of the other, three faults let a fault hit a
recovery and its repetition. `Sessions`: three connections suffice for two links of one device
plus a successor, two listeners for a late client of a stopped one and for the reuse of
`wifi-1`. `Stream`: two arbitrary items before a frame or a reply are every kind of disturbance
followed by another, and chunks of one to three bytes cut every item at every place. `Export`:
two frames make partial exports, three files an abort, its retry and a next export. The
constraint `OneTrouble` of `Export.cfg` cuts behaviours with a fault next to a cancel, a
timeout or a lost link: the safety properties are about sessions without the latter, and
`disturbed` never becomes false again, so that no state they say anything about is cut;
`ExportLive.cfg` has both. `MaxQueue` bounds what may be under way when the user issues another
command; it does not bound what the device sends. `OtaSession`: with two links the updated
device comes back on a new one or another device takes its place; one upload is enough because
`MaxUploads` only bounds attempts after the controller has cleared all its OTA state.
`Playback`: each file is there for one oddity (a gap, equal timestamps, a damaged CRC or
header, an attitude frame at the end, no vibration at all, and three restarts of the device:
the second boot later, earlier and between), and four operations are load, a seek, a change and
another seek. `Console`: the three ids sort like `wifi-9`, `wifi-10` and `wifi-11`, so that the
order in the list is not the order of arrival, and five operations select, ask, and answer
twice.

Deadlock is not checked: bounded frames, attempts and connections run out, and an idle
application may stay idle.

**Fairness.** `Recorder`: a started writer thread runs, a thread inside `submit` or
`set_recorder` finishes it, and a GUI that has detached a recorder goes on to stop and join
it (these are consecutive statements). That the worker receives frames, or that the user
acts, is not assumed, nor that a write fails. `OtaUpload`: the uploader's thread, the
acquisition thread, the device and Qt's queued signals make progress; a read returns a line
or its timeout. `Sessions`: the event loop and the timer run, and a thread whose transport
is closed ends. `Export`: timers fire, the worker reads, the device executes commands.
`OtaSession`: the event loop delivers, the reconnect timer reaches its deadline and the
uploader's bounded retries end. `Playback`: the 33 ms timer runs while a file is played.
`Console`: the archive page's poll timer runs. All
are weak fairness; no fault is ever forced to happen or to stop, beyond its bound.

## 4. Findings

1. **A thread deleted while it runs** (`ota_teardown`). `disconnect_device` cancels the
   upload and `_teardown_ota_worker` waits three seconds for its thread, without looking at
   the outcome, and deletes it. The uploader sees the cancel only before it sends; in the
   COMMIT exchange it waits thirty seconds for the reply. Destroying a running `QThread`
   ends the process. The docstring of `disconnect_device` promises the opposite.
2. **A lost CDC port** (`sessions_port`). Its node stays in the index as offline;
   `remove_offline_node` refuses CDC nodes, and `add_session` refuses the known id, so the
   port cannot be opened again before a restart, although the design asks for a
   reconnection.
3. **A stalled export** (`export_move`). The watchdog detaches the recorder and tells the
   device nothing. If the first frame was only late, the device sends the archive to
   nobody and then empties its ring.

Met while modelling, listed as hazards or excluded by name in a property, and not findings:

- Upload: a frame retransmitted after a timeout is acknowledged twice if the first ACK was
  only late, and the second ACK fails the next frame. A STAGED line that is lost, or a cancel
  during COMMIT, reports an upload as failed that the device installs.
- Upload: leftovers of earlier attempts can fail one without any fault on the link. A
  cancelled upload leaves the ACK of its CANCEL, which fails the next handshake; that attempt
  leaves its READY and OK, which the third takes for its own, so that it reads its real READY
  as the answer to BEGIN. With replies that come late over four attempts and no retries, a
  stale ACK is taken for a frame that the device has not got. Both are why `LossTolerated`
  and `ProgressIsDurable` are about attempts on a link that was `quiet` when they began.
- Upload behind a hidden dialog: the dialog asks and cancels in `closeEvent`, which Esc does not
  reach. The upload goes on, and console commands, CLEAR SD, the watermark and the live target
  go to the device between its frames. `UploadIsExclusive` names this case (`"hidden"`).
- RECONNECTED without a restart: the reconnect poll takes an `ota_state` of `None` for OFF, which
  is what the first reply on a new link leaves, so that a device that has staged the image, dropped
  its link and not reset yet is reported; so is one that is seen on the link of the upload,
  whose `ota_state` is the one of before. `ReconnectIsGenuine` names both.
- Demultiplexer: if `start_ota` comes between two chunks of a CLI response, the parser keeps the
  head and the demultiplexer splits the tail at its newlines, so that an `OK` in it is taken for a
  reply. `RepliesSeparated` is about sessions that begin between two items.
- Update session: a start that `start_ota_for` refuses, or a disconnect, leaves the dialog with
  an upload that is not there. A package whose name does not end in `.ota` is refused by the dialog,
  although comments there and in `package.py` say the suffix does not matter.
- Export: an export whose recorder failed is still reported COMPLETE; one that the device
  aborts before the first frame while the user's cancel is under way is started again by the
  automatic retry; a cancel can be confirmed by the idle state of the time before the export;
  an acquisition started right after a cancel keeps it from being confirmed; a terminal phase
  left in the mirror keeps the watchdog silent.
- Recording: a hole left by the deferral buffer is not reported in the metadata.
- Archives of several boots: the SD ring survives a restart of the device, its timestamps do not.
  Playback applies the frames in the order of the file, so that the times it shows go back where
  the manual speaks of time order, and a frame that is not due holds up what follows it.
  `DisplayIsFaithful` promises time order for a file of one boot.
- End of playback: the playhead ends at the last vibration frame of the index; an intact frame later
  than that, such as an attitude frame at the end of the file, stays pending and playback never
  pauses by itself, as the manual says it does. `PlaybackEnds` excludes such files.
- Playback: a paused live display freezes the curves of a playback while its attitude goes on.
- Live target (read, not modelled): any report equal to the pending target ends its grace
  period, also one from before the choice; after CDC and at once UART again, the answer to
  the first command may turn the selector to CDC until the second is answered.
- Server: a wake service started before the accept thread failed is not stopped when the
  server is started again.

## 5. Proofs

The theorems hold for every value of the constants that the `ASSUME` of the component's
module admits (`RecorderAssumption`, `SessionsAssumption`, ...), and nothing else is assumed:
the assumptions give bounds and sizes their types and keep `None` apart from real values. An
archive, a package or a stream is any sequence of its items.
Each invariant is a conjunction of parts that TLC checked before it was proved; a
preservation proof has a lemma for each action, or for each part and action where the parts
differ much.

| Module | Theorem | Property |
|---|---|---|
| `RecorderProofs` | `TypeCorrect`, `InductiveInvariant` | `TypeOK`, `IInv` |
| | `AcceptedFramesKept`, `FilePrefix`, `CleanSummaryComplete` | `NoAcceptedFrameLost`, `FileIsPrefixOfOffered`, `CleanSummaryIsComplete` |
| | `GapsExplained`, `BytesAccounted` | `GapsAreDeferralOverflows`, `ByteAccounting` |
| | `ClosedFilesFinal` | `ClosedFileIsFinal` (of a step) |
| `SessionsProofs` | `TypeCorrect`, `InventoryIsExact`, `LinksExclusive`, `NothingLeaks` | `TypeOK`, `IndexMatchesSessions`, `LinksAreExclusive`, `ResourcesAreOwned` |
| | `HealthySessionsKept` | `HealthySessionsStay` (of a step) |
| `ExportProofs` | `Inductive`, `TypeCorrect`, `CompleteFilesAreWhole`, `ArchiveIsNeverLost`, `ClosedIsOver` | `IInv`, `TypeOK`, `CompleteExportIsWhole`, `UndisturbedMove`, `ClosedExportIsOver` |
| `OtaSessionProofs` | `Inductive`, `TypeCorrect`, `ResetIsExpected`, `UploadHasTheDevice` | `IInv`, `TypeOK`, `ExpectedResetIsSilent`, `UploadIsExclusive` |
| | `ReportedDeviceIsBack` | `ReconnectIsGenuine` (of a step) |
| `OtaUploadProofs` | `Inductive`, `TypeCorrect`, `ProgressDurable`, `LossesTolerated` | `IInv`, `TypeOK`, `ProgressIsDurable`, `LossTolerated` |
| | `Refinement` | `ImplementsOtaSpec` while every attempt begins quiet |
| `StreamProofs` | `Inductive`, `TypeCorrect`, `NoByteLost` | `IInv`, `TypeOK`, `BytesConserved` |
| | `FramesIntact`, `RepliesApart` | `IntactFramesDecoded`, `RepliesSeparated` |
| `PlaybackProofs` | `ViewsSeparated`, `DisplayFaithful` | `ViewsNeverMix`, `DisplayIsFaithful` |
| | `PeaksKept` | `KeepsPeaks` of every sequence of samples |
| `ConsoleProofs` | `HighlightFollowsTarget` | `HighlightIsTarget` |
| | `AnswersReachTheirSubject` | `OnlyConfirmed` (of a step) |

**Recorder.** That a clean summary means a complete file depends on there being nothing
behind the sentinel, which depends on the GUI having detached the recorder before it stops
it, which depends on the lock not being held by a worker with a chunk in hand. `IInv` says
this in parts: who holds the lock and why (`LockInv`), that the sink is the session's
recorder or none (`SinkInv`), that an unused recorder is untouched (`FreshInv`), that one
sentinel is queued and is last (`SentinelInv`), where accepted frames are (`PipeInv`), which
submitted frames were accepted (`OfferInv`), and that saved metadata belongs to a recorder
nobody uses (`SummaryInv`). Typing alone needs `ChunkInv`: what the writer holds is a frame
and not the sentinel. `GapsExplained` adds `GapInv`: what a recorder got last, or what is
deferred, reaches up to the frame the worker handled last, but for refused ones; `set_recorder`
keeps the lock until the deferred frames are submitted, and that is where it is needed.
`BytesAccounted` adds `AccountInv`: reserved and counted bytes together are those of the
accepted frames. Sums are a recursive function over the length of a sequence, and the facts
about them (the sum of a sequence with one more frame, of two sequences) are proved by
the least counterexample: the set of lengths that violate the fact has a smallest member,
because subsets of a finite set are well-founded.

**Sessions.** What makes the late callbacks harmless is the identity of a connection:
a client's number is its own within its listener (`ConnInv`), a thread ends before its
transport is given up (`ThreadInv`), a client is announced once and before its thread
starts, a `finished` follows the end of its thread (`InboxInv`), and a session's connection
has the session's id and the present listener (`SessionInv`). From these the index, the
slots and the exclusiveness of CDC follow over every action.

**Export.** The archive of the running export is divided between the file and the items
on the way, in order (`Moving`): each frame moves the border by one. Around it: the command
that starts an export is alone and nothing of its export has happened (`PendingInv`), the
device runs the recorder's export and its end is not under way (`RunningInv`), what is under
way belongs to that export and its end comes last (`DownInv`), a mirror that shows the end
shows it after everything else has arrived (`OverInv`). All but types holds until a cancel,
the watchdog or a lost link closes an export (`disturbed`); finding 3 is what happens then.

**OtaSession.** The order of the GUI's event queue carries the argument. `QueueInv`: the
session of a dead link finishes before the next link of its device is accepted; `LastInv`:
the last signal of a thread is that of the last upload, and no session exists before it is
handled if `disconnect_device` has torn the thread down already. Then there is one owner of
the update (`OwnerInv`), the session a running upload has is active and no other is, so that
the gates hold with the dialog open or hidden (`ActiveInv`), the dialog shows that upload unless
it was cancelled or Esc has hidden it (`HiddenInv`), a staged link's session expects the
reset or will when the signal is handled (`SilentInv`), a device whose upload was staged has
restarted or is still to do so (`RestartInv`), and a new link of it has OFF in its mirror only
after the restart (`MirrorInv`): a reply is met by a session, and while the upload ran the device
had no session but the one of the upload (`LinkInv`). That RECONNECTED always implies the
restart is false (section 4).

**OtaUpload.** `HostInv` says where in the protocol the uploader is. For an attempt that
began on a quiet link, `SentInv` says that the frames under way are this attempt's and HELLO
comes first, `AnswerInv` that after its own READY every line answers one of its own frames,
so that an ACK never promises more than the device holds. `Drained` says that leftover lines in
the reply queue are gone or will be with the next chunk, before a line of this attempt is
read. `LossInv` is stop-and-wait: while
nothing but losses happens there is one frame or its answer under way, and there were at most
as many repetitions as losses. The refinement maps each step under `[]quiet` to a step of
`OtaSpec` or a stutter; it covers any number of attempts and every kind of fault, and the run
covers two attempts without the condition.

**Stream.** A byte is a position of the input. `ByteInv`: the positions that went to the
parser, or are about to, are sorted, and together with those claimed by replies and
those dropped by a reset they are exactly what was read, each in one place. Only sortedness
of *any* two positions survives that a line is cut out of the middle; the property's "each
next one is larger" does not. `HoldInv` bounds what is left when a scan ends, which needs
that every scan that cannot go on has found less than a frame or a line.

`FramesIntact` adds `FrameInv`. That an intact frame is not missed cannot be shown of the frame
alone, because what lies before it in the buffer decides where the parser looks next: the
invariant is that once the first byte of a frame was fed, with no byte of it taken away
by the demultiplexer so far, that byte is in the buffer until the frame is decoded. Each
branch of `StreamParser.feed` keeps it: the search for the magic stops at or before the next
frame's, a length that is out of range or a wrong CRC moves on by one byte, and a frame that is
complete with a right CRC is one that was sent, since its CRC names its content. The other half
is that decoded frames lie before everything still held, which gives their order and that none
is decoded twice. `RepliesApart` adds `ReplyInv`: on a clean link whose sessions begin between
two items the demultiplexer is always at the start of an item (`HoldsFrom`), so that the magic
it finds is a frame's and the newline it finds is a reply's. Both rest on where item `k` starts
(`Start`), the sum of the lengths before it, whose facts are proved by the least
counterexample.

**Playback.** `ViewInv`: only an active playback runs, and it has a file. `DisplayFaithful` adds
`DisplayInv`. `Decoding` relates the decoder to the playhead: it began at a frame the index
gives for `from`, everything it applied is due, and once the store was filled it stands before a
frame that is not due or at the end, so that what it applied is what is `Played`
(`PlayedIsApplied`). `Stored` relates the store to the decoder: the chunks are in the order of
the file (`Chained`), each is that of an applied vibration frame, and each applied frame
that is within the retention of all applied after it has one. Neither needs times that never go
back. The property itself is not inductive: it speaks of
the window, and the window may be widened after older samples were pruned; only the retention,
which no window exceeds, bounds what was lost. One `_fill_until` applies any number of frames, so
within a step there is an induction over them (`StoreGrows`, `FillStores`), and another one over
the chunks that `_window_arrays_locked` joins (`WindowGrows`, `WindowFacts`). For a file of one
boot the clocks of the reconstructor ascend (`OneBootAscends`, `SampleTimes`), so that the order
of the file is that of time (`PlacesInTime`), no frame passed lies before the one where
decoding restarted, and none behind one that is not due (`PassedIsApplied`).
`PeaksKept` is about `envelope_indices` alone: the buckets cover the interior, so the strongest
interior sample is the strongest of its bucket and a candidate, and among the candidates none is
stronger, so that the budget keeps one as strong.

**Console.** `IInv`: sessions, index and sidebar agree on what is online, ids are given out in
order, and the node of an open question still belongs to the device it was asked about.

## 6. Only model-checked

- The properties of the three violation runs: what a document or a comment says and the code does
  not do.
- Liveness (`StopDrains`, `UploadEnds`, `UploadIsReported`, `SessionsSettle`, `CancelEnds`,
  `StallIsDetected`, `PlaybackEnds`, `CancelSettles`): fairness is out of the prover's reach.
- `ImplementsOtaSpec` when an attempt meets the leftovers of another: for two attempts. The
  invariant of the proof needs a quiet link, and with enough attempts its parts
  `ProgressIsDurable` and `LossTolerated` are false without one (section 4).
- What `ControlState` and `OtaPackage` compute for every input: folds over a sequence, evaluated
  by the assumptions of the MC modules on bounded inputs.

## 7. Not modelled

- An export that is started by typing `AT+EXPORT` in the console (`app_controller.py` 539-541):
  it takes the path of the button without its preconditions.
- Layout and painting of the views, texts, progress bars; the orientation view, diagnostics,
  theme and the console's transcript.
- The selector of the live target and its grace timer, aliases and their drafts: single
  widgets that no other part reads.
- CDC enumeration and writing: calls of pyserial. `_attempt_ota_cdc_reopen` cannot be
  reached, because an update over CDC is refused at the start.
- UDP wake service: a timer that sends a datagram and shares no state.
- Parser statistics and sequence gaps: counters that are only displayed.
- `shutdown` as a whole: the application ends; its parts are the stop actions.
- Acceptance tools and the builder of the user guide: scripts outside the application.

## 8. Plan

1. Done: all modules of section 2 with their runs; the theorems of section 5, which state
   every safety property of the passing runs.
2. Next: exports started from the console, in `Export`.
3. Sequence gaps and the 32-bit wrap of the sequence number in `Stream`.
4. The live target selector with its grace period, over `ControlState`.
