# Ingex in TLA+

Ingex is a suite for tapeless recording in a television studio. A capture
daemon digitises SDI inputs into rings of frames in shared memory; recorder
processes encode frames from the rings into MXF files; transfer servers copy
the files away while nobody records; GUIs command the recorders over CORBA.
The same repository holds a video player and a second application that
transfers tapes to an archive.

This directory models the parts whose correctness depends on the order in which
threads and processes do things. `PROJECT.json` says for every definition which
lines of the source it stands for.

## 1. Inventory

| Part (source) | State | Operations | Interacts with |
|---|---|---|---|
| **Capture daemon, channel thread** (`src/studio/capture/dvs_sdi.cpp`, `src/common/nexus_control.h`) | ring elements (frame number, timecodes, signal flag, picture, sound), `lastframe`, `hwdrop`; locals: recovery flag, dummy frame tick | `write_picture`, `wait_for_good_signal`, `write_dummy_frames`, `sdi_monitor` | card and fifo (DMA), shared memory read by recorders and by nexus tools, master timecode |
| **Capture daemon, the rest** | `master_tc`, `master_tod`, heartbeat, audio and VITC threads | `derive_timecode_from_master`, `heartbeat_thread` | channel threads, recorders (heartbeat) |
| **IngexShm** (`ace-tao/common/IngexShm.cpp`) | attached segments, `NexusRecordInfo` slot | `Init`, `Attach`, `InfoSetup`, reader functions | capture daemon, nexus tools |
| **Record thread** (`ace-tao/Recorder/recorder_functions.cpp`, `EncodeFrameBuffer.cpp`) | `lastcoded`, `frames_to_save`, `encode_frame_buffer`, counts of frames written and dropped | `start_record_thread` | shared memory, MtEncoder, IngexRecorder (target duration), files |
| **MtEncoder** (`ace-tao/common/MtEncoder.cpp`) | message queue, `mShutdown`, threads | `Encode`, `svc`, `Close` | record thread, `EncodeFrameTrack`, shared memory |
| **Recorder** (`IngexRecorder.cpp`, `IngexRecorderImpl.cpp`, `manage_record_thread`) | current `IngexRecorder`, its record threads, target duration, `mRecording`, chunking | CORBA `Start`, `Stop`, `RecordingStatus`; the completion callback; next chunk | GUI, record threads, CopyManager, database |
| **CopyManager** (`ace-tao/common/CopyManager.cpp`) | mode, recording index | `StartCopying`, `StopCopying` | recorder, transfer server |
| **Transfer server** (`processing/media_transfer/xferserver.pl`, `cpfs.c`) | shared hash (limit, pid, directory pairs, `staleFrom`), `%events`, `PATHS_FILE`, pipe, cpfs and its signals | `serveClient`, `addPair`, `SaveConfig`, `childLoop`, `ScanDir`; a cpfs per file | recorders, router recorders, players, discs |
| **StatusDistributor, RecorderManager, clients** | object references | add and remove clients, send status | CORBA, Ingexgui |
| **Ingexgui** | a controller thread per recorder, its command and its timers | connect, start, stop, poll | recorders |
| **routerlog** | router state, timecode reader | log of cuts | serial router |
| **Common library** | none | timecode arithmetic, pixel conversion | everything |
| **Media processing, database, web** | files, SQL tables | import, AAF export, copying | PostgreSQL |
| **ingex_player, the buffers** (`src/player/ingex_player/buffered_media_source.c`, `buffered_media_sink.c`, `media_player.c`) | slots of the source, `lastPosition`, `eofPosition`, `clientPosition`; ring, swap frame and counts of the sink; player state | `bmsrc_seek`, `bmsrc_read_frame`, `bms_accept_stream_frame`, `bms_complete_frame`, close, the two read threads | the player's thread, the user, a file, a display |
| **ingex_player, the rest** | sources, sinks, connection matrix, marks, display | decode, draw | files, shared memory, X11 or SDI |
| **Archive recorder, capture** (`src/archive/src/capture/capture.cpp`, `recorder/RecordingSession.cpp`, `Recorder.cpp`) | ring, `g_last_frame_captured`, `g_last_frame_written`, `g_record_start`, `g_record_stop_frame`, statuses, browse slots, session state | `start_record`, `stop_record`, `abort_record`, four threads, the session's loop | card, archive file, browse encoder, VTRs |
| **Archive recorder, the rest** | cache, VTR state, database | review, store to LTO | VTR, tapes, database |
| **libMXF, libMXF++, YUVlib, MediaHarmony** | files | format code | everything that writes MXF |

Hard behaviours, and what must hold:

* The ring has one writer and many readers without a lock: only `lastframe` is
  under a mutex. What a reader may rely on is the *order of the stores*. A
  published frame must be complete, and must be left alone while readable.
* The writer can be late (the fifo overruns), fail half-way (a DMA transfer),
  lose its signal (dummy frames are made, several at a time) and recover (frame
  numbers jump). Gaps must be visible to readers.
* The record thread takes frames *without copying them* and encodes them in
  other threads, so the daemon may overwrite a frame that is being encoded. The
  frame number in the element is the only protection. Frames are encoded out of
  order and written in order; each must be written or counted as dropped once.
* A recording must come to its end when the target duration is reached or the
  daemon dies, and encoder threads blocked on their queue must be released.
* `Stop`, the completion callback, and the start of a next chunk run in
  different threads over one `IngexRecorder` and one target duration.
* Copying is slowed down and sped up by messages without acknowledgement, from
  several clients to one server, which passes them on as signals to a program
  that may not have installed its handlers. Server, clients and connections fail
  independently.
* The transfer server keeps one time for each directory: all that is older has
  been copied. It reads directories while files arrive in them, in whole
  seconds, is interrupted, fails, retries and restarts, and may delete what it
  believes to be copied. Nothing must be lost.
* The archive recorder's threads share plain variables, each under a lock of
  its own or none. A recording that is kept must hold every frame between start
  and stop, whole, whenever the card, the disc or the VTR fails.
* The player's three threads wait for each other across two bounded buffers,
  with seeks, ends of file, time-outs and a close at any moment.

The list `hazards` of `PROJECT.json` has each of these at its line.

## 2. Modules

```
FrameRing  <-- implemented by -- NexusRing        (NexusRingImpl: the mapping)
    ^
    | EXTENDS
RecordThread
    ^
    | what a record thread is, as a count of frames
RecorderControl
    ^
    | what a recorder is, as its messages
TransferServer

FrameQueue <-- implemented by -- PlayerBuffers    (the mapping is in the module)

ArchiveCapture
```

| Module | Models | Written for |
|---|---|---|
| `NexusRing` | the capture thread of a channel and everything it touches, store by store | runs and proofs |
| `FrameRing` | what a reader of the shared memory sees of that thread | abstract specification |
| `NexusRingImpl` | the refinement mapping from the first to the second | run `ring`, proofs |
| `RecordThread` | a record thread, the frames it holds, its MtEncoder and the ring it reads | runs and proofs |
| `RecorderControl` | Start and Stop, record threads, manage threads, chunks, traffic control | runs and proofs |
| `TransferServer` | the transfer server's processes, its clients, their connections, the discs | runs and proofs |
| `ArchiveCapture` | the threads of the archive recorder's capture, and its session | runs and proofs |
| `PlayerBuffers` | the player between its buffered source and its buffered sink | runs and proofs |
| `FrameQueue` | what the buffered sink promises | abstract specification |
| `NexusRing_proofs`, `NexusRingImpl_proofs`, `RecordThread_proofs`, `RecorderControl_proofs`, `TransferServer_proofs`, `ArchiveCapture_proofs`, `PlayerBuffers_proofs` | the proofs about the module of that name | tlapm |
| `RingPlaces` | lemmas about places in a ring: indices less than a ring apart are in different ones | `NexusRing_proofs`, `ArchiveCapture_proofs`, `PlayerBuffers_proofs` |
| `MCRecordThread`, `MCRecorderControl`, `MCTransferServer` | instances for TLC: symmetry sets, sets of options, directories | |

In the modules a definition whose comment begins with "Mistake:" is not used by
the specification: it is what a plausible error would make of the definition
after it, and PROJECT.json names the property that notices.

### NexusRing: the capture thread

`cpc` is where the thread is in `sdi_monitor()`. One action per stretch of code
between two stores that a reader may tell apart:

| Action | Code in `dvs_sdi.cpp` |
|---|---|
| `Tick`, `Picture` | the input and the card: a frame period passes, a picture enters the fifo or is dropped, the signal goes or comes |
| `GetBuffer` | `sv_fifo_getbuffer()`, then `frame_number = 0` in the element to be used |
| `BeginWrite`, `FillWrite` | `sv_fifo_putbuffer()` (which may fail) and the conversion into the element |
| `Recover` | the first good picture after a loss: `lastframe` moves over the frames that are missing |
| `StampFrame` | timecodes, `signal_ok` and, last, the frame number |
| `Publish` | `hwdrop` and `lastframe`, under the mutex |
| `LoseSignal`, `PollSignal`, `SignalRestored` | the loop of `wait_for_good_signal()` |
| `DummyStamp`, `DummyBegin`, `DummyFill`, `DummyPublish` | `write_dummy_frames()`, one frame of a batch at a time; here the number is stored *first* |

A picture is the frame period in which it was captured, and the timecode is the
same number; so "the wrong picture" and "the wrong timecode" are visible and
pixels are not. `owner`, `unready` and `lost` are history variables: for which
frame an element was last filled, which frames were published without their
picture for a reason the code knows of, and when the signal was found lost.

### FrameRing: what readers may assume

A reader cannot see the card, the clock or the signal. It sees elements being
cleared, overwritten, filled, numbered and published. `stage` is that progress,
and the two ways through it (pictures and dummy frames) store the number last
and first. `NexusRingImpl` maps `stage` from `cpc` and `data` from `owner`.

### RecordThread: from the ring to the file

It EXTENDS `FrameRing`, so the capture daemon overwrites elements between any
two steps of the recorder. `rpc` is where the record thread is in the loop of
`start_record_thread()`:

* `Begin`: the start frame `CheckStartTimecode()` chose, in the ring or
  predicted ahead of it. It may be frame 0, the daemon's first, and before
  anything is published the search starts at 0 too, because `LastFrame()` makes
  0 of -1. A search that goes below frame 0 reads outside the ring and is left
  out;
* `Plan`, `HeartbeatLost`: wait, look at the heartbeat, compute
  `frames_to_code` and drop what exceeds the allowed backlog;
* `Take`: queue the next frame of the batch, keeping the address and the number
  found in the element (and a copy in `tc_overlay_buffer` if the timecode is
  burnt in);
* `Submit`, `BeginEncode`, `EndEncode`, `MarkCoded`: hand it to the MtEncoder,
  or encode it here, or not at all (`ENCODER_UNC`);
* `Save`, `SaveNoMore`: write coded frames from the front of `frames_to_save`
  until one is not coded, or the target is reached;
* `Close`, `Finish`: hang-up messages and the wait for the MtEncoder's threads.

A thread of the MtEncoder (`worker`) takes a message (`GetFrame`), checks the
frame number, encodes (`EncodeFrame`), checks again and delivers (`Deliver`), or
marks the frame as coded (`Miss`) and then as in error (`MarkError`). `track` is
`EncodeFrameTrack` by frame. `wrong` and `mistaken` are history: the frames that
were written as good but were not, and whether a frame was taken from an element
that had already been given to another.

### RecorderControl: start, stop, chunks

`orb` is the ORB thread's place in `Start()` or `Stop()`; a step is a stretch of
code between two accesses to what other threads write. `rec[i]` is the i-th
`IngexRecorder` (`mChunking`, `mTargetDuration`, `mStartTimecode`,
`mRecordingOK`, and whether it is deleted), `thread[i][c]` its record threads
reduced to frames written and dropped, `manage[i]` its manage thread in
`manage_record_thread()`, `recording_completed()` and `NotifyCompletion()`.
`current` is `mpIngexRecorder`, `args` says if `mArgs` is empty, and `events`
is `%events` of `xferserver.pl` for this recorder.

`Unchunk`, `Measure`, `SetTarget`, `Forget` are `Stop()` (and `DoStop()`, which
`Start()` calls when a recording is going on); `NewRecorder`, `ClearSrcDest`,
`AddSrcDest`, `StopCopying`, `Spawn`, `SetStatus` or `Discard`, `Release` are
`Start()`. `Join`, `Decide`, `Out`, `Extend`, `Locate`, `Setup`, `Respawn`
restart a recorder for its next chunk; `Compare`, `ClearCurrent`, `Another`,
`ClearStatus`, `StartCopying`, `Delete` complete it. When the recorder that
`Stop()` works on has been deleted, `Stop()` goes on as if it were there: what
really happens is undefined.

### TransferServer: the server, its clients and the discs

| Part | State | Actions |
|---|---|---|
| recorders (`CopyManager`) | `client`: running, index, what it records | `Begin`, `Finish`, `RecorderCrash`, `RecorderRestart` |
| players of the GUI (`Player::TrafficControl`) | `player`: playing, what was sent, is a socket being opened | `Play`, `SocketOpened`, `SocketFails`, `Quit`, `PlayerCrash` |
| connections | `net`, in the order in which they will be accepted | `Send`, which may fail without anybody's knowing |
| parent (`serveClient`) | `events`, `limit`, `pair`, `staleFrom`, `saved`, `saving`, `kicks` | `ServeStart`, `ServeEnd`, `FinishSave`, `Crash`, `Restart` |
| child (`childLoop`, `ScanDir`) | `child`, `scan`, `work`, `list` | `Kicked`, `TimesOut`, `Retries`, `NextPriority`, `ScanBegins`, `ScanReads`, `ScanFails`, `PairScanned`, `AllScanned`, `StopsCopying`, `Pick`, `NotePid`, `FirstOutput`, `OutputEnds`, `CopyFails`, `Moves`, `Copied` |
| cpfs | `cp`: handlers installed or not, a signal pending, slow or fast | `ComesAlive`, `Updates`, `Exits` |
| discs | `ctime`, `disk`, `dest` | `Arrive`, `Collect` |

A step is a stretch of code under the lock of the shared hash, or between two
such. The clock counts seconds, which is what `ctime` has. A pair of directories
is a source with its priority; files are in its main directory or in "xml".
`copied`, `torn`, `missed`, `orphans`, `known` and `raced` are history, by which
the properties name what they leave out (section 3).

### ArchiveCapture: four threads and a session

`cap` is the place of `capture_video_thread()`, `store` of
`store_video_thread()`, `browse` of `store_browse_thread()` (the thread that
encodes is the one action `Encodes`), `session` of the recording session's
thread, with the state of the session. A frame is its index and the run of the
card in which it was captured; a slot that the card or an action may be writing
is `Torn`. The listener's calls (`SdiStatusChanged`, `Alarm`) are part of the
step of the capture or store thread that makes them. A locked variable is read
or written in a step, and what is read and used later (`last_captured()` and
`last_written()` at the top of the store thread's loop) is kept in `store`.

### PlayerBuffers and FrameQueue

`reader` is the read thread of the buffered source, `player` the player's
thread, whose places are those of its loop, of `bmsrc_seek()` and of
`bmsrc_read_frame()`, and `shower` the sink's read thread. A frame is its
position in the source; a slot has the position it is labelled with (`frames`)
and the one whose picture it holds (`data`), so that a mistaken label is
visible. A condition variable is the place of the thread that waits at it. The
sink keeps its frames in `buffers` and their order in `ring`, as the code does,
and the operators `Waiting` and `Showing` map this to the queue of
`FrameQueue`: frames go in at one end, at most one is being shown, and only a
lossy queue that is full drops its oldest.

## 3. What the runs show

| Run | Asks | Result |
|---|---|---|
| `ring` | are published frames complete, left alone and counted; does the thread implement `FrameRing`? | holds |
| `record` | is each frame written or dropped once, held by one party, and its own picture? | holds |
| `record_end` | does every recording come to its end? | holds if the start frame is in the ring |
| `control` | are recorders deleted only after their threads, and transfers held off exactly as long? | holds |
| `control_end` | is Stop() honoured, do chunks abut, does it complete? | holds but for a Stop() during the change of chunks |
| `transfer` | can a source file be deleted, or taken for copied, that was not? Does the child sleep over work? | no, but for torn directories |
| `traffic` | are the discs spared while they are used, and only then? Is the limit released, is everything copied in the end, is what was copied remembered? | holds |
| `transfer_lost` | the same as `transfer`, with torn directories | violated: a file that arrives in the main directory while "xml" is read is taken for copied |
| `archive` | are kept recordings whole and without a gap, failed ones aborted; do stop and abort return? | holds |
| `browse` | does the browse copy match the file, do its threads end? | holds if it did not fall behind |
| `player` | is every frame shown with its own position? | holds |
| `player_end` | is the sink a queue, does every call return? | holds but for two lost signals |

Excuses are named where they are made, each by a history variable, and each is
something the code does:

| Property | Leaves out | Because |
|---|---|---|
| `ReadyUnlessExcused` | `unready` frames | a recovery moves `lastframe` over frames that were never written, and the first good picture goes to the element of the first of them; a failed transfer files the picture before |
| `DropsAccounted` | what comes after a loss of signal | frame numbers then follow the clock; a batch of dummy frames also leaves the tick of the first of its frames behind, so that the next poll makes more |
| `VideoFaithful` | frame 0 | the number of the daemon's first frame is also that of a cleared or never filled element, so `Valid()` holds while its element is overwritten, or before it is filled, and a torn or missing picture is written as good: with `wrong = {}` in its place TLC finds such a recording |
| `VideoFaithful` | `mistaken` recordings, burnt-in timecode | a frame may be taken from an element that already has another number; all frames share one overlay buffer. (Sound is not in the property: it is written from shared memory, unchecked, when the video is ready. A missed frame is marked as coded before it is marked as in error, and may be written as a good, empty one.) |
| `Ends` | predicted start frames | while `lastcoded` is ahead of `LastFrame()` the heartbeat is not looked at |
| `StopHonoured`, `ChunksAbut` | `late` calls of Stop() | the completion callback may set the target after it; a stop timecode before the start of the chunk is taken for one after midnight |
| `TrafficReleased` | `unsent` ends | `StartCopying()` finds `mArgs` empty while `Start()` rebuilds it |
| `NothingLost` | `torn` files | one `ctimeCleared` for two directories read one after the other (run `transfer_lost`) |
| `DiscsSpared`, `LimitReleased` | `missed`, `orphans`, clients that are down, failed connections | nothing is acknowledged or sent again; a server that restarts has no events, a recorder that crashed never ends its own |
| `DiscsSpared`, `FastOtherwise` | `raced` | a limit that changes between the noting of the pid and cpfs's first output may be overwritten with the one before |
| `Remembered` | sources with "xml", a crash while saving, files that are gone | the last directory scanned decides; `SaveConfig()` truncates first; when nothing that old is left, a scan of what there is may lower `ctimeCleared`, and nothing needs it any more |
| `FileFaithful`, `KeptIsWhole`, `NoGap` | `stale` | the store thread read `last_written()` before the start and used it after |
| `NoGap`, `DeadIsAborted` | `unheard` | failures before the session is in the recording state are ignored |
| `BrowseMatches` | `skipped` | black frames stand for those that were skipped, and one may be added without being counted |
| `ShownAsLabelled`, `SinkIsQueue`, `PlayerTypeOK` | `raced`, `odd` frames | a slot may be cleared while it is sent; a call that timed out leaves `clientPosition` where it wanted to go |
| `PlayerGoesOn` | `Asleep` | a signal that comes between a test and a wait is lost |

Two disjuncts are worth reading in the other direction. `VideoFaithful` is what
the two calls of `Valid()` in the MtEncoder buy: with `Valid` replaced by TRUE,
TLC finds a foreign picture in the file. And `Accounting`, a sum over the record
thread's own counters, is what makes `written + dropped >= target` mean
"recorded up to the target", which `RecorderControl` relies on.

### Bounds

* `ring`: four elements, a fifo of two, eight frame periods. A loss of signal, a
  batch of two dummy frames, the return of the signal and a recovery that wraps
  round the ring fit in six; GoodPolls = 2 (25 in the code) and MaxRecover = 2
  (50) are what makes a poll that fails after one that succeeded, and a recovery
  of more than one frame, possible.
* `record`: a ring of four (three would leave no backlog to allow), two threads,
  a target of two frames, five frames published, so that the ring wraps while
  the first frame is still being encoded. The recording starts when
  the newest frame is 0 or 1 or there is none yet (`StartAt`), and looks one
  frame back or takes one ahead, so that it begins with frame 0, 1 or 2. `MaxLag` is
  slack here (99). `DmaMayFail` is FALSE: a failed transfer changes nothing but
  the picture of a frame that is `unready`, which the property excuses; the
  theorem holds with it.
* `record_end`: liveness with two threads, ten frames; `MaxLag` = 2 stops the
  clock when the encoder is that far behind, since an encoder that never keeps
  up drops frames for ever but does reach its target.
* `control`: two recordings, two channels, chunks of two frames; clients call at
  one frame and are served during the next one, which is enough for the second
  recording to start while the first is anywhere between its start and its
  deletion. The history of `gap` and `late` is not needed here.
* `control_end`: one recording of chunks of three frames, drops of one, start
  timecodes a frame before and after the newest, post-rolls of 0 and 1; the
  clock goes on long enough to reach any target.
* In `RecorderControl` the clock stops while a call is being served after
  `StartBy`: a call that takes longer than the rest of the behaviour is not
  looked at.
* `transfer`: one source, two files in its main directory and one in "xml", of
  which the latter may be collected from the file server; arrivals in the first
  two seconds, three seconds in all, one fault (a crash, a lost message, a
  failed scan or copy) at any step, two events of a recorder that clears at its
  start. Two files are what it takes for a newer one to clear an older one's
  ctime, and a second is what a directory read again takes.
* `traffic`: a recorder with one recording and a player, two sources of
  different priority of which one has a file, one connection waiting, one fault.
  `MaxFaults` = 1 lets a behaviour contain the crash and restart of the server
  in any state of its clients.
* `archive`: a ring of four (the store thread's test needs three: one to store,
  one that the card fills and one that waits for its LTC), five frames, two
  recordings, one fault, `WAIT_GOOD_FRAME_COUNT` = 1. It is run without the
  browse copy, which shares nothing with the archive file but what it reads;
  `browse` runs with it, on a ring of three, frames 0 and 1, one recording.
* `player`: source and sink of two frames each, a file of two frames whose
  length is found out at its end, two requests, one failed read. Seeks go one
  beyond the end of the file. `player_end`: a sink that blocks, one request, one
  time-out, and a close at any moment.

### Fairness

`FairRecordSpec` has weak fairness of the record thread, of each thread of the
MtEncoder, and of the capture thread as long as the daemon is alive; `FairControlSpec` of the clock, of
the ORB thread, of each manage and record thread. These are threads of the
operating system, none of which waits for another except as modelled (a queue,
a join, the ring), and the code polls with sleeps of a fixed time. Nothing is
assumed of clients, of the death of the daemon, of the signal, or of spawning.

`Fairness` of `TransferServer` is weak fairness of the clock, of the parent, of
the child's scanning and copying, of cpfs, of a restart after a crash, and of
sockets that are being opened: an operating system that runs its processes, and
somebody who starts a server again that has died. Clients need not finish what
they record, messages need not arrive, copies need not succeed.

`ArchiveFairness` is weak fairness of the store and browse threads, of what the
capture thread does while the card answers, and of the session thread once it
has been asked for something. A start, a stop, a signal that returns, and the
end of a wait for it are not assumed, except that `wait_for_good_SDI_signal()`
returns when capture is suspended, for which it looks in each round.

`PlayerFairness` is weak fairness of the three threads and of the rest of a
close that has begun. The user need do nothing; time-outs may or may not happen.

## 4. What is proved

`NexusRing_proofs` proves for every `RingLen` >= 2, `FifoLen`, `GoodPolls`,
`MaxRecover` and `MaxNow`, with and without failing signal and DMA:

| Theorem | Statement | Argument |
|---|---|---|
| `TypeCorrect` | `RingSpec => []TypeOK` | inductive as it stands |
| `Stable` | `RingSpec => ReadableIsStable` | every store goes to `Cur`, and `ModDistinct`: frames less than a ring apart are in different elements |
| `PublishedReady` | `RingSpec => []ReadyUnlessExcused` | `RingInv`: the invariant says nothing of the element being filled, so it is strengthened by `Filling`, what has been stored at each value of `cpc` |
| `DropsReported` | `RingSpec => []DropsAccounted` | `DropInv`: as long as the signal was never lost, `taken` and `dropped` move together with frame numbers |

The only assumption is `RingAssumption`. `MaxNow` bounds the clock, but the
proofs hold for each value of it, so they say the same of a run of any length.
`ReadyUnlessExcused` alone is not inductive: a frame enters `Readable` when it
is published, and only `Filling` says that its element was complete by then.

`NexusRingImpl_proofs` proves `Implements`, `RingSpec => ImplementsFrameRing`:
the initial state maps to `FrameRingInit`, and each action of `NexusRing` to one
action of `FrameRing` or to a step that leaves `lastframe`, the elements and
the stage alone (`StepImplements`, a case per action). `FrameRing` has dummy
frames and recoveries only if `SignalMayFail`; that the daemon makes none
without a loss of signal is the invariant `LossOnly`. `RecordThread` is
modelled over `FrameRing`, so the theorem is what ties the two programs together.

`RecordThread_proofs` proves for every ring, number of threads, encoder, target
and start frame from 0 on:

| Theorem | Statement |
|---|---|
| `Accounted` | `RecordSpec => []Accounting` |
| `RecordTypeCorrect` | `RecordSpec => []RecordTypeOK` |
| `HeldOnce` | `RecordSpec => []InOneHand` |
| `PicturesFaithful` | `RecordSpec => []VideoFaithful`, which excepts the picture of frame 0 |

`Accounting`: what is counted moves from `lastcoded` to `frames_to_save` to
`FramesWritten()`, or straight to `FramesDropped()`, one frame at a time; it is
inductive with the types of the counts and with nothing counted before
`start_frame` is known (`Counts`). The others follow from `RecordInv`. That a
frame is in one hand is not inductive, since a thread of the MtEncoder takes
whatever the queue holds: the queue must hold each frame once and only frames
that are buffered and not coded (`QueueSound`), two threads never the same one
(`HoldersSound`), and none may be dropped on the way (`NoneForgotten`). That a
picture is the frame's own needs what an element with a published number holds,
at each stage of the daemon's rewriting it (`RingHolds`), and what each thread
has read so far if the number is still there (`PictureKept`): the check of the
number after the encoding is sound because the daemon clears the number before
it touches the picture, and `RingHolds` is what says so. A cleared number is 0,
so that the argument begins with frame 1: of frame 0 `PictureKept` says nothing,
and a recording that starts there is covered for the frames after it.

`RecorderControl_proofs` proves, for any finite set of channels, `MaxRec`,
chunk size, alignment, start timecodes and post-rolls:

| Theorem | Statement |
|---|---|
| `ControlTypeCorrect` | `ControlSpec => []ControlTypeOK` |
| `RecorderOwned` | `ControlSpec => []ThreadsOwnRecorder` |
| `TrafficIsHeld` | `ControlSpec => []TrafficHeld` |
| `TrafficIsReleased` | `ControlSpec => []TrafficReleased` |

All four follow from `ControlInvariant`, `ControlSpec => []ControlInv`.
`ThreadsOwnRecorder` is not inductive: that `Delete` finds no thread running
depends on how the thread that waits got there. `InHand` says it: a recorder is
in the hands of the ORB thread while `Start()` sets it up (`OrbInHand`), and
from then on of its manage thread (`Managed`), which is past `join` only when no
record thread runs, and whose event has begun until it ends it. `TypeStep` and
`HandStep` have a case per action. The types need arithmetic: a chunk has a
positive duration (`RoundDown`, `ChunkType`), and `Recorded`, a maximum over
channels, exists (`Extremes`: a counterexample of least cardinality loses an
element and is no longer one). The assumption is `ControlAssumption`;
`ControlInv` was also checked with TLC on the instance of the run `control`.

Two more need an assumption about the instance, the one under which
`control_end` checks them too:

| Theorem | Assumes | Statement |
|---|---|---|
| `StopIsHonoured` | `StopBack = 0 \/ Chunk = 0` | `ControlSpec => []StopHonoured` |
| `ChunksMeet` | `SpawnMayFail = FALSE` | `ControlSpec => []ChunksAbut` |

A stop timecode before the start of the current chunk is taken for one after
midnight (so either clients give none, or there are no chunks), and a record
thread that cannot be spawned has nothing of its chunk: without the assumptions
the properties are false (TLC finds both violated on that instance with
`StopBack` = 2, or with `SpawnMayFail`). They follow from `TargetInv`. `StopHonoured` compares
what was written with a limit that only the target enforces, so `StopKept`
bounds each thread by its place: it has not passed the limit while it runs, by
no more than the frames dropped while it is behind, and by one write more when
it is done; `LengthSound` says that the target `Stop()` is about to set is the
one asked for, and `CallsSound` which recorder it can still concern. For
`ChunksAbut`, `ChunkKept` carries "every thread has reached the target" from the
join to the choice of the next chunk's start.

`TransferServer_proofs` proves, for any recorders and players, any finite
sets of sources and files, and any bounds on time, faults, events and connections:

| Theorem | Statement |
|---|---|
| `ServerTypeCorrect` | `TransferSpec => []TransferTypeOK` |
| `ClearedIsCopied` | `TransferSpec => []NothingLost` |
| `SleepsOnlyWhenDone` | `TransferSpec => []NoSleepOverWork` |
| `UsersComeFirst` | `TransferSpec => []DiscsSpared` |
| `FastWithoutLimit` | `TransferSpec => []FastOtherwise` |
| `ClearedStaysCleared` | `TransferSpec => []Remembered` |

All follow from `TransferInv`, whose parts are of one question each. For
`NothingLost`, `Timely` keeps every ctime that is cleared, saved or about to be
cleared in the past, where no file can arrive, and `Cleared` follows it on its
way: what is below the latest ctime of a scan is done or was found by the scan
(`ScanCleared`), then done or in the list (`WorkCleared`), and then cleared
(`PairsCleared`). `Counted` ties the number of files left of a pair to the list,
so that a pair is not cleared while one of its files waits. For
`NoSleepOverWork`, `KicksSound` says who will see to a pair that is stale
(`Awaited`). For the limit, `CopierSound` relates cpfs's handlers, its pending
signal and what the parent and the child each believe, and `UsesTold` follows a
start through the connection: nothing behind it in the queue ends it. For
`Remembered`, `Kept` does for the saved times what `Cleared` does for the
others.

The proof showed that an earlier form of `Remembered`, in which the time that is
cleared never falls, was wrong beyond the bounds of its run: when the
old files have been deleted from the source, a scan of what is left may set a
lower time (`xferserver.pl:934-942`). The property now speaks of files that
still exist, which is what they are remembered for.

`ArchiveCapture_proofs` proves, for every size of the ring (3 at least), number
of good frames to wait for, frames, recordings and faults, with and without a
browse copy and a backup:

| Theorem | Statement |
|---|---|
| `ArchiveTypeCorrect` | `ArchiveSpec => []ArchiveTypeOK` |
| `FileIsFaithful` | `ArchiveSpec => []FileFaithful` |
| `KeptReachesItsEnd` | `ArchiveSpec => []KeptIsWhole` |
| `KeptHasNoGap` | `ArchiveSpec => []NoGap` |
| `DeadIsNotKept` | `ArchiveSpec => []DeadIsAborted` |
| `CopyShowsFile` | `ArchiveSpec => []BrowseMatches` |

The first five follow from `ArchiveInv`. `RingSound` says which slots the card
cannot touch (`InRing`: those of the last `RingSize - 2` frames captured),
`SessionSound` and `StoreSound` what the two threads may rely on of each other
at each of their places, which is where the excuse `stale` is needed;
`FileSound` adds the frame that is written and not yet counted: it is the right
one unless the card has caught up, and if it has, the second check finds out.
`EndSound` is how far the file is when a recording that nobody aborted stops,
`CardRuns` that the card has not been restarted as long as nothing was reported,
`OneRun` that the frames counted are all of its present run.

`CopyShowsFile` needs two more, inductive together with it. `FileOfRing`: what
the file holds is what is in the ring, as long as it is there. `CopySound`: the
k-th frame handed over, which `Sent(k)` finds in the copy or in one of the two
slots, is what is in the ring and, if counted, what is in the file. A frame that
was handed over and not yet checked may be another (`Sure`), which the thread
notices before it counts it. `SlotsSound` is the state of the two slots: free,
one or both handed over, and the end of the sequence last. These were checked
with TLC on four instances before they were proved.

`PlayerBuffers_proofs` proves, for every length of the file, known or not, all
sizes of source and sink (the sink has at least two frames) and any number of
requests, time-outs and failures:

| Theorem | Statement |
|---|---|
| `PlayerTypeCorrect` | `PlayerSpec => []PlayerTypeOK` |
| `SinkImplementsQueue` | `PlayerSpec => SinkIsQueue` |
| `LabelsAreTrue` | `PlayerSpec => []ShownAsLabelled` |

That `ring.used` stays within the ring is not inductive: it needs `SinkInv`,
which says that between `Accepts` and `Completes` there is room, that
`writePosition` is the place after the last frame, and that the swap frame, the
frame being shown and the places of the ring are different buffers, so that no
frame is written to while it waits or is shown. It holds as long as no slot is
cleared while it is taken, and `SourceInv` says what the source's slots hold
when that is so. A step of the sink's ring is a step of the queue because places
in the ring are counted modulo its size (`ModOnce`, `NextPlace`).

`LabelsAreTrue` needs all three threads. `LabelInv` says what the slots hold
(`SlotsInv`: a slot that is ready has the picture it is labelled with, and a
known end of the file only comes nearer), what the player has taken of them
(`TakenInv`), and where it stands (`SyncInv`): `clientPosition` follows the last
frame shown or lies beyond the end, unless a call timed out or a frame that was sought
could not be read (`adrift`). The
labels of frames in the sink (`LabelsInv`) then follow from those of the slot
they were copied from.

`RingPlaces` has the two facts about indices modulo the size of a ring on which
the proofs about rings rest.

Model-checked only: all liveness (`Ends`, `StopCompletes`, `LimitReleased`,
`CopiedInTheEnd`, `StopEnds`, `BrowseDone`, `PlayerGoesOn`), which is outside
tlapm's fragment. Every invariant of a passing run (two of them under the
assumptions named above), `ReadableIsStable` and both refinements are proved.

## 5. What is not modelled, and why

* Pixels, sound samples, file formats, AAF, databases, GUIs: I/O and data
  conversion, whose errors are not a matter of order.
* The choice among timecode sources, drop-frame and midnight: timecodes are
  frame counts. Stop timecodes before the start of a chunk are left out
  (`StopBack`).
* Several channels in one record thread, the quad split and the AV encoder.
* In `RecorderControl`: channels without a signal (disabled by
  `CheckStartTimecode()`), discontinuous timecode, a manage thread that cannot
  be spawned, `CopyMode::OLD`. Messages to the transfer server arrive at once
  there; `TransferServer` has them lost and delayed.
* In `TransferServer`: a second destination (-e, -g), FTP (-f), the options -n,
  -c, -r and -p, the status server, conflicts of destination names, files of
  size zero, a source that changes its priority, a clock that goes back, and a
  `PATHS_FILE` of which only a part was written.
* In `ArchiveCapture`: recordings of several items, timecode, PSE analysis,
  dropout detection, confidence replay, the session's look at its requests as
  more than one step.
* In `PlayerBuffers`: speeds other than 1, reverse play, sources that grow
  (`availableSourceLength`), several streams in one frame, marks and display.
* The rest of the repository: libMXF and libMXF++, the players' sources and
  sinks, the database layer and the GUIs are format, device, drawing and query
  code, in which nothing happens in an order that could be wrong without a
  single-threaded test seeing it, or which is too large a table of data to say
  anything about. It is most of the lines of the repository.
* The parts marked `not_modelled` in `PROJECT.json`.

## 6. Plan

Done: ring, record thread, control, transfer server, archive capture, player
buffers. In order of what it would tell:

1. Proofs: that `RecorderControl`'s record thread, a count of frames, is what
   `RecordThread` does (a refinement mapping from its counters), and that the
   server of `TransferServer` treats one recorder as `RecorderControl` assumes.
2. `MasterTimecode` and `IngexShm`: a lock that one of two writers does not
   take; attaching to shared memory again after a restart.
3. The controller threads of Ingexgui, and `TimecodeArithmetic`: drop-frame
   counting as functions against a reference definition.
4. The archive recorder's cache, and its recordings of several items.
