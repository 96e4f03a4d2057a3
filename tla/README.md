# A TLA+ model of eggvision

eggvision runs on a Raspberry Pi class board. It takes paired main and lores
frames from libcamera, encodes the main stream to H.264, serves it over RTSP,
looks for people in the lores stream, and writes a clip, a snapshot and metadata
for each detection. All of it is one C++ process with about ten threads. The
code that is hard to test is the code between those threads: who owns a camera
buffer, which media an RTSP callback belongs to, which encoded units end up in
a clip, and what shutdown waits for. That is what this project models.

Source paths below are relative to the repository root.

## The system

| Component | State it keeps | Operations | What makes it correct |
|---|---|---|---|
| `CameraCapture` (`src/camera_capture.cpp`) | requests, `RecyclerState`, stopping flags | start, completion callback, release function, recycler thread, stop | a request is in one place; it goes back to libcamera once and only when nobody uses it; stop ends |
| `FrameLease` (`include/eggvision/frame.hpp`) | the request and its release function | shared by reference count | the release runs once, on whichever thread drops the last reference |
| `LatestFrameQueue` | one value, `closed_` | push, waitPop, clear, close, reopen | a slow consumer never holds up the producer; nothing survives close or reopen |
| `H264Encoder` (`src/h264_encoder.cpp`) | pipeline, `running_`, `recovery_requested_`, `generation_` | initialize, start, submit, input, output and bus threads, stop | keeps a reserve of requests for the camera; restarts after an error with a new generation |
| `InferenceWorker` (`src/inference.cpp`) | worker thread, latest frame | start, submit, worker loop, stop | calls the detection consumer with the frame it looked at |
| `EncodedRingBuffer` (`src/encoded_ring_buffer.cpp`) | units, byte count, generation, newest timestamp | push, selectPreRoll, clear | holds exactly the retention window; starts decodable; one generation, ordered in time |
| `EventRecorder`, `EventGate` (`src/event_recorder.cpp`) | gate, active event, job queue, worker | start, trigger, observeEncoded, stop, worker loop | no event is lost; a clip is decodable and contiguous; cooldown; stop drains unless the muxer blocks |
| event files (`writeEvent`) | `.partial` and final directories | snapshot, mux, metadata, renames | readers see only complete events, across failures and crashes |
| `RtspServer` (`src/rtsp_server.cpp`) | current media, its generation and status, recovery state, worker job, listener, callback state, session pool | start, media signal handlers, watchdog, recovery worker, feeder, session cleanup, stop | a failed media is replaced; the listener comes back; an appsrc begins decodable; start and stop leave everything or nothing |
| `main` (`app/main.cpp`) | order of start, recovery and stop | wiring of callbacks | everything is stopped and every lease returned |
| `DmaBufReadSync` (`src/dma_buf_sync.cpp`) | the DMA-BUFs in a read session | constructor, `finish`, destructor | every session begun is ended once |
| pure code: NAL scan (`src/h264_bitstream.cpp`), I420 layout (`src/i420.cpp`), `makeRawBuffer()`, non-maximum suppression | none | functions | agree with a definition of what they should compute |
| letterbox, MNN and OpenVINO backends, configuration, metrics, logging, scripts | | | not modelled |

How they interact. libcamera's thread runs `onRequestCompleted()`, which wraps
the request in a lease and calls `H264Encoder::submit()` and
`InferenceWorker::submit()`; both put a reference in a one-place queue. The
encoder's output thread calls, in this order, `EncodedRingBuffer::push()`,
`EventRecorder::observeEncoded()` and `RtspServer::submit()`. The inference
thread calls `EventRecorder::trigger()`, which reads the ring. `main()` polls the
encoder for errors, and restarts it. Nothing orders these threads but the
mutexes inside each component.

## Modules

| Module | Models | Notes |
|---|---|---|
| `EncodedRingBuffer` | the ring | `push`, `clear`; `SelectsFrom` is `selectPreRoll()` |
| `EncodedRingBufferProofs` | | theorems about the ring, its window and the pre-roll |
| `EventRecorder` | recorder, gate and `main()`'s encoder callback and restart; extends the ring | each action is one critical section |
| `EventRecorderProofs` | | theorems about the recorder |
| `EventStore` | what readers of the event directory are promised | abstract |
| `EventWriter` | `writeEvent()` on a file system, with crashes | implements `EventStore` |
| `EventWriterProofs` | | theorems about the writer, the refinement among them |
| `CameraPipeline` | leases, recycler, the frame queues, encoder and inference lifecycles, `main()`'s start, recovery and stop | composes five components |
| `CameraPipelineProofs` | | theorems about requests, leases and shutdown |
| `RtspServer` | media signals, watchdog, recovery worker, push outcomes, `stop()` | gst-rtsp-server external |
| `RtspServerProofs` | | theorems about recovery and `stop()` |
| `RtspLifecycle` | `start()` and `stop()` again and again, callback epochs, loop thread, session cleanup | GLib and the session pool external |
| `RtspLifecycleProofs` | | theorems about start, stop and callbacks |
| `H264Encoder` | frames to units: input, output and bus threads, generations, the keyframe wait, `main()`'s supervision | the codec external |
| `RtspFeeder` | `submit()`, the one-place queue, the key-frame gate, what each appsrc is offered | extends `H264Encoder` |
| `RtspFeederProofs` | | theorems about encoder and feeder together, and about the NAL scan |
| `H264Bitstream` | `inspectH264ByteStream()` | operators |
| `I420` | mapping of buffers, `makeView()`, the layout checks and copies of `src/i420.cpp` | operators |
| `RawBuffer` | the memory layout `makeRawBuffer()` gives the encoder | operators, extends `I420` |
| `InferenceWorker` | submit, worker and stop, DMA-BUF sessions, snapshot staging | extends `I420` |
| `InferenceWorkerProofs` | | theorems about sessions, frames and pictures, raw buffers and suppression |
| `NonMaximumSuppression` | `nonMaximumSuppression()` | operators |
| `MC...` | instances for TLC: bounds, inputs, history variables and the properties that need a history | |

Definitions keep the names of the functions they model where TLA+ allows, and a
comment beside every variable names the field it stands for. `PROJECT.json`
gives the source lines of every definition. Definitions whose name begins with
`Bug` are mutants: plausible errors, used only to show that a property can fail.

### EncodedRingBuffer

An access unit is `[ts, gen, idr, size, id]`. `idr` stands for
`independentlyDecodable()`, `id` only tells units apart. The two pruning loops
are stated by the index they stop at (`PruneByTimeKeeps`, `PruneByBytesKeeps`).
The incremental `bytes_` is kept as the code keeps it. `MCEncodedRingBuffer`
adds the history of accepted units (`HistorySpec`), so that
`RingIsRetentionWindow` can define the window, and the sum `bytes_` must equal,
without any loop, and `PreRollRetained` can say what a trigger must find;
`BoundedSpec` is the same with the bounds of the run.

### EventRecorder

`EncoderPush` and `EncoderObserve` are separate actions because the encoder's
callback holds no lock between `push()` and `observeEncoded()`: `trigger()` may
run before, between or after them. `trigger()` itself reads the ring under the
recorder's mutex and is one action. Storage can be short at any time, so any
call of `trigger()` may be suppressed. `finishLocked()` is an operator used from
four places, as in the code. What the worker does while it writes is the subject
of `EventWriter`; here it succeeds, fails, or gets stuck: `muxVideo()` pushes the
units of the clip into an external appsrc with `block=true` and no timeout
(`src/event_recorder.cpp:251` and 331), and when the muxer or the filesink behind
it has failed nothing empties that appsrc. No action leads out of `WorkerStuck`;
the first push always returns, so a clip of one unit is safe. `MCEventRecorder`
remembers every unit emitted, so that `ClipContiguous` can say which ones a clip
may lack. Left out: `state()`, which only reads, and the counters of partial rolls.

### EventWriter and EventStore

A directory is the set of its file names and what its metadata says. Every file
operation is an action that may fail; `Crash` may come between any two, and only
`partial` and `final` survive it. After a restart the clock and the frame
sequence may repeat, so an id may be used again. `EventStore` has one step:
an absent event appears complete. The refinement mapping `Published` is what a
reader finds under the final name. The file system is assumed to perform
operations in order; power failure without `fsync` is out of scope.

### CameraPipeline

`holders[r]` is the set of references to the lease of request `r`; removing the
last one puts a release function `[by, req, at]` under way on the thread that
removed it, which then counts the lease off and, in a second step, returns the
request. A thread in a release function does nothing else. The recycler's
condition variable is modelled with its mutex: `test`, `blocking` (mutex still
held), `waiting`. `Init` is the moment `main()` calls `camera.start()`, with the
encoder and inference running. External and nondeterministic: libcamera
completing requests in any order, GStreamer keeping or dropping raw buffers.

### RtspServer

Each action is one critical section of `source_mutex_`; `onMediaConfigure()`,
`onMediaPrepared()`, `onWatchdog()` and `stopLocked()` take it several times and
are several actions. `gst`, `cache` and `clients` stand for gst-rtsp-server,
modelled from how the code uses it: a connected client makes the factory
construct a media if none is cached; the media is evicted before the handlers
connected with `G_CONNECT_AFTER` run; the client that prepares a media is one of
its users until the handlers have returned; the worker's teardown closes all
clients. `Init` is a started server. The order in which `source_mutex_` is nested
with the other mutexes is not modelled, so nothing here speaks of a deadlock
between them. `accepting` stands for `accepting_clients_` and for the listener's
source together: `recoverMedia()` clears both in one critical section and destroys
the source just after it. `WatchdogLook` may find any preparing or
unpreparing media overdue, since time is not modelled. Allocation failure inside
`recoverMedia()` is left out. `MCRtspServer` adds the variable `overtaken`: a
second error, a new media or a failed attachment has interfered with a recovery
under way, the cases in which `UndisturbedRecoveryResumes` promises nothing.

### RtspLifecycle

`Steps` lists what `start()` acquires, in order; `held` is what the server has.
Each step may fail, and `stopLocked()` then runs as it does for `stop()`. An
epoch is one `start()`, with its own `CallbackState`, session pool and cleanup
owner. A client's thread puts a session into its pool and only then emits
`new-session`, so that its `CallbackGuard` may come after `stop()` and the next
`start()`. The owner's watch is modelled from the comment and the wakeup in
`onClientNewSession()`: it sleeps for good when it saw no session. Two
properties of GLib matter: a wakeup is remembered until the next poll, a quit is
forgotten by a loop that has not begun to run (`lost` remembers the epochs whose
loop that happened to). `StopReturns`, without any excuse, is what the run
`rtsp_lost_quit` refutes; `CallsReturn` excepts the lost quits and holds. The
recovery of medias is not in this module, nor the feeder: their
threads are joined where `stopLocked()` joins them. An exception from
`make_shared` before anything is acquired only returns false and is left out.

### H264Encoder and RtspFeeder

A frame is its sensor timestamp, which is not zero and may be later than, equal
to or earlier than the last one; a unit carries its place in the order of output,
its generation, the timestamp `outputLoop()` computes and, for comparison, the
frame it came from and whether its sample had a PTS. `RawPts` is the PTS
`makeRawBuffer()` sets: the distance from the base or, for a frame that is earlier
than the base, its index times `Period` (`src/h264_encoder.cpp:276-278`). The
pipeline between appsrc and appsink may lose any frame, lose a PTS, and decide
which units are decodable; a sample without a PTS counts as zero (336), and one
that cannot be mapped is dropped (`PullFails`). `first` is a history variable, the
generation's first frame to reach `inputLoop()`.
`busLoop()` takes three steps, because it stores three things without a lock.
`main` walks through startup, serving, recovery and the exit path. In
`RtspFeeder`, `Bind` and `Unbind` stand for all the handlers that replace the
appsrc; when each of them runs is `RtspServer`'s subject, so here they may run
whenever the server is up. Each is followed by its own `Clear`, taken after the
mutex is released. `offered` records every unit that passes the key-frame gate.
`makeBuffer()` may make no buffer of it, without memory or of an empty payload
(`src/rtsp_server.cpp:1394`); the gate is open and the number spent by then
(1480-1484), so such a unit is recorded with `made` FALSE and nothing is pushed.
What a push returns is `RtspServer`'s subject.

### H264Bitstream

The loop is a recursive function over offsets, as the code is a loop over
offsets; the reference, `Headers`, is the set of bytes behind `00 00 01`
anywhere in the data. The two agree except where a NAL header would be zero, a
value H.264 does not use, which `ByteStreams` leaves out.

### I420, RawBuffer and InferenceWorker

A buffer is what libcamera reports; a byte of memory is a DMA-BUF and a place in
it. So `copyMappedI420(view)` is the sequence of bytes the code copies, and the
property can ask whether it is the picture. `size_t` and `unsigned` are numbers
modulo `SizeMax + 1` and `UIntMax + 1`; the reference definitions at the end of
`I420` (`HoldsPicture`, `IsPicture`) use numbers without bounds. In
`InferenceWorker` every ioctl, copy and conversion is a step that may fail or
throw, and of the buffers that are used from frame to frame the model keeps
which frame they show. `trigger()` is called from the worker, so the snapshot it
stages reads camera memory under the same rules. `RawBuffer` states which bytes
the encoder finds where. `Adjoin` is what `makeRawBuffer()` relies on without
testing it: a single plane begins its DMA-BUF, planes of separate DMA-BUFs are
exactly as long as their rows, and the place where the last of them begins is
within `size_t`. The last condition came out of the proof; on the board, where
`size_t` is wider than the `unsigned` the lengths are in, it always holds.

### NonMaximumSuppression

Confidences and coordinates are integers and the threshold a fraction, so that
the comparison is exact; rounding of `float` is not modelled. Sorting leaves
equal confidences in any order.

## What is checked

Every run is small enough to finish in a few minutes with two workers.

| Run | States | Checks | Result |
|---|---|---|---|
| `ring` | 43 000 | order, exact retention window and byte count, pre-roll selection | holds |
| `recorder` | 908 000 | queue bound, accounting, gate, clip shape, clip contiguity, clip extent, cooldown; `StopDrains` unless the worker is stuck | holds |
| `writer` | 48 000 | published events complete, nothing in between, refinement of `EventStore` | holds |
| `camera` | 660 000 (up to symmetry) | one place per request, exact counter, reserve, all leases returned | holds |
| `camera_flow` | 103 000 | `FramesKeepFlowing` although consumers may stall for ever | holds |
| `camera_stop` | | `ShutdownCompletes` | violated: finding 1 |
| `rtsp` | 587 000 | recovery owns the media, cached media is the fed one, synchronous stop, resume after teardown; an undisturbed recovery resumes | holds |
| `rtsp_stranded` | | `ListenerResumes` with one bus error | violated: finding 2 |
| `rtsp_lifecycle` | 208 000 | everything or nothing, callbacks in their epoch; expired sessions removed, calls return and cleanup owners end | holds |
| `rtsp_lost_quit` | | `StopReturns` | violated: finding 3 |
| `stream` | 710 000 | serving only after a keyframe, exact timestamps but for two stated exceptions, decodable start and numbering of what passes the gate, order, NAL scan; a failed encoder is handled | holds |
| `inference` | 152 000 | reads inside sessions and data, sessions ended, exactly the whole pictures accepted and read as they are, current frame, suppression, raw buffers | holds |

### Findings

1. **Lost wakeup in `CameraCapture::stop()`.** The flag and `notify_all()`
   (`src/camera_capture.cpp:279-280`) are not under the recycler's mutex. They
   can both fall between the recycler's evaluation of its wait predicate and its
   block (416-418). If no lease is released later, the join at 287 never
   returns. Leases that are still out do not help: once `stopping` is set their
   release functions skip the notification.
2. **A recovery forgotten.** `onMediaHandleMessage()` turns a Running recovery
   of the same media into a Requested one. When the media is then unprepared,
   `onMediaUnprepared()` treats the request as void and resets it; the listener
   that `recoverMedia()` removed is never attached again, and with no media the
   watchdog has nothing to do.
3. **A quit that is lost.** `g_main_loop_quit()` on a loop whose thread has not
   reached `g_main_loop_run()` is forgotten. `stop()` right after `start()` may
   therefore join the loop thread for ever (`src/rtsp_server.cpp:1715-1720`).
   `tests/rtsp_restart_harness.cpp:334-337` stops a server it has only just
   started and goes on.

Seen while modelling and not given runs of their own:

- The encoder's reserve uses the wrong number. `H264Encoder::submit()` keeps back
  two of `config_.buffer_count` requests (`src/h264_encoder.cpp:163`), while
  `createRequests()` (`src/camera_capture.cpp:219-223`) accepts any number of
  allocated pairs from four up. With four allocated and eight configured the
  consumers can hold all four: with `BufferCount` 8 instead of 4, TLC finds
  `CameraNeverExhausted` violated. When the numbers agree, the run `camera` shows
  that the reserve works.
- A worker may be stuck for ever. `muxVideo()` pushes into an appsrc with
  `block=true` and no timeout (`src/event_recorder.cpp:251` and 331). Once the
  muxer or the filesink has failed, on a full disk for example, nothing empties
  the appsrc, and its bus is read only after the last push.
  `EventRecorder::stop()` joins the worker (863-866) without a timeout, so it does
  not return either; `StopDrains` excepts exactly this. The wait for the muxer to
  finish is bounded, the pushes before it are not.
- With two medias, `onMediaConfigure()` for a client that is still connected
  resets a Running recovery as in finding 2 (`src/rtsp_server.cpp:933`); after a
  failed attachment of the listener nothing tries again (1373).
- The quit of finding 3 may be lost by a detached cleanup owner too, which then
  never releases its references, against what the comment at 621-623 says.
  `CallsReturn` excepts exactly the lost quits.
- A session that a client publishes late may leave `current`, and the gauge of a
  running server, one behind until the next cleanup.
- The key-frame gate opens when a unit is pushed, whatever the push returns: if
  the appsrc was flushing, deltas follow a keyframe it never took (1454-1537). It
  opens as well when `makeBuffer()` makes no buffer of the unit (1394, 1480-1484);
  the number is spent, and the timestamps of the appsrc have a gap there.
- A frame earlier than its generation's first gets a guessed timestamp, its index
  times the frame period behind that first frame, and a sample without a PTS gets
  the first frame's own (`src/h264_encoder.cpp:276-278` and 336): clips and stream
  then show it at a time it was not taken.
- After an encoder restart the numbering, and with it the timestamps, begins
  again at zero on the same appsrc (1454-1459). `SourceStartsDecodable`
  therefore speaks of the units of one generation.
- The feeder's queue holds one unit, so units are lost in the middle of a group
  of pictures when the feeder is slow; clients see damage until the next IDR.
- `busLoop()` notifies `ready_cv_` without its mutex (`src/h264_encoder.cpp:420`);
  a lost notification costs the five seconds of a timed wait.
- One plane must hold the padding of its last row, three planes need not
  (`src/i420.cpp:190-220`). A failed END of a DMA-BUF session is not tried again.
- `makeRawBuffer()` computes the chroma offsets of planes in separate DMA-BUFs
  from stride and height (`src/h264_encoder.cpp:262-264`): 64 of the 312 layouts
  that hold a picture, those with planes longer or shorter than their rows or
  with a single plane that does not begin its DMA-BUF, are shown to the encoder
  shifted. The planes of one DMA-BUF, which is what the camera delivers, are
  right in every layout. `Adjoin` excuses exactly those 64, so
  `RawBufferShowsPicture` covers the planes of one DMA-BUF in full and planes
  apart only where their lengths are those of their rows.
- README.md lines 156-157 give the shutdown order camera, RTSP, inference;
  `main()` stops camera, inference, encoder, recorder, RTSP, which the code's
  own comment explains.

### Bounds

- `ring`: time 0 to 5, retention 2, sizes 0, 1, 2 and 5 with a limit of 4, four
  units between resets, one reset. Repeats, regressions, invalid and oversize
  units, both kinds of pruning in one push, and eviction of more than one group
  of pictures occur.
- `recorder`: four units, at most one of them oversize and at most one whose
  timestamp moves back or repeats the one before (`TsSteps` 0, 1 and 2, taken from
  one below it); one behind it may then repeat an earlier one. A clock that
  saturates (`U64Max` = 4), two calls of `trigger()`, two generations, a queue of
  one, so that a second event meets a full queue.
- `writer`: two ids, two crashes.
- `camera`: four requests, the least the code allows, and `BufferCount` 4, so
  that the reserve is as tight as it gets; one request lost by a running camera.
  `camera_flow` and `camera_stop` begin after a start during which no frame
  arrived, which leaves out only the interleavings of start itself.
- `rtsp`: two medias, one bus error, three recovery tokens, `PushLimit` 2 (the
  code has 3; one failure below the limit and one at it are what differs).
- `rtsp_lifecycle`: two calls of `start()`, so that a client or an owner of the
  first may outlive it into the second; one client, with two sessions.
  `rtsp_lost_quit` needs one start.
- `stream`: three frames, two encoder generations, three changes of the appsrc
  (bound, taken away, bound again), an appsink of one place, which drops as soon
  as it is full, one unit of which no buffer is made. Two timestamps in any order,
  so that they advance, repeat and move back, below the base of their generation
  included, and lost PTS. The server reads no timestamp of a unit, so these
  vary only in behaviours in which no appsrc is bound; the history variable `odd`
  of `MCStream` separates them. The scan is checked on all strings of 4 to 6 bytes
  over 0, 1 and the headers of an IDR slice and a PPS, long enough for start codes
  of either length at the beginning, in the middle and at the very end.
- `inference`: 15 as the largest number of either width, pictures of up to 4 by
  4, strides padded by up to two bytes, three planes in one, two or three
  DMA-BUFs, one plane and two planes, each layout with one number of one plane
  changed by one or to zero: 1 496 buffers, of which 312 hold a picture and 27
  are compact. Pictures whose luma, or only whose total, exceeds the range are
  among them. Two frames, so that the second meets what the first left behind.
  Suppression: every sorted list of up to three of ten detections, the shortest
  in which a suppressed one could suppress.

Symmetry over requests is used in the run `camera` only.

### Fairness

- Recorder: the worker thread and the join in `stop()` are scheduled. Writing an
  event ends or gets stuck: the wait for the muxer to finish has a timeout, the
  pushes into the appsrc have none, so nothing is assumed of a stuck worker.
- Camera, `SlowConsumers`: the camera, the recycler, release functions and
  `main()` are scheduled. Nothing is assumed of the consumers, since
  `camera_flow` is about consumers that never finish. `LiveConsumers` adds that
  they do finish, and is the most that can be assumed for `camera_stop`, which
  is violated nevertheless. Spurious wakeups are possible and never assumed.
- RTSP: the main loop ticks, the worker, the feeder and `stop()` run. Of
  gst-rtsp-server: a media without clients is eventually torn down, and one being
  torn down is eventually evicted and its handlers called.
- Lifecycle: the caller inside `start()` or `stop()`, the loop, callbacks and
  owners are scheduled; nobody has to call, connect or let a session expire.
- Encoder: every thread of the encoder and the feeder is scheduled, `main()`
  polls, and its wait for a keyframe returns, being timed. The camera need not
  deliver, errors need not happen.

Deadlock is checked in every run but `rtsp_lifecycle` and `rtsp_lost_quit`, where
a server may stay stopped and `stop()` may hang on a lost quit; elsewhere a
finished program, or one that waits for a stuck worker, stutters explicitly. In
`inference` that is what shows that `stop()` does not wait for a worker that
waits for it.

The modules state their type invariants (`TypeOK`, `WriterTypeOK`,
`EncoderTypeOK`) as the first conjunct of their inductive invariants; of these
only the recorder's, which bounds its queue, is in a run.

## What is proved

With TLAPS, for every value of the constants and without the bounds of the runs.
Every invariant that a passing run checks is also a theorem. Each theorem about a
specification follows from one inductive invariant of its module, which TLC
checked on the instance of the run before it was proved (quantifiers over
infinite sets bounded for the purpose).

Pure functions are proved by induction all the same. The library's induction
rules, whose parameter is an operator, cannot be used, but `WFMin` and
`NatLessThanWellFounded` speak of sets: a set of numbers that is not empty has a
least element (`LeastElement`), so a set that contains 0 and with each number
the next contains all up to a bound (`SetInduction`). Applied to sets of
arguments this yields that the recursive functions of the model exist and what
they compute (`TotalExists`, `MarkingExists`, `ScanExists`, `UniqueExists`). The
two lemmas are repeated in the three modules that need them, since each module of
proofs extends only the component it is about.

**Ring** (`EncodedRingBufferProofs`). `RingAlwaysOrdered`: the ring starts
decodable, holds one generation and is ordered in time. The invariant is
`RingTypeOK /\ RingOrdered`; it needs that `generation` and `latest` describe
the last unit, which `OneGeneration` and `TimeOrdered` say.

`RingAlwaysRetentionWindow` and `PreRollAlwaysRetained` are about `HistorySpec`,
the ring and all it has accepted since it was empty. `WindowInv` says that the
ring is the longest window of that history, and `bytes_` its payload. The core
is `PruneWindow`: from the longest window for one unit more, the two loops of
`push()` reach the longest window for the next. A window that has aged out, or
no longer fits, never becomes one again (`AgedOut`, `SizeFromFalls`), so the
loops, which look only at what is left, miss nothing of the whole history. The
sums of sizes are those of the recursive function `SizeOfFirst`. For the
pre-roll, `NewestUsableKept` shows that the newest start a complete clip could
have is still in the ring, and `SelectsOne` that both scans of `selectPreRoll()`
together determine one start.

**Recorder** (`EventRecorderProofs`). `RecorderTypeCorrect`, `EventsAccounted`,
`GateNeverStuck`, `ClipsAlwaysWellFormed`. `RecorderInv` is the conjunction of
the type invariant, the ring's order, the accounting equation, the gate, the
clips, and the fact that no event exists before `start()`. Clips need the ring's
order because `trigger()` copies a suffix of the ring that starts at a decodable
unit; appending needs `EndsEvent` and `Extends`; the gate needs that an active
event has units.

Three more are about whole clips and pairs of events:

- `FlagsTellTheTruth`, of `Spec`. `SpanInv` adds that an event still collecting
  is not marked complete, hence that all of its units lie before the end; this is
  what makes the flag `FALSE` right when `stop()` or a new generation cuts it.
- `CooldownAlwaysRespected`, of `MCSpec`, the recorder with the units emitted and
  the last detection as history; its bounds are constants like any other, so the
  theorem covers any number of steps. The gate alone is not enough: an event
  interrupted early can end before its own trigger, or before an event that
  preceded it, and so turn `cooldown_until_ns_` back. `CooldownInv` therefore
  says of each finished event that the gate *or* the last detection is past its
  cooldown, and the order in which inference sees frames is a hypothesis (`Detect`
  takes a later frame each time) without which the property is false.
- `ClipsAlwaysContiguous`, of `MCSpec`. `ContiguityInv` says that the ring is a
  run of the history in which only rejected units are missing (`RunOf`), that
  each clip is contiguous, and that what was observed since the last unit of the
  active event is excused (`CaughtUp`), where the unit between `push()` and
  `observeEncoded()` does not count as observed. `trigger()` may then fall on
  either side of `observeEncoded()`: the unit is already in the clip and not
  appended again, or not in it and appended.

**Event files** (`EventWriterProofs`). `PublishedAlwaysComplete`,
`NeverInBetween`, and `WriterImplementsStore`, the refinement: the initial state
maps to the initial state of `EventStore`, the rename of the directory maps to
`Publish`, and every other step, a crash included, leaves `Published` alone.
`WriterInv` says for each step of `writeEvent()` which files the `.partial`
directory has by then, that its metadata agrees with them before the rename, and
that the event in hand is not yet published; without it the rename could publish
anything.

**Camera** (`CameraPipelineProofs`), for any number of requests.
`RequestsNeverShared`, `OutstandingAlwaysExact`, `LeasesReturned` and
`ReserveSuffices`. The parts of `PipelineInv`:

- `LeasesCounted`: the counter is the size of one set of requests, the live ones
  and those whose release function has still to count. Dropping a last reference
  moves a request inside that set, so that only completion and counting change
  its size. `OutstandingExact` follows, since no request is in two release
  functions.
- `FramesInHand`: the callback, each thread's hand and each queue have at most
  one frame, and none when they are idle, waiting or closed.
- `RecyclerHolds`: `queueRequest()` gets a request the recycler took.
- `ThreadsQuiet` and `ShutdownOrder`: what each step of `main()` has ended by
  then. This is why `DoneReturnsLeases` holds on all the paths to the end, those
  through a failed restart of the encoder included.
- `ReserveKept`: what `submit()` tested still holds when it pushes, because only
  the camera's own thread makes leases; so the encoder holds at most
  `buffer_count - 3` and inference two more. `ReserveSuffices` assumes that at
  least `buffer_count` requests were allocated, which the code does not ensure
  (see above).

All steps that touch references have one form, `Unref(t, S)`: thread `t` drops
the last reference to the leases in `S`. The lemmas about places and counting
are about that form.

**RTSP recovery** (`RtspServerProofs`), for any number of medias, errors and
jobs. `RecoveryKeepsMedia`, `CachedMediaFed`, `StopSynchronous`, and the action
property `ResumesOnlyAfterTeardown`. `ServerInv` adds `StopPhases` (what each
step of `stopLocked()` has ended), `JobsInOrder` (with `n` jobs done, the worker
has number `n + 1` and the next one waits, so that the latest job is the
recovery's), `MediaKnown` (the current media is the cached one or known to be on
its way out) and `RecoveryCurrent` (a running recovery is of the current media
or has outlived it).

**RTSP lifecycle** (`RtspLifecycleProofs`), for any number of epochs and
clients. `HoldsAllOrNothing`, `CallbacksKeepTheirServer`. `LifecycleInv` says
that what is held is a prefix of `Steps` fixed by where `start()` or `stop()` is
(`HeldByPhase`), that a loop, an admitted callback or a tick under way keeps what
it uses (`LoopHeld`, `ClientsHeld`, `TickHeld`), which epoch is enabled
(`Enabled`) and that the gauge is reset (`GaugeReset`).

**Encoder and feeder** (`RtspFeederProofs`), for any number of frames, encoder
generations and sources. `ServedAfterItsKeyframe`, `TimestampsAreExact`,
`SourcesStartDecodable`, `UnitsOfferedInOrder`. `FeederInv` says where units can
be: those of the present generation in the pipeline, in the sink, with the
output thread, in the queue or with the feeder, in this order and each in one
place; that a sample with a PTS carries the offset of its frame from the base the
input thread stored, or a guess for an earlier frame; that the base is the
generation's first frame (`SamplesTimed`); and that the gate remembers the last
unit offered, so that what it lets through continues it. `TimestampsAreExact` has
the two exceptions of the code: no PTS, and a frame earlier than the first.
`SourcesStartDecodable` is about what passes the gate, the units of which no
buffer is made included: it is their numbering that has no gaps, and the appsrc's
has one for each of them.

The NAL scan is proved in the same module. `ScanAlwaysMatchesHeaders`: for byte
strings of any bytes and any length from four, in which no NAL header is zero,
the scan reports what the set of all headers says. What the scan finds from an
offset on is `FoundFrom`, by induction from the end of the data towards its
beginning; `FoundBehind` is the step that jumps behind a header, and where a
header of zero would hide a start code.

**Inference** (`InferenceWorkerProofs`), for any frames. `EverySessionEnds`: the
sessions open on a DMA-BUF are as many as its occurrences in `synchronized`, a
counting argument over a sequence that grows and shrinks at its end.
`InfersTheFrameItHolds`: the buffers used from frame to frame show the frame in
hand once a step that depends on it is reached.

`ReadsAlwaysInSession` and `ReadsAlwaysWholePictures` hold for pictures of any
size in any buffers of `BufferLayout`. That set says only what the C++ types do:
offsets, lengths, `bytesused` and `frame_size` are `unsigned`, descriptors are
among `Fds`. `ReadInv` relates the worker's queue of descriptors to the planes of
the view it holds: those synchronized and those still to come are together
`UniqueFds`, each once. The rest is about `I420` alone. `WholePicture` states in
numbers without bounds when a buffer holds its picture; `CopyableMeans`,
`HoldsPictureMeans` and `CompactMeans` show that the code's checks, in which sums
and products wrap, and the definition by samples both come to that;
`CopyIsPicture` and `MappingIsPicture` that the bytes then read are the picture,
sample by sample. That `frame_size` is `unsigned` is needed:
`inspectCompactI420()` asks that it cover the whole picture, and only for that
reason does `height * 3`, computed in `unsigned` for the matrix laid over the
mapping, not wrap. `InstanceReads` carries both theorems over to the instance of
the run.

`RawBufferAlwaysShowsPicture`: for the same buffers, `makeRawBuffer()` wraps every
picture, and where `Adjoin` holds every sample is at the place the video meta
gives. Planes of one DMA-BUF (`SharedShowsPicture`) may lie anywhere in it;
planes apart (`ApartShowsPicture`) need that each is as long as its rows.

`SuppressionAlwaysKeepsTheLikeliest`: for detections with any boxes and classes,
lists of any length and any threshold. What is marked stays marked
(`MarkingGrows`), a mark has a cause that is itself left (`MarkedBy`), and
overlap is symmetric (`OverlapSymmetric`), so that of two that overlap the later
one is gone.

The assumptions are those of the code: positive retention, byte limit, pre- and
post-roll and queue capacity; at least four requests and buffers; a last epoch;
`size_t` no narrower than `unsigned`; and that the bounds of the instances are
numbers. TLC evaluates them in every run.

Only model-checked are the liveness properties (`StopDrains`,
`FramesKeepFlowing`, `UndisturbedRecoveryResumes`, `FailureHandled` and those of
`rtsp_lifecycle`): fairness and ENABLED are out of the prover's reach.

## Plan

Modelled, in this order: ring, recorder, writer, camera pipeline, RTSP recovery,
encoder and feeder, RTSP lifecycle, inference with its picture layouts. Proved:
every safety invariant the runs check, as listed above. What remains, in the
order of its worth:

1. The order in which mutexes are nested, in `RtspServer` above all, where
   handlers, the worker and `stop()` take several: a model of its own, of locks
   and not of medias.
2. More of the action properties and of the orders between handlers as theorems:
   what a late callback of an old RTSP epoch may still do, and the order of
   teardown in `main()`.

## Not modelled

- Configuration of libcamera and `main()`'s arguments: a sequence of calls or
  tests before any thread exists, each of which ends the program on failure.
- Letterboxing, restoring of boxes and conversion to tensors: floating-point
  functions without state; TLA+ has no floating point, and with exact fractions
  they would hold by algebra.
- The MNN and OpenVINO backends: wrappers around libraries.
- JPEG, MP4 and JSON contents, pixel values.
- Metrics and logging, except counters that other code reads and the session
  gauge; which of its reasons `inspectCompactI420()` gives for a refusal.
- Test hooks, scripts, deployment and the zero-copy demo, a program of its own.
