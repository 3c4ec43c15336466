# TLA+ models of rtspGrpcServer

The server turns camera streams (RTSP or Hikvision SDK) into frames that gRPC
clients fetch, or that processes on the same host read from shared memory. This
directory holds TLA+ models of its concurrent core, TLC configurations that
check them on small instances, and proofs checked by TLAPS. Line numbers refer
to the sources beside this directory (`src/`); `PROJECT.json` maps every
definition to the lines it models.

1. [The system](#the-system) – inventory
2. [Modules](#modules) – what models what
3. [Runs](#runs) – what is checked, bounds, fairness
4. [Findings](#findings) – where code and documentation disagree, and known deviations
5. [Proofs](#proofs)
6. [Not modelled](#not-modelled)
7. [Plan](#plan)

## The system

### Components, their state and operations

| component | state | operations | interacts through |
|---|---|---|---|
| `RTSPServiceImpl` (`rtsp_service.cpp`) | `streams_` (id → task), `url_to_id_`, clean-up thread, `map_mutex_` | StartStream, StopStream, UpdateStream, GetLatestFrame, StreamFrames, CheckStream, ListStreams, `cleanupLoop` | calls `start/stop/updateUrl/switchDecoder` of tasks outside `map_mutex_` |
| `StreamTask` (`stream_task.cpp`) | `running_`, `stopped_`, IO thread, decoder and pending decoder, pending URL, `compute_scheduled_`, `compute_in_flight_`, SHM channel, frame cache | `start`, `ioLoop`/`stepIO`, `stepCompute`, `stop`, `updateUrl`, `switchDecoder`, `waitForNextFrame`, destructor | `decoder_mutex_`, `frame_mutex_`, `compute_done_mutex_`, compute pool |
| thread pools (`thread_pool.hpp`, `task_scheduler.hpp`) | one pool for the CPU and one per GPU: `running_`, queue, workers | `getComputePool`, `enqueue`, worker loop, `shutdown`, destructor | runs `stepCompute` through a `weak_ptr`; `mtx_` and `cv_` of each pool |
| `ZeroCopyChannel` (`zero_copy_channel.hpp`) | a POSIX shared-memory object: `head_idx` and a ring of slots with sequence numbers | create, `write_frame_raw`, `cleanup` | memory shared with other processes, a semaphore |
| `_ShmReader` (`client/remote_capture.py`) | a mapping, its identity and layout, `_last_idx` | `connect`, `_maybe_reconnect`, `retrieve` | the same memory |
| frame cache (in `StreamTask`) | `latest_encoded_frame_`, `frame_seq_` | publication, `waitForNextFrame`, `getLatestEncodedFrame` | `frame_mutex_`, `frame_cv_`; polled by GetLatestFrame, pushed by StreamFrames |
| decoders (`hik_decoder`, `cpu_decoder`, `cuda_decoder`) | login or demuxer, frames held back, counters, the cached picture | `open`, `grab`, `retrieve`, `getEncodedFrame`, `release` | called under `decoder_mutex_` |
| `main.cpp` | server, service, scheduler | start, signal, ordered shutdown | `Shutdown()`, destructor of the service |
| Python client (`remote_capture.py`) | channel, original → current stream ids | calls with retry, reconnect, stream restart | gRPC |
| encoders, CUDA, parsers, logging, web console, tools | – | conversions, I/O, user interface | – |

### What is hard about it

* **Four kinds of threads in one stream.** The creating handler, the IO thread,
  the pool's workers and any thread that calls `stop()`. `running_` is read
  without a lock everywhere; `stop()` must not free the decoder or the shared
  memory under a running compute job, must not join itself, and waits on a
  condition variable whose notifier does not hold its mutex.
* **Check-then-act across `map_mutex_`.** StartStream releases the lock between
  look-up, insertion and `start()`; UpdateStream compares with the address in
  use, not the pending one; the clean-up thread and StopStream race for the same
  stream, which may also stop itself from its IO thread.
* **Deferred switches.** `updateUrl()` and `switchDecoder()` only leave a note;
  a compute job may be between retrieve and publish of an old frame.
* **A seqlock ring between processes**, rebuilt under the same path when frames
  grow, read by a consumer that may stall anywhere.
* **A clock as a sequence number.** `frame_seq_` is a wall clock in ms, moved by
  the IO thread, the job and `updateUrl()`.
* **Shutdown order** of server, service, clean-up thread, streams and pools.
* **Retries on several clocks.** Grace period, back-off, offline limit and forced
  reopening act on one stream, while an update resets some of them.
* **A decoder shared by two threads.** What one `grab()` left for a waiting job,
  the next one, a drop or a reopening takes away.
* **A server that forgets.** The client library starts lost streams again, from
  several threads, over calls that may get no answer.

`PROJECT.json` lists the hazards one by one, each at its line, with the property
that covers it or the reason why none does yet.

### What makes each component correct

* *Stream task*: one compute job at a time; nothing is torn down under a job;
  after `stop()` nothing stays mapped, open or cached; the thread and the
  `compute_scheduled_` flag are never lost; `stop()` returns; no frame of an old
  address after a switch.
* *Service*: each stream is removed by one thread; address index and registry
  agree; no stream runs that nobody can stop; no two streams of one address;
  streams that gave up disappear; shutdown ends and leaves nothing running.
* *Shared memory*: what a reader accepts is one frame; it never falls behind for
  good, not even across a rebuild; time does not run backwards.
* *Frame cache*: no lost wake-up; frames go forward; timestamps are not earlier
  than the frame; calls end with the stream.
* *Decoders and reconnection*: a picture belongs to the address in use and is
  the latest one; counters of the same frames agree; a stream is given up after
  the offline limit, not before, and a dead camera is given up some day.
* *Process*: a stream that runs finds its pool; nothing outlives `main()`; no set
  of threads waits for each other once a signal has come.
* *Client library*: a lost stream is replaced, by one stream, for good.

## Modules

| module | models | built on |
|---|---|---|
| `StreamTask` | one `StreamTask` object with all its threads, from construction to destruction | implements `StreamLife` |
| `MCStreamTask` | symmetry for TLC | `StreamTask` |
| `StreamTaskProofs` | proofs of the invariants of `StreamTask` | `StreamTask`, `TLAPS` |
| `StreamLife` | abstract: what one stream promises to those who use it; implemented by `StreamTask`, by each stream of `ServerProcess`, and step by step by `FrameDelivery` | – |
| `StreamLifeProofs` | proof that `StreamTask` implements `StreamLife` | `StreamTaskProofs` |
| `StreamService` | the service: registry, handlers, clean-up thread, shutdown; several streams, each reduced to its interface | – |
| `MCStreamService` | model-checking wrapper | `StreamService` |
| `StreamServiceProofs` | proofs of the invariants of `StreamService` | `StreamService`, `TLAPS` |
| `ShmChannel` | `ZeroCopyChannel` and the Python `_ShmReader` over shared memory | – |
| `ShmChannelProofs` | proofs of the safety properties of `ShmChannel` | `ShmChannel`, `TLAPS` |
| `FrameDelivery` | the JPEG frame cache, its writers, StreamFrames and GetLatestFrame | `StreamLife` for its steps |
| `FrameDeliveryProofs` | proofs of the invariants of `FrameDelivery` | `FrameDelivery`, `TLAPS` |
| `HikDecoder`, `CpuDecoder`, `CudaDecoder` | the three decoder classes: each call an operator from a decoder to its outcomes | – |
| `CameraLink` | one stream and its camera: opening, back-off, grace period, giving up, updates, the job's retrieve | instances of the three decoders |
| `CameraLinkProofs` | proofs of the safety properties of `CameraLink` and its decoders | `CameraLink`, `TLAPS` |
| `ThreadPool` | the pools and what an operation does to them | – |
| `ServerProcess` | all threads of the process from service to the return of `main()` | `ThreadPool`; `StreamLife` once for each stream |
| `MCServerProcess` | pools and workers of the run, symmetry | `ServerProcess` |
| `ServerProcessProofs` | proofs of the invariants of `ServerProcess` and `ThreadPool` | `ServerProcess`, `TLAPS` |
| `ClientRestart` | the client library's restart of lost streams | – |
| `ClientRestartProofs` | proof that no stream of the client strays | `ClientRestart`, `TLAPS` |

Conventions. Variables carry the names of the fields they stand for. A variable
ending in `pc` is the progress of a thread; an action is a stretch of code
between two points where another thread can see or disturb what happens: an
access to an atomic, a lock, an unlock, a wait. A definition marked `Mutant` is a
plausible bug that breaks one of the properties; no specification uses it.
Bounds are constants named `Max...` and appear in guards.

### StreamTask

`start()` is four steps (compare-and-set of `running_`, the reset of flags,
thread creation, assignment of the handle) because it runs without a lock and
`stop()` can meet it anywhere; the new thread enters its loop in a step of its
own (`IoEnter`), if the stream is still there. `IoStep` is `stepIO()`: lock, apply
what is pending, open if needed, grab (whose statistics of corrupted frames may
ask for a new opening), dispatch or drop. The dispatch is two accesses: the last
test of `running_` (`IoTestRunning`) and the compare-and-set of
`compute_scheduled_` (`IoDispatch`); a `stop()` between them does not keep that
frame back. `JobStep(w)` is the lambda in
the pool with `stepCompute()`: test, count, test again, lock, retrieve, publish
to the cache or to shared memory, uncount, notify, clear the flag. `StopStep(t)`
is `stop()` in its phases, for each calling thread and for the IO thread itself.
`Forget` and `Destroy` are the end of the last `shared_ptr` and the destructor.
The wait in `stop()` is split into test, block, and wake-up, because
`compute_done_cv_` is notified without `compute_done_mutex_`.

`lifePhase`, `decoderUser` and the expression for `published` are the refinement
mapping to `StreamLife`: the life of a stream ends with the `stop()` that won the
compare-and-set, what it has published is the cached frame or the channel, and
its decoder is in use inside the sections of `decoder_mutex_`. Every action of a
thread is one abstract step or none.

`StopCanGo`, `IoCanGo` and `JobCanGo` say where each thread can take its next step
without waiting for another (`GoesOnIfItCan` compares them with `ENABLED`), and
`WorkLeft` counts the steps that are left once `running_` is cleared: those of
`start()`, of the IO thread to the end of its loop, of the one job that is queued,
runs, or may still be dispatched because its frame was tested before, and of the
`stop()` that won. `StopNeverStuck` and `StopNearsItsEnd`
together are what is true of the claim that `stop()` returns (finding 1), without
an assumption on the scheduler but that it goes on running threads.

### StreamService

StartStream is `look-up → build → insert → start` with the lock released in
between; UpdateStream is `look-up → compare → switchDecoder or updateUrl` with
the part on `url_to_id_`; StopStream is `erase → stop`; the clean-up thread
collects under the lock and stops after releasing it. Streams are reduced to
their address, decoder class, pending change and the flags `running`/`stopped`;
their IO threads apply changes and give up. `stop()` is assumed to return (see
finding 1). `Main*` is the shutdown of `main.cpp`: `Shutdown()` waits for the
handlers, then the service is destroyed.

### ShmChannel

The producer writes one field per step: sequence odd, two halves of the
metadata, two halves of the payload, sequence even, `head_idx`. The reader
(`retrieve()`) loads `head_idx`, the sequence, the metadata, the sequence again,
and then copies the payload. When a frame does not fit, the producer unlinks the
object, creates another under the same path, sizes it and starts anew; the
reader probes the path for identity and size and maps again. Objects have
different sizes because they are rebuilt only to grow.

### FrameDelivery

Takes over two facts that `StreamTask` establishes – one compute job at a time,
and `stop()` waits for it – and models what happens to the cache in detail: the
IO thread's timestamp (written between grab and dispatch under `decoder_mutex_`),
the job that retrieves, publishes and notifies, `updateUrl`/`switchDecoder`,
the second clearing by the IO thread, `stop()`, and any number of StreamFrames
(`Loop`, `Wait`, `Expire`, `ReturnEmpty`, `ReturnFrame`) and GetLatestFrame calls
(`PollFrame`, `PollSeq`: two separate reads in the code). `max_fps` is left out: what
a handler sends is among what it is handed. `StepsOfALife` maps the
writers of the cache and `stop()` to `StreamLife`, which `StreamTask` implements
too.

### CameraLink and the decoders

`StreamTask` leaves open how long things take and what a decoder does; this
module fixes both and makes a step of what a thread does under `decoder_mutex_`.
A decoder is a record with the fields that decide its later answers:

* `HikDecoder`: the address of the login, the JPEG buffer (`whole`, or `padded`
  when it is longer than its picture), the picture decoded before, and whether
  the next capture is the first after a login. `Open` keeps a login to the same
  address; `Grab` may fail in either of its two captures.
* `CpuDecoder`: the frames the codec has ready and holds back, and whether the
  frame handed out is still unconsumed.
* `CudaDecoder`: `decoded_frames_available_`, `m_nDecodedFrame` and
  `m_nDecodedFrameReturned`, and the error flag that ends a session.

A picture is reduced to its address, whether it is the latest, and whether it is
whole. The camera is live, mute (connects but sends nothing) or dead, and changes
at will. Instants are kept as distances – time since the first failure, time
left of the grace period – so that time itself is unbounded; `MarkFailure`,
`ShouldGiveUp` and `Backoff` are the functions of the same names. The job holds
the lock only for its retrieve, so it can be overtaken by any number of grabs
(`overtaken` remembers it for the properties).

### ThreadPool and ServerProcess

`ThreadPool` has an operator for each stretch of `thread_pool.hpp` between two
accesses to `mtx_`: the worker's test and its wait are two steps, the push and
the notification too, and the destructor clears, notifies and joins.
`ServerProcess` puts the threads around it: handlers, the clean-up thread, each
stream's IO thread (`IoLookup` is `getComputePool()`, which throws when the pool
is gone, `IoPush` is `enqueue()`, which throws when it is stopped), jobs, the four
steps of `start()` in the handler that has registered the stream (`StartCas`,
`StartReset`, `StartSpawn`, `StartAssign`), the
callers of `stop()`, and `main()` from the signal through `Shutdown()`, the
destructor of the service and `TaskScheduler::shutdown()` to its return.
`joinable` says whether `io_thread_` stands for a thread: a `stop()` that comes
before `StartAssign` joins nothing, and the thread ends some time later by itself
(`Unjoined`); such streams, and those nobody stops (`Orphan`), are what the
properties of the shutdown except (`Unattended`). Of a
stream it keeps only what the shutdown depends on, which is enough for it to live
as `StreamLife` says (`lifePhase`, `decoderUser`). `WorkerCanGo`, `StopCanGo`,
`HandlerCanGo`, `IoCanGo`, `JanitorCanGo` and `MainCanGo` say where each thread can
take its next step. A reference to a pool that has
been destroyed is undefined behaviour: `IoPushTooLate` may crash the process.

### ClientRestart

One read is `_restart_stream_if_needed()` – look up the map, ask for the status,
look again, start, compare with the map (`Looks`), write the map (`Stores`) or
stop what is redundant – and then GetLatestFrame; other threads, `stop_stream()`, `update_stream_url()` and the
server act in between. Between the look (1310) and the store (1323) the code holds
no lock: `overwritten` remembers the entries that this race writes over. The
application begins no read after it has called
`stop_stream()`; the ones under way go on.
The server forgets all its streams (a restart, or a heartbeat that ran out) and
may be down for a while. A call that gets no answer may still have been carried
out.

## Runs

| run | instance | shows |
|---|---|---|
| `StreamTaskSafety` | 2 addresses, 2 workers, 2 stoppers beside the IO thread | one job at a time, nothing torn down under it, nothing left behind by `stop()` |
| `StreamTaskLive` | 1 address, 1 worker, 1 stopper, fair | the stream implements `StreamLife`, the dispatch flag is always cleared again, the IO thread ends after a stop; `stop()` is never stuck but by a missed notification, and every step brings it nearer to its end |
| `StreamTaskStopHangs` | as `StreamTaskLive` | **violated**: `stop()` need not return (finding 1) |
| `StreamServiceSafety` | 2 addresses (one Hikvision), 2 ids, 2 handlers, 1 update, fair | one remover per stream, exact index, clean shutdown; given-up streams are removed and the shutdown ends |
| `StreamServiceDecoder` | 3 addresses, 2 updates | **violated** (finding 2) |
| `ShmChannelSafety` | 3 slots, 6 frames, 3 objects, fair | metadata never torn, slot of the head ready, back by at most one frame, last frame seen |
| `FrameDeliverySafety` | 1 push call, 1 poll call, 3 frames, 3 instants, 1 update, fair | no lost wake-up, no frame backdated, frames go forward, only one of the same millisecond is withheld, calls end |
| `CameraLinkCheck` | 1 streaming and 2 Hikvision addresses, both other decoders, JPEG and shared memory, times 1, 1, 2, 2, 3, streams that may and that may not be given up, fair | pictures of the right address, frames found unless overtaken, whole JPEGs, counters in range, giving up in time and not before |
| `CameraLinkOldPicture` | 1 Hikvision address, shared memory | **violated** (finding 3) |
| `ServerProcess` | 2 streams, the CPU's pool with 2 workers, 1 eventful stream | jobs find their pool and are not slept over, the flag stands for one job, nothing outlives `main()`, no deadlock, each stream implements `StreamLife` |
| `ClientRestart` | 2 readers, 2 losses, 1 call without answer, 1 stop or update, fair | no stray stream but one whose entry a race wrote over, and none stays; recovery from the first loss |
| `ClientRestartTwice` | 1 reader, 2 losses | **violated** (finding 4) |

**Why the bounds are enough.** Two workers and one job at a time is the most the
code allows if `OneComputeJob` holds, and one more than it allows if not; two
stoppers beside the IO thread give every pair of racing callers of `stop()`. The
registry properties speak of pairs of streams, addresses and handlers, so two of
each are needed; a stream that was removed can be followed by one other of the
same address.
Three slots is the code's `SHM_SLOT_COUNT`; six frames go round the ring twice
and three objects give two rebuilds in a row. StreamFrames calls do not
influence each other or the stream, so one is enough. Three instants allow a frame
before, at and after an update, and two frames in one of them. Symmetry is used
for safety properties only.
In `CameraLink` what matters is the order of the times, not their values:
`GraceRetry` 1 ≤ `BaseDelay` 1 < `MaxDelay` 2 = `Grace` 2 < `OfflineLimit` 3 for
100 ms, 500 ms, 30 s, 30 s and 60 s; only the first two, pauses both, fall together; `Shifted` is the table of `1 << shift`, whose
shift the code cuts at 6, and failures are counted as far as the delay grows; the jitter of the back-off rounds to nothing
in such numbers, and the variable length of calls stands in for it: a decoder
call takes no time or one unit. Two Hikvision addresses are needed to tell a kept
login from a wrong one, and a burst larger than the cache to overflow it. In
`ServerProcess` the machine has no GPU and two streams share the CPU's pool of two
workers: with two jobs under way a notification may come before a worker sleeps,
wake the one or the other, or find the queue emptied by the one that is awake.
`MaxEventful` 1 bounds the streams that clients stop or watch, that time out
(`JanitorCollects`) or are given up; to the one stream all of this may happen, in
any order, between the steps of its `start()` and of the shutdown, so that a
handler or the clean-up thread stops it in the middle of its `start()`. The other
one starts and runs until `main()` stops it, also while the first is being torn
down. Two streams torn down at once by two other threads are left to the theorems,
too: the threads share nothing but the pool. Several pools, and the order in
which they are destroyed, are left to the theorems, which hold for any number of
GPUs. Spurious wake-ups of workers are left out: they would only hide lost ones.
`ClientRestart` needs two losses for an entry of the map that is itself lost, and
two threads for a redundant stream; an update or a stop, but not both (`MaxOthers`
1), because its properties end with `stop_stream()`; its eleven ids are enough
never to be reused while somebody holds one (`IdAssumption`; the code's are
UUIDs).

**Fairness.** Threads that can run are run (weak fairness); a thread that waits
for `decoder_mutex_` gets it (strong fairness), because its competitor, the IO
thread, sleeps at least a millisecond between two iterations and drops the lock
while it does. `wait_until()` and the client's probe have deadlines. In `CameraLink` threads run and time passes; in
`ClientRestart` threads go on reading and the server comes back; its losses and
unanswered calls are bounded. `ServerProcess` states no fairness: that nobody is
stuck (`ShutdownNeverStuck`, and `StopNeverStuck` of a single stream) is an
invariant over the guards of the threads, and `GoesOnIfItCan` checks that a thread
whose guard holds is `ENABLED`. Nothing forces a request, a frame, a cancellation, a camera failure or a signal, and no
spurious wake-up is counted on. `CHECK_DEADLOCK FALSE` is set where the modelled
program ends: a destroyed stream, a stream that gave up or was stopped by its
application, a server after its
signal, a producer at its bound of frames, `main()` after its return.

## Findings

Each is a run that TLC refutes, of a property that a text of the repository
states; `PROJECT.json` quotes the texts.

1. `StopReturns`: the compute job decrements `compute_in_flight_` and notifies
   without holding `compute_done_mutex_`. Between the test and the wait of
   `stop()` the notification is lost, and `stop()`, with the gRPC handler or the
   clean-up thread that called it, waits for ever.
2. `DecoderFitsUrl`: UpdateStream compares the needed decoder with the one in
   use. Two updates in a row leave a decoder that does not fit the address.
3. `PictureIsLatest`: in shared-memory mode `HikDecoder::retrieve()` decodes the
   captured JPEG only while `last_frame_` is empty, and only `release()` empties
   it. Every frame of a login after the first is the first picture again.
4. `Recovers`: the client library takes any entry of its map that is neither the
   original nor the new id for another thread's restart. After a second loss it
   is the dead replacement of the first: each new stream is stopped as redundant
   and the dead id read, for ever. `RecoversFromFirstLoss` is what does hold.
   The test is not even exact while it works: the map is read at 1310 and written
   at 1323 without a lock. Two threads that restart at once may both see the
   original there; after one has stored its stream, and the server has lost that
   too and given the other thread's restart a new one, the later store writes a
   dead stream over a live one. That one runs on with nobody holding it
   (`overwritten` in `NoStrayStream`), until the next restart is handed it by the
   server and maps or stops it (`StraysAreFound`).

### Known deviations

Five more properties are stated in the modules beside a text of the repository
that claims them, and do not hold of the code. They are in no run; adding one
to the cfg of its module's passing run gives the counterexample (`NoOrphan` and
the next one may need a second handler or a third id).

* `StreamTask!NoStaleFrame` (`src/stream_task.cpp:437`; README.md:335
  "切换时自动清空旧帧缓存，避免首帧残留"): the second clearing of the cache, when the
  IO thread applies a change, does not wait for a job that has retrieved its
  frame and not yet published it.
* `StreamService!NoOrphan` (`src/rtsp_service.cpp:286`, the reply at 321):
  StopStream between the registration of a stream and its `start()` finds
  `running_` false, does nothing and answers success; the stream then starts and
  belongs to nobody. `ServerProcess` excepts such streams by name (`Orphan`).
* `StreamService!NoDuplicateStream` (`src/rtsp_service.cpp:310`, the comment at
  710 "防止重复"): StopStream erases the index at the address in use while an
  accepted update has moved the entry; what is left lets a second stream of one
  address in.
* `ShmChannel!NoTornPayload` (`client/remote_capture.py:608`; README.md:620
  "读 v2 (Double-check 防止并发写覆盖)"): the sequence is checked before the payload
  is copied and not after.
* `FrameDelivery!WaitsForNewFrame` (`src/stream_task.cpp:1215`, the comment at
  1269): after UpdateStream the cache is empty and its timestamp newer than any
  client's, so `waitForNextFrame()` returns at once and StreamFrames spins until
  the new address has a frame.

### Remarks

What the models show and no text of the repository rules out, or only in part:

* A streaming camera that takes connections and sends nothing is never given up,
  because every opening counts as a sign of life (`Alive` in `IoOpen`): it is reopened
  about every 30 seconds. `DeadCameraGivenUp` speaks of a dead camera for this
  reason. The comment at `src/cuvid_decoder.cpp:388` expects an exponential back-off
  after a broken NVDEC session; the opening in between starts the count anew.
* A job that ends calls `scheduleNext(0)` and so cuts short a back-off the IO
  thread is in (`JobEnds`).
* `Shutdown()` has no deadline: one StreamFrames client that stays can hold up
  the process (`Watched` in `ShutdownNeverStuck`).
* A stream that is stopping itself when it is removed has detached its IO
  thread; `main()` does not wait for it, although the comment at
  `src/main.cpp:255` wants every decoder released by then (`stop_by = "self"` in
  `NothingOutlivesMain`).
* A stream that is stopped between `running_ = true` and the assignment of
  `io_thread_` (`stream_task.cpp:294` to 306) is not joined by anybody: `stop()`
  finds no thread, tears down and returns, while the IO thread may be past its
  last test of `running_`, opens the decoder again, or comes to a pool that is
  gone, where `getComputePool()` or `enqueue()` throws, leaves `compute_scheduled_`
  set, or is undefined. `Unjoined` is the exception for it in
  `PoolOutlivesStreams`, `FlagStandsForOneJob` and `NothingOutlivesMain`;
  `StopReleasesDecoder` of `StreamTask` excepts it too (`io_thread = "none"`).
* `stop_stream()` of the client library that meets a restart drops the map entry
  of a stream it did not stop; the heartbeat ends it (`NoStrayStream` speaks of
  the time before).
* After `update_stream_url()` a read takes the original id and not the mapped one
  (`params` in `Enters`): if the stream had been restarted before, reads fail for
  ever although the stream it moved is alive (`Forsaken`). And a thread that
  fetched the parameters before they were forgotten may restart the stream with
  the old address, which the comment at `client/remote_capture.py:1380` wants to
  rule out; the moved stream and the new one then run beside each other (`moved`
  in `NoStrayStream`).

## Proofs

Every safety invariant and every action property of the passing runs is a
theorem, for all values of the constants, except `GoesOnIfItCan` of `StreamTask` and
of `ServerProcess`, which speak of `ENABLED`. TLC checked each inductive invariant on
the instance of the run before it was proved. Most type invariants,
`WritesMappedShm`, `DecoderExclusive`, `FrameCountsAgree` and `StepsOfALife` are
theorems that no run repeats.
None of the properties but a few type invariants is inductive by itself; what has
to be added is the argument why the code is right, and is told here.

| module | theorem | property |
|---|---|---|
| `StreamTaskProofs` | `TypeCorrect` | `TypeOK` |
| | `OneJob` | `OneComputeJob` |
| | `TeardownSafe`, `WritesAreMapped` | `NoTeardownUnderCompute`, `WritesMappedShm` |
| | `StopIsFinal`, `DecoderReleased` | `StopLeavesNothing`, `StopReleasesDecoder` |
| | `DecoderMutex` | `DecoderExclusive` |
| | `StopIsNeverStuck`, `StopIsNearing` | `StopNeverStuck`, `StopNearsItsEnd` |
| `StreamLifeProofs` | `Refinement` | `Implements` |
| `StreamServiceProofs` | `TypeCorrect` | `TypeOK` |
| | `StoppedByOne`, `IndexIsExact`, `QuietAfterShutdown` | `OneRemover`, `IndexExact`, `QuietWhenDown` |
| `ShmChannelProofs` | `TypeCorrect` | `TypeOK` |
| | `MetaWhole`, `HeadReadable`, `TimeGoesOn` | `MetaNotTorn`, `HeadSlotReady`, `BackByAtMostOne` |
| `FrameDeliveryProofs` | `TypeCorrect` | `TypeOK` |
| | `WakeupsArrive`, `StampsNotEarly`, `InOrder` | `NoLostWakeup`, `NeverBackdated`, `FramesGoForward` |
| | `OnlyTwins`, `CacheKeepsToLife` | `OnlyTwinsAreHidden`, `StepsOfALife` |
| `CameraLinkProofs` | `TypeCorrect` | `TypeOK` |
| | `CountsStayEqual`, `NoForeignPicture` | `FrameCountsAgree`, `PictureOfAddress` |
| | `JobFindsItsFrame`, `NoTailAfterSuccess` | `NothingOnlyIfOvertaken`, `PaddedOnlyAfterFailure` |
| | `GivenUpInTime` | `GivesUpOnlyWhenOffline` |
| `ServerProcessProofs` | `TypeCorrect` | `TypeOK` |
| | `PoolIsThereInTime`, `FlagIsOneJob` | `PoolOutlivesStreams`, `FlagStandsForOneJob` |
| | `MainLeavesNothing`, `ShutdownGoesOn` | `NothingOutlivesMain`, `ShutdownNeverStuck` |
| | `NoTaskIsSleptOver` | `NoTaskSleptOver` |
| | `StreamsOfTheProcessLive` | `StreamsLive` |
| `ClientRestartProofs` | `NothingStrays` | `NoStrayStream` |

All modules are laid out alike: the parts of the inductive invariant `IInv`; the
facts about data the steps need; `InitIInv`; one lemma for each part of `IInv`, or
for each thread, with a step for each action that can disturb it; `Invariance`
(`Spec => []IInv`); the theorems.

### StreamTask

For every number of addresses, workers and stoppers; assumed is only that the sets
of threads are disjoint and that the empty cache is not an address. That nothing
is torn down under a job rests on a protocol of three variables: a job counts
itself *between* two tests of `running_`, and `stop()` clears `running_` before
it waits for the count to be zero. `IInv` says what each party may assume:
`MutexInv` (who is inside `decoder_mutex_` holds it), `JobInv` (as long as a job
is queued or running, the flag is set and there is only that one), `FlightInv`
(the count is the number of counted jobs), `StartInv` (which flags go with which
step of `start()`), `StopInv` (one thread at a time is past the compare-and-set
of `stop()`, and while it tears down no job is past its second test), and
`HandleInv` (when the handle of the IO thread may be joined).

`StopIsNeverStuck` goes through what a `stop()` waits for. `decoder_mutex_` is held
by the IO thread or by a job inside their sections, where both can go on. The IO
thread it joins is in no `stop()` of its own that could wait, because there is one
winner. The job it is to be told by is counted, and if that job waits, then for
`decoder_mutex_`. `StopIsNearing` has a lemma for each thread (`StartNears`,
`IoNears`, `GiveUpNears`, `JobNears`, `StopNears`), each of which compares
`WorkLeft` before and after a step; `CountJobs` and `OneWinner` say that `WorkLeft`
counts the one job and the one winner. A frame whose last test of `running_` came
before `stop()` may still be dispatched after it, so that place counts for all the
job has to do; no second frame can follow. Not in the theorem are the steps that are
not the stream's own: an update and a second caller of `stop()` leave `WorkLeft` as
it is, a spurious wake-up adds the two steps back to the wait.

### StreamLife

`Refinement`: `StreamTask` implements `StreamLife` for every number of threads
and addresses. To `IInv` it adds `LifeInv`: nothing runs before `start()` or
after the destructor, and only a `stop()` that won ends a stream. One lemma for
each group of actions (`StartLife`, `IoLife`, `JobLife`, `StopLife`,
`UpdateLife`, `DestroyLife`) then shows that a step is an abstract step or leaves
phase, published and user as they are.

### StreamService

For any addresses (at least one, `UrlAssumption`), identifiers, handlers and
updates. A stream changes hands outside `map_mutex_`: `RemovalInv` says that who
is about to stop a stream has it alone, it has left the registry and is on no
other list; `FreshInv` that a stream which is built and not yet inserted is known
to its handler only, so that the second test of the address is made on the whole truth;
`UntouchedInv` that without an update a stream plays the address it was built
for; `ShutdownInv` is the order in which the service goes down. `IndexExact` is
inductive together with these, and speaks of the time before an update, because
after one it does not hold (`NoDuplicateStream` above).

### ShmChannel

For any number of frames and objects and at least two slots (`SlotAssumption`;
with one slot the head would be the slot being written). The sequence of a slot
is odd exactly while the producer is between its two increments, and what lies
under an even sequence is of one frame (`SlotInv`, `ProgressInv`). `ReaderInv`
relates the reader's first load to the memory: sequences never go down, so if the
value is still the same at the second load, nothing was written in between and
what was copied is what is there. `HeadInv` puts `head_idx` one write behind, so
that the slot it names and the one being written are neighbours, and different
(`NeighbourSlots`). `OrderInv` (frames grow with the objects, and within an
object none is more than one ahead of the head) and `SeenInv` (whatever the
reader does next, what it comes to is at most one frame behind what it has) give
the action property `TimeGoesOn`, across rebuilds too.

### FrameDelivery

For every number of calls and every bound on frames, time and updates.
`NeverBackdated` is what remains true of the timestamps: one can be later than
its frame's arrival, because the job reads the IO thread's latest value, and
never earlier. Assumed is that push and poll calls are distinct and that the time
bound is positive. To the properties `IInv` adds `StopInv` (`running_` is lowered
by the first step of `stop()` and never raised again, so a call that still sees
it raised is told by the notification at the end of `stop()`), `ClockInv` (no
frame arrived after the last grab, no grab lies in the future), `StampInv` (the
same for a GetLatestFrame call between its two reads), and `OrderInv` (a frame on
its way into the cache is later than all that was published or handed out, and what a
call has not yet taken from the cache it was not handed before).

`OnlyTwinsAreHidden` says what a wall clock as a sequence number costs while it is
not set back. It needs `TwinInv`: what the decoder holds arrived at the last grab,
and no stamp in the cache or with a call is later than that, so a frame on its way
into the cache is at least as young as each of them. `CacheKeepsToLife` needs
`DoneInv`, that `stop()` ends after the job.

### CameraLink and the decoders

For any addresses and any limits. The reconnection logic works with three
classes through one interface, so the proof goes in two halves. `ReleasedFacts`,
`OpenFacts`, `GrabFacts`, `DropFacts` and `TakeFacts` say what each call promises
whatever the class; they are proved class by class, from lemmas such as
`HikOpen`. The invariant then uses nothing of the classes but these. `DecoderInv`:
the decoder is a good one of its class, for CUDA with equal counts; while the last
grab succeeded it holds no JPEG with a tail; and a queued job that was not
overtaken will find something. `AddressInv`: an open decoder is connected to the
address in use, except that an update keeps a login of the device SDK until the
IO thread, under the same lock, opens again (`Reopening`) – the exception is what
the property would break on if `force_reopen_` were lost. `ClockInv`: the time
offline is never longer than the time since the last sign of life, so a stream
that is given up was quiet for the whole limit. Assumed are positive times,
`GraceRetry` not longer than `MaxDelay`, and `BaseDelay` reaching `MaxDelay` at the
bound on failures (`TimeAssumption`), and that an address is of the SDK or of RTSP, not both
(`DecoderAssumption`).

### ServerProcess and ThreadPool

For any number of streams, GPUs and workers, each pool with at least one worker
(`PoolAssumption`: `main.cpp` replaces a thread count of zero) and clients that
may ask for any GPU; the sets of streams and workers are finite
(`ProcessAssumption`). `IInv` has three parts.

* *The order of the shutdown.* `PoolsInv`: until `main()` reaches the scheduler
  all pools are there and running, then those of the GPUs go from the first to
  the last and the CPU's is the last (`DyingFacts`). `WorkersInv`: a worker that
  has ended leaves a stopped pool with an empty queue. `ShutdownInv`: after the
  server no call is open, after the clean-up thread it is gone, after the service
  no stream is listed.
* *Who stops a stream* (`StreamsInv`). A stream that is not running any more has
  one stopper, and until that one is done it keeps hold of it: the handler its
  call, the clean-up thread its list, `main()` the registry. So when `main()` is at
  the pools nobody holds anything, hence each stopper is done, hence it has joined
  the IO thread (`TeardownInv`): no thread is left that could want a pool
  (`PoolIsThere`). What it joins is there if `io_thread_` has been assigned:
  `LifeInv` ties `joinable` to the end of `start()`. The exceptions are streams
  nobody stops (`Orphan`) and those whose `stop()` came before the assignment
  (`Unjoined`); `UnattendedStays` says that a stream does not leave this state, so
  the properties except no stream that is ever looked after again.
* *Where the one job of a stream is* (`JobsInv`): with the IO thread, in a queue,
  or with a worker, in one of them at most, in the pool the stream asks for, and
  somewhere while the flag is set. That a job does not vanish on the way uses the
  second part (`IoJobStep` cites `PoolIsThere`). `TailKeeps` and `AppendKeeps` are
  the facts on queues.

Three further theorems rest on `IInv` and on invariants of their own.

* *Nobody is stuck* (`ShutdownGoesOn`). `GoingInv` says for each thing a thread
  waits for why it comes. `MutexInv`: a pool's `mtx_` is held only by a worker on
  its way into the wait, which found the pool running and its queue empty; this is
  what `running_` cleared without the mutex would break. `ClosingInv`: the pool
  being destroyed is the only stopped one, and once `main()` joins none of its
  workers sleeps, because the notification came after the flag. `WaitsInv`: whom a
  `stop()` joins has been started and is in no `stop()` but its own, and behind
  the wait no job is counted. `ManagerInv`: the clean-up thread is told to end
  before it is joined. `StopperGoes` follows a thread inside `stop()`, `OneByOne` one
  with a list of streams to stop, `PoolsGo` the destructor; `NobodyStuck` puts them
  together, from whatever `main()` waits for down to a thread that can go on.
* *No job is slept over* (`NoTaskIsSleptOver`). Each push owes a notification, and
  a notification wakes a sleeper if there is one: while somebody sleeps, there are
  at least as many awake workers and notifications to come as jobs (`Served`). A
  worker that takes a job takes itself and the job from the two sides, and one
  that goes to sleep saw the queue empty under `mtx_` (`MutexInv`).
* *Each stream lives as `StreamLife` says* (`StreamsOfTheProcessLive`). `EveryEffect`
  sorts all steps of the process by what they do to one stream (`EffectOn`), and
  `EffectIsLife` maps each sort to a step of `StreamLife` or none.

### ClientRestart

For any number of threads, losses and unanswered calls. `NoStrayStream` is almost
inductive. A thread holds a started stream exactly until it has chosen
(`FreshInv`); the server runs one stream for an address (`OneUnmoved`), so
whoever starts again while one is alive gets that one; and a thread that
overwrites the original in the map overwrites a dead one (`OriginalInv`). What it
may overwrite besides is the entry another thread made after it looked
(`StoresStep`): the property names it, `overwritten`, and it leaves that set when
its stream ends or is handed out again.
`IdAssumption` says that identifiers do not run out: with too few of them the
model could not start a stream the code would.

### Only model-checked

Liveness (`ScheduledFlagCleared`, `IoThreadEnds`, `GivenUpRemoved`,
`ShutdownEnds`, `LastFrameSeen`, `CallsEnd`, `DeadCameraGivenUp`,
`RecoversFromFirstLoss`, `StraysAreFound`) and `GoesOnIfItCan`, which uses `ENABLED`, are out
of the prover's reach. What could be said of them without fairness is proved:
`StopNeverStuck` and `StopNearsItsEnd` of `stop()`, `ShutdownNeverStuck` of the
shutdown; that threads which can go on do so is left to the scheduler. The
violations are counterexamples, for TLC to find.

## Not modelled

* Codec, CUDA and Hikvision SDK calls: a grab, an encode or an open succeeds or
  fails by choice. The build with the Hikvision SDK is assumed; the downgrade to
  the CPU decoder of a build without CUDA is left out.
* Times outside `CameraLink`: heartbeats, and in `StreamTask` back-off, grace
  period and offline limit, may or may not have passed whenever the code tests
  them. In `FrameDelivery` the wall clock is explicit and is assumed not to be
  set back.
* The timer scheduler: the server starts and stops it and schedules nothing.
* In the client library `stream_frames()` and the cache of shared-memory readers.
* Weak memory: accesses are sequentially consistent, as the x86-64 images make
  those that matter.
* Several consumers of one shared-memory object do not disturb each other except
  through the semaphore, which only delays them; one is modelled. `grab()` of
  the Python reader repeats the tests of `retrieve()`.
* Statistics (frame rate, glitch ratio, media drift), logging, formatting, the
  web console, the HTTP gateway, tools and example scripts.
* An exception while shared memory is created (`/dev/shm` full) closes the
  object again; a retry that creates an object of the same size as a failed one
  is not told apart by size.
* Code without behaviour of its own: of about 50 000 lines, 40 000 are vendored
  or generated (`nlohmann/json.hpp`, the NVDEC headers, `stream_service.pb.*`),
  and most of the rest that is not mapped converts pixels, encodes JPEG, parses
  bit streams, keeps statistics, logs, or serves the web page and the tools. The
  models cover the code that keeps state and meets other threads or processes.

## Plan

Done, most important behaviour first: `StreamTask` and the proofs of its
invariants; `StreamService`; `ShmChannel`; `FrameDelivery` and its proofs;
`StreamLife` and the proof that `StreamTask` implements it; the decoders and
`CameraLink`; `ThreadPool` and `ServerProcess`; `ClientRestart`; the end of `stop()`,
without fairness; the refinements by `ServerProcess` and `FrameDelivery`.

Proved: every safety invariant, every action property and both refinements of the
passing runs, but for the two `GoesOnIfItCan`.

Left out on purpose: a refinement of `StreamLife` by the streams of
`StreamService`. Its state cannot tell a stream that was stopped while it was being
started from one that lost the insertion, so the mapping would need history that
the code does not keep; `ServerProcess`, where the same streams are started and
stopped by the same handlers, has it.

To be proved, if it is to go further: a measure like `WorkLeft` for the whole
shutdown, as a sum over all streams and queues, so that `ShutdownNeverStuck` bounds
its length too.

To be modelled, if it is to go further: CheckStream, ListStreams and
`stream_frames()` of the client library; GetShmLayout and the cache of readers.
