----------------------------- MODULE StreamTask -----------------------------
(***************************************************************************)
(* One stream of the server: class StreamTask (include/stream_task.hpp,    *)
(* src/stream_task.cpp).  Four kinds of threads meet in it:                *)
(*                                                                         *)
(*   - the thread that creates the stream and calls start();               *)
(*   - its IO thread (ioLoop/stepIO), which opens the decoder, grabs       *)
(*     frames and dispatches compute jobs;                                 *)
(*   - the pool workers, which run the dispatched job (stepCompute) and    *)
(*     publish the frame in shared memory or in the JPEG frame cache;      *)
(*   - the gRPC handlers and the clean-up thread of the service, which     *)
(*     call stop(), updateUrl() and switchDecoder().                       *)
(*                                                                         *)
(* A step ends where another thread can observe or disturb what the code   *)
(* does next: at every access to an atomic flag, at every lock and unlock, *)
(* and between the phases of stop().                                       *)
(*                                                                         *)
(* Time is abstracted: the tests on the grace period, the offline limit,   *)
(* the decode interval and the back-off sleep may go either way.  `status' *)
(* stands for the pair (status_, connected_).                              *)
(***************************************************************************)
EXTENDS Naturals

CONSTANTS
  Url,       (* stream addresses, rtsp:// or hik://                          *)
  Worker,    (* threads of the compute pool                                  *)
  Stopper,   (* gRPC and clean-up threads, each calls stop() at most once    *)
  IO,        (* the IO thread of the stream                                  *)
  NoThread,  (* a mutex nobody holds                                         *)
  NoFrame    (* the empty frame cache                                        *)

ASSUME ThreadAssumption ==
  /\ Worker \cap Stopper = {}
  /\ IO \notin Worker \cup Stopper
  /\ NoThread \notin Worker \cup Stopper \cup {IO}

ASSUME FrameAssumption == NoFrame \notin Url

(***************************************************************************)
(* Decoder classes as the stream tells them apart: "rtsp" for the FFmpeg   *)
(* and NVCUVID decoders, which stepIO releases on a URL change or a failed *)
(* grab, "hik" for HikDecoder, which keeps its login in both cases.        *)
(***************************************************************************)
Kind == {"rtsp", "hik"}

releaseOnUrlChange(kind)   == kind = "rtsp"
releaseOnGrabFailure(kind) == kind = "rtsp"

StopThread == Stopper \cup {IO}

VARIABLES
  running,            (* running_                                            *)
  stopped,            (* stopped_                                            *)
  io_thread,          (* what the handle io_thread_ says                     *)
  start_pc,           (* progress of start()                                 *)
  io_pc,              (* progress of the IO thread                           *)
  stop_pc,            (* progress of stop(), per calling thread              *)
  job_pc,             (* progress of the pool workers with this stream's job *)
  job_frame,          (* the stream address whose frame the worker retrieved *)
  queued,             (* jobs of this stream waiting in the pool             *)
  compute_scheduled,  (* compute_scheduled_                                  *)
  compute_in_flight,  (* compute_in_flight_                                  *)
  decoder_mutex,      (* holder of decoder_mutex_                            *)
  url,                (* url_                                                *)
  pending_url,        (* pending_url_                                        *)
  pending_kind,       (* class of pending_decoder_                           *)
  url_changed,        (* url_changed_                                        *)
  decoder_changed,    (* decoder_changed_                                    *)
  force_reopen,       (* force_reopen_                                       *)
  decoder_kind,       (* class of decoder_                                   *)
  decoder_open,       (* decoder_->isOpened()                                *)
  decoder_url,        (* the address decoder_ was last opened with           *)
  latest,             (* latest_encoded_frame_, as the address it came from  *)
  shm,                (* shm_channel_                                        *)
  status,             (* status_                                             *)
  use_shared_mem,     (* use_shared_mem_, fixed at construction              *)
  owned,              (* the service still holds a shared_ptr to the stream  *)
  alive               (* ~StreamTask has not run                             *)

flags   == <<running, stopped>>
threads == <<io_thread, start_pc, io_pc, stop_pc>>
pool    == <<job_pc, job_frame, queued, compute_scheduled, compute_in_flight>>
switch  == <<url, pending_url, pending_kind, url_changed, decoder_changed,
             force_reopen>>
decoder == <<decoder_kind, decoder_open, decoder_url>>
output  == <<latest, shm>>
life    == <<use_shared_mem, owned, alive>>

vars == <<flags, threads, pool, decoder_mutex, switch, decoder, output, status,
          life>>

-----------------------------------------------------------------------------
(* The stream just built by StartStream: a closed decoder, nothing started. *)
Init ==
  /\ running = FALSE /\ stopped = FALSE
  /\ io_thread = "none"
  /\ start_pc = "cas" /\ io_pc = "none"
  /\ stop_pc = [t \in StopThread |-> "idle"]
  /\ job_pc = [w \in Worker |-> "idle"]
  /\ job_frame = [w \in Worker |-> NoFrame]
  /\ queued = 0
  /\ compute_scheduled = FALSE /\ compute_in_flight = 0
  /\ decoder_mutex = NoThread
  /\ url \in Url /\ pending_url = url
  /\ decoder_kind \in Kind /\ pending_kind = decoder_kind
  /\ url_changed = FALSE /\ decoder_changed = FALSE /\ force_reopen = FALSE
  /\ decoder_open = FALSE /\ decoder_url = url
  /\ latest = NoFrame /\ shm = "none"
  /\ status = "DISCONNECTED"
  /\ use_shared_mem \in BOOLEAN
  /\ owned = TRUE /\ alive = TRUE

-----------------------------------------------------------------------------
(***************************************************************************)
(* start(), called once, by the handler that inserted the stream in the    *)
(* service's maps: other handlers can already reach the stream.  The new   *)
(* thread runs before its handle is stored in io_thread_.                  *)
(***************************************************************************)
StartCas ==
  /\ start_pc = "cas"
  /\ running' = TRUE
  /\ start_pc' = "reset"
  /\ UNCHANGED <<stopped, io_thread, io_pc, stop_pc, pool, decoder_mutex,
                 switch, decoder, output, status, life>>

StartReset ==
  /\ start_pc = "reset"
  /\ stopped' = FALSE
  /\ status' = "CONNECTING"
  /\ start_pc' = "spawn"
  /\ UNCHANGED <<running, io_thread, io_pc, stop_pc, pool, decoder_mutex,
                 switch, decoder, output, life>>

StartSpawn ==
  /\ start_pc = "spawn"
  /\ io_pc' = "entering"
  /\ start_pc' = "assign"
  /\ UNCHANGED <<flags, io_thread, stop_pc, pool, decoder_mutex, switch,
                 decoder, output, status, life>>

StartAssign ==
  /\ start_pc = "assign"
  /\ io_thread' = "joinable"
  /\ start_pc' = "done"
  /\ UNCHANGED <<flags, io_pc, stop_pc, pool, decoder_mutex, switch, decoder,
                 output, status, life>>

Start == StartCas \/ StartReset \/ StartSpawn \/ StartAssign

-----------------------------------------------------------------------------
(***************************************************************************)
(* The IO thread holds a weak reference: it enters the loop only if the    *)
(* stream is still there (else see Destroy).  IoLoop is the test of        *)
(* running_ around and at the top of stepIO; the sleep between two         *)
(* iterations is bounded, so it only delays IoLoop.  From IoLock to an     *)
(* unlock the thread holds decoder_mutex_.                                 *)
(***************************************************************************)

IoEnter ==
  /\ io_pc = "entering" /\ alive
  /\ io_pc' = "loop"
  /\ UNCHANGED <<flags, io_thread, start_pc, stop_pc, pool, decoder_mutex,
                 switch, decoder, output, status, life>>

(* Mutant: the loop does not look at running_. *)
IoLoopForever ==
  /\ io_pc = "loop"
  /\ io_pc' = "lock"
  /\ UNCHANGED <<flags, io_thread, start_pc, stop_pc, pool, decoder_mutex,
                 switch, decoder, output, status, life>>

IoLoop ==
  /\ io_pc = "loop"
  /\ io_pc' = IF running THEN "lock" ELSE "done"
  /\ UNCHANGED <<flags, io_thread, start_pc, stop_pc, pool, decoder_mutex,
                 switch, decoder, output, status, life>>

(* A pending decoder replaces the current one and takes the pending url. *)
ApplyDecoderSwitch ==
  /\ decoder_changed
  /\ url' = pending_url
  /\ decoder_kind' = pending_kind
  /\ decoder_open' = FALSE
  /\ decoder_url' = pending_url
  /\ decoder_changed' = FALSE /\ url_changed' = FALSE
  /\ status' = "CONNECTING"
  /\ latest' = NoFrame
  /\ UNCHANGED force_reopen

(* A pending url alone releases the decoder or asks it to reopen. *)
ApplyUrlChange ==
  /\ ~decoder_changed /\ url_changed
  /\ url' = pending_url
  /\ url_changed' = FALSE
  /\ IF releaseOnUrlChange(decoder_kind)
       THEN decoder_open' = FALSE /\ UNCHANGED force_reopen
       ELSE force_reopen' = TRUE /\ UNCHANGED decoder_open
  /\ latest' = NoFrame
  /\ UNCHANGED <<decoder_changed, decoder_kind, decoder_url, status>>

NothingToApply ==
  /\ ~decoder_changed /\ ~url_changed
  /\ UNCHANGED <<url, url_changed, decoder_changed, force_reopen, decoder,
                 status, latest>>

IoLock ==
  /\ io_pc = "lock"
  /\ decoder_mutex = NoThread
  /\ decoder_mutex' = IO
  /\ ApplyDecoderSwitch \/ ApplyUrlChange \/ NothingToApply
  /\ io_pc' = "open"
  /\ UNCHANGED <<flags, io_thread, start_pc, stop_pc, pool, pending_url,
                 pending_kind, shm, life>>

(* Every early return of stepIO under the lock: unlock, back to the loop. *)
IoReturn ==
  /\ decoder_mutex' = NoThread
  /\ io_pc' = "loop"

(* Mutant: the IO thread calls stop() with decoder_mutex_ still locked. *)
IoGiveUpLocked ==
  /\ decoder_mutex' = IO
  /\ io_pc' = "stop"

(* shouldGiveUpReconnection(): unlock, then stop() from the IO thread. *)
IoGiveUp ==
  /\ decoder_mutex' = NoThread
  /\ io_pc' = "stop"

NeedOpen == ~decoder_open \/ force_reopen

(* force_reopen_ is consumed only when the decoder is open. *)
ConsumeReopen == force_reopen' = (force_reopen /\ ~decoder_open)

IoOpenSkipped ==
  /\ io_pc = "open" /\ ~NeedOpen
  /\ io_pc' = "grab"
  /\ UNCHANGED <<flags, io_thread, start_pc, stop_pc, pool, decoder_mutex,
                 switch, decoder, output, status, life>>

IoOpenGivesUp ==
  /\ io_pc = "open" /\ NeedOpen
  /\ ConsumeReopen
  /\ IoGiveUp
  /\ UNCHANGED <<flags, io_thread, start_pc, stop_pc, pool, url, pending_url,
                 pending_kind, url_changed, decoder_changed, decoder, output,
                 status, life>>

IoOpenSucceeds ==
  /\ io_pc = "open" /\ NeedOpen
  /\ ConsumeReopen
  /\ decoder_open' = TRUE /\ decoder_url' = url
  /\ status' = "CONNECTED"
  /\ io_pc' = "grab"
  /\ UNCHANGED <<flags, io_thread, start_pc, stop_pc, pool, decoder_mutex,
                 url, pending_url, pending_kind, url_changed, decoder_changed,
                 decoder_kind, output, life>>

(* HikDecoder::open() leaves the old login alone when it cannot parse the  *)
(* url, and logs out before a login that fails.                            *)
IoOpenFails ==
  /\ io_pc = "open" /\ NeedOpen
  /\ ConsumeReopen
  /\ decoder_open' \in IF decoder_kind = "hik" THEN {FALSE, decoder_open}
                                                ELSE {FALSE}
  /\ status' = "CONNECTING"
  /\ IoReturn
  /\ UNCHANGED <<flags, io_thread, start_pc, stop_pc, pool, url, pending_url,
                 pending_kind, url_changed, decoder_changed, decoder_kind,
                 decoder_url, output, life>>

(* Too many broken pictures for too long ask for a reopening. *)
IoGrabSucceeds ==
  /\ io_pc = "grab"
  /\ status' = "CONNECTED"
  /\ force_reopen' \in {force_reopen, TRUE}
  /\ io_pc' = "dispatch"
  /\ UNCHANGED <<flags, io_thread, start_pc, stop_pc, pool, decoder_mutex,
                 url, pending_url, pending_kind, url_changed, decoder_changed,
                 decoder, output, life>>

(* HikDecoder::grab() closes the decoder itself when its session is lost.  *)
OpenAfterFailedGrab ==
  IF decoder_kind = "hik" THEN {FALSE, decoder_open} ELSE {decoder_open}

(* A failed grab inside the first-frame grace period is only retried. *)
IoGrabFailsInGrace ==
  /\ io_pc = "grab"
  /\ decoder_open' \in OpenAfterFailedGrab
  /\ IoReturn
  /\ UNCHANGED <<flags, io_thread, start_pc, stop_pc, pool, switch,
                 decoder_kind, decoder_url, output, status, life>>

IoGrabFails ==
  /\ io_pc = "grab"
  /\ status' = "CONNECTING"
  /\ \/ /\ IoGiveUp
        /\ decoder_open' \in OpenAfterFailedGrab
     \/ /\ IoReturn
        /\ decoder_open' \in IF releaseOnGrabFailure(decoder_kind)
                              THEN {FALSE} ELSE OpenAfterFailedGrab
  /\ UNCHANGED <<flags, io_thread, start_pc, stop_pc, pool, switch,
                 decoder_kind, decoder_url, output, life>>

(* Dropped by the decode interval, or because the stream is stopped: the   *)
(* frame's last test of running_.                                          *)
IoDrop ==
  /\ io_pc = "dispatch"
  /\ IoReturn
  /\ UNCHANGED <<flags, io_thread, start_pc, stop_pc, pool, switch, decoder,
                 output, status, life>>

IoTestRunning ==
  /\ io_pc = "dispatch" /\ running
  /\ io_pc' = "claim"
  /\ UNCHANGED <<flags, io_thread, start_pc, stop_pc, pool, decoder_mutex,
                 switch, decoder, output, status, life>>

(* Dropped because the last job is not done. *)
IoDropBusy ==
  /\ io_pc = "claim" /\ compute_scheduled
  /\ IoReturn
  /\ UNCHANGED <<flags, io_thread, start_pc, stop_pc, pool, switch, decoder,
                 output, status, life>>

(* Mutant: the one-job flag is set without being tested. *)
IoDispatchUntested ==
  /\ io_pc = "claim"
  /\ compute_scheduled' = TRUE
  /\ decoder_mutex' = NoThread
  /\ io_pc' = "enqueue"
  /\ UNCHANGED <<flags, io_thread, start_pc, stop_pc, job_pc, job_frame,
                 queued, compute_in_flight, switch, decoder, output, status,
                 life>>

(* The one-job flag is taken, whatever stop() has done since the test.     *)
IoDispatch ==
  /\ io_pc = "claim" /\ ~compute_scheduled
  /\ compute_scheduled' = TRUE
  /\ decoder_mutex' = NoThread
  /\ io_pc' = "enqueue"
  /\ UNCHANGED <<flags, io_thread, start_pc, stop_pc, job_pc, job_frame,
                 queued, compute_in_flight, switch, decoder, output, status,
                 life>>

IoEnqueue ==
  /\ io_pc = "enqueue"
  /\ queued' = queued + 1
  /\ io_pc' = "loop"
  /\ UNCHANGED <<flags, io_thread, start_pc, stop_pc, job_pc, job_frame,
                 compute_scheduled, compute_in_flight, decoder_mutex, switch,
                 decoder, output, status, life>>

IoStopReturned ==
  /\ io_pc = "stop" /\ stop_pc[IO] \in {"noop", "done"}
  /\ io_pc' = "loop"
  /\ UNCHANGED <<flags, io_thread, start_pc, stop_pc, pool, decoder_mutex,
                 switch, decoder, output, status, life>>

IoStep ==
  \/ IoEnter \/ IoLoop \/ IoLock
  \/ IoOpenSkipped \/ IoOpenGivesUp \/ IoOpenSucceeds \/ IoOpenFails
  \/ IoGrabSucceeds \/ IoGrabFailsInGrace \/ IoGrabFails
  \/ IoDrop \/ IoTestRunning \/ IoDropBusy \/ IoDispatch \/ IoEnqueue
  \/ IoStopReturned

-----------------------------------------------------------------------------
(***************************************************************************)
(* The compute job, run by a pool worker.  It holds a shared_ptr to the    *)
(* stream from JobDequeue to JobEnd; if the stream is gone it just ends.   *)
(***************************************************************************)
JobGoes(w, from, to) ==
  /\ job_pc[w] = from
  /\ job_pc' = [job_pc EXCEPT ![w] = to]

JobDequeue(w) ==
  /\ queued > 0
  /\ queued' = queued - 1
  /\ JobGoes(w, "idle", IF alive THEN "entered" ELSE "idle")
  /\ UNCHANGED <<flags, threads, job_frame, compute_scheduled,
                 compute_in_flight, decoder_mutex, switch, decoder, output,
                 status, life>>

(* Mutant: the early return is outside the scope of ScheduledGuard. *)
JobTestRunningUnguarded(w) ==
  /\ JobGoes(w, "entered", IF running THEN "counting" ELSE "idle")
  /\ UNCHANGED <<flags, threads, job_frame, queued, compute_scheduled,
                 compute_in_flight, decoder_mutex, switch, decoder, output,
                 status, life>>

(* The lambda returns at once when the stream is already stopping. *)
JobTestRunning(w) ==
  /\ JobGoes(w, "entered", IF running THEN "counting" ELSE "ending")
  /\ UNCHANGED <<flags, threads, job_frame, queued, compute_scheduled,
                 compute_in_flight, decoder_mutex, switch, decoder, output,
                 status, life>>

JobCount(w) ==
  /\ JobGoes(w, "counting", "retesting")
  /\ compute_in_flight' = compute_in_flight + 1
  /\ UNCHANGED <<flags, threads, job_frame, queued, compute_scheduled,
                 decoder_mutex, switch, decoder, output, status, life>>

(* Mutant: stepCompute() trusts the test made before the job was counted. *)
JobRetestSkipped(w) ==
  /\ JobGoes(w, "retesting", "locking")
  /\ UNCHANGED <<flags, threads, job_frame, queued, compute_scheduled,
                 compute_in_flight, decoder_mutex, switch, decoder, output,
                 status, life>>

(* stepCompute() tests running_ again, now that the job is counted. *)
JobRetestRunning(w) ==
  /\ JobGoes(w, "retesting", IF running THEN "locking" ELSE "uncounting")
  /\ UNCHANGED <<flags, threads, job_frame, queued, compute_scheduled,
                 compute_in_flight, decoder_mutex, switch, decoder, output,
                 status, life>>

JobLock(w) ==
  /\ decoder_mutex = NoThread
  /\ decoder_mutex' = w
  /\ JobGoes(w, "locking", "retrieving")
  /\ UNCHANGED <<flags, threads, job_frame, queued, compute_scheduled,
                 compute_in_flight, switch, decoder, output, status, life>>

(* A closed decoder or a failed retrieve ends the step; otherwise the lock *)
(* is given back before the frame is encoded or copied.                    *)
JobRetrieve(w) ==
  /\ decoder_mutex' = NoThread
  /\ \/ /\ JobGoes(w, "retrieving", "uncounting")
        /\ UNCHANGED job_frame
     \/ /\ decoder_open
        /\ JobGoes(w, "retrieving", "publishing")
        /\ job_frame' = [job_frame EXCEPT ![w] = decoder_url]
  /\ UNCHANGED <<flags, threads, queued, compute_scheduled,
                 compute_in_flight, switch, decoder, output, status, life>>

(* JPEG mode: the encoded frame replaces the cached one (frame_mutex_). *)
JobPublishJpeg(w) ==
  /\ ~use_shared_mem
  /\ JobGoes(w, "publishing", "uncounting")
  /\ latest' \in {latest, job_frame[w]}
  /\ UNCHANGED <<flags, threads, job_frame, queued, compute_scheduled,
                 compute_in_flight, decoder_mutex, switch, decoder, shm,
                 status, life>>

(* Shared-memory mode: ensureShmChannel() creates the channel, or builds a *)
(* larger one; a failure leaves the stream without a channel.              *)
JobEnsureShm(w) ==
  /\ use_shared_mem
  /\ \/ JobGoes(w, "publishing", "writing") /\ shm' = "mapped"
     \/ JobGoes(w, "publishing", "uncounting") /\ shm' = "none"
  /\ UNCHANGED <<flags, threads, job_frame, queued, compute_scheduled,
                 compute_in_flight, decoder_mutex, switch, decoder, latest,
                 status, life>>

JobWriteShm(w) ==
  /\ JobGoes(w, "writing", "uncounting")
  /\ UNCHANGED <<flags, threads, job_frame, queued, compute_scheduled,
                 compute_in_flight, decoder_mutex, switch, decoder, output,
                 status, life>>

JobUncount(w) ==
  /\ JobGoes(w, "uncounting", "notifying")
  /\ compute_in_flight' = compute_in_flight - 1
  /\ job_frame' = [job_frame EXCEPT ![w] = NoFrame]
  /\ UNCHANGED <<flags, threads, queued, compute_scheduled, decoder_mutex,
                 switch, decoder, output, status, life>>

(* notify_all() reaches the threads blocked on the condition variable only. *)
JobNotify(w) ==
  /\ JobGoes(w, "notifying", "ending")
  /\ stop_pc' = [t \in StopThread |->
                   IF stop_pc[t] = "blocked" THEN "testing" ELSE stop_pc[t]]
  /\ UNCHANGED <<flags, io_thread, start_pc, io_pc, job_frame, queued,
                 compute_scheduled, compute_in_flight, decoder_mutex, switch,
                 decoder, output, status, life>>

(* ScheduledGuard clears the one-job flag on every return path. *)
JobEnd(w) ==
  /\ JobGoes(w, "ending", "idle")
  /\ compute_scheduled' = FALSE
  /\ UNCHANGED <<flags, threads, job_frame, queued, compute_in_flight,
                 decoder_mutex, switch, decoder, output, status, life>>

JobStep(w) ==
  \/ JobDequeue(w) \/ JobTestRunning(w) \/ JobCount(w) \/ JobRetestRunning(w)
  \/ JobLock(w) \/ JobRetrieve(w) \/ JobPublishJpeg(w) \/ JobEnsureShm(w)
  \/ JobWriteShm(w) \/ JobUncount(w) \/ JobNotify(w) \/ JobEnd(w)

-----------------------------------------------------------------------------
(***************************************************************************)
(* stop(), called by a service thread or, to give up, by the IO thread.    *)
(* The first caller to find running_ set tears the stream down; the others *)
(* return at once.                                                         *)
(***************************************************************************)
StopGoes(t, from, to) ==
  /\ stop_pc[t] = from
  /\ stop_pc' = [stop_pc EXCEPT ![t] = to]

StopCas(t) ==
  /\ alive
  /\ t = IO => io_pc = "stop"
  /\ StopGoes(t, "idle", IF running THEN "joining" ELSE "noop")
  /\ running' = FALSE
  /\ UNCHANGED <<stopped, io_thread, start_pc, io_pc, pool, decoder_mutex,
                 switch, decoder, output, status, life>>

(* Mutant: every caller detaches the IO thread instead of joining it. *)
StopJoinDetaches(t) ==
  /\ io_thread' = IF io_thread = "joinable" THEN "detached" ELSE io_thread
  /\ StopGoes(t, "joining", "marking")
  /\ UNCHANGED <<flags, start_pc, io_pc, pool, decoder_mutex, switch,
                 decoder, output, status, life>>

(* Mutant: the IO thread joins itself. *)
StopJoinItself(t) ==
  /\ IF io_thread # "joinable" THEN UNCHANGED io_thread
     ELSE io_pc = "done" /\ io_thread' = "joined"
  /\ StopGoes(t, "joining", "marking")
  /\ UNCHANGED <<flags, start_pc, io_pc, pool, decoder_mutex, switch,
                 decoder, output, status, life>>

(* The IO thread detaches itself; any other thread waits for its end. *)
StopJoin(t) ==
  /\ IF io_thread # "joinable" THEN UNCHANGED io_thread
     ELSE IF t = IO THEN io_thread' = "detached"
     ELSE io_pc = "done" /\ io_thread' = "joined"
  /\ StopGoes(t, "joining", "marking")
  /\ UNCHANGED <<flags, start_pc, io_pc, pool, decoder_mutex, switch,
                 decoder, output, status, life>>

StopMark(t) ==
  /\ StopGoes(t, "marking", "testing")
  /\ stopped' = TRUE
  /\ UNCHANGED <<running, io_thread, start_pc, io_pc, pool, decoder_mutex,
                 switch, decoder, output, status, life>>

(* Mutant: stop() does not wait for the running job. *)
StopTestSkipped(t) ==
  /\ StopGoes(t, "testing", "dropping")
  /\ UNCHANGED <<flags, io_thread, start_pc, io_pc, pool, decoder_mutex,
                 switch, decoder, output, status, life>>

(***************************************************************************)
(* compute_done_cv_.wait(): test the predicate, then block.  The job       *)
(* changes the counter and notifies without compute_done_mutex_, so it can *)
(* do both between the test and the moment the caller blocks.  The         *)
(* standard library may also wake the caller for no reason.                *)
(***************************************************************************)
StopTest(t) ==
  /\ StopGoes(t, "testing", IF compute_in_flight = 0 THEN "dropping"
                                                     ELSE "blocking")
  /\ UNCHANGED <<flags, io_thread, start_pc, io_pc, pool, decoder_mutex,
                 switch, decoder, output, status, life>>

StopBlock(t) ==
  /\ StopGoes(t, "blocking", "blocked")
  /\ UNCHANGED <<flags, io_thread, start_pc, io_pc, pool, decoder_mutex,
                 switch, decoder, output, status, life>>

StopSpuriousWake(t) ==
  /\ StopGoes(t, "blocked", "testing")
  /\ UNCHANGED <<flags, io_thread, start_pc, io_pc, pool, decoder_mutex,
                 switch, decoder, output, status, life>>

StopDropFrame(t) ==
  /\ StopGoes(t, "dropping", "releasing")
  /\ latest' = NoFrame
  /\ UNCHANGED <<flags, io_thread, start_pc, io_pc, pool, decoder_mutex,
                 switch, decoder, shm, status, life>>

StopReleaseDecoder(t) ==
  /\ decoder_mutex = NoThread
  /\ StopGoes(t, "releasing", "cleaning")
  /\ decoder_open' = FALSE
  /\ UNCHANGED <<flags, io_thread, start_pc, io_pc, pool, decoder_mutex,
                 switch, decoder_kind, decoder_url, output, status, life>>

StopCleanShm(t) ==
  /\ StopGoes(t, "cleaning", "resetting")
  /\ shm' = "none"
  /\ UNCHANGED <<flags, io_thread, start_pc, io_pc, pool, decoder_mutex,
                 switch, decoder, latest, status, life>>

StopReset(t) ==
  /\ StopGoes(t, "resetting", "done")
  /\ status' = "DISCONNECTED"
  /\ UNCHANGED <<flags, io_thread, start_pc, io_pc, pool, decoder_mutex,
                 switch, decoder, output, life>>

StopProgress(t) ==
  \/ StopJoin(t) \/ StopMark(t) \/ StopTest(t) \/ StopBlock(t)
  \/ StopDropFrame(t) \/ StopReleaseDecoder(t) \/ StopCleanShm(t)
  \/ StopReset(t)

StopStep(t) == StopCas(t) \/ StopProgress(t) \/ StopSpuriousWake(t)

-----------------------------------------------------------------------------
(* A UpdateStream handler, on a shared_ptr it took from the service's map: *)
(* both calls run under decoder_mutex_ and empty the frame cache.          *)
updateUrl(u) ==
  /\ alive
  /\ decoder_mutex = NoThread
  /\ url # u
  /\ pending_url' = u
  /\ url_changed' = TRUE
  /\ status' = "CONNECTING"
  /\ latest' = NoFrame
  /\ UNCHANGED <<flags, threads, pool, decoder_mutex, url, pending_kind,
                 decoder_changed, force_reopen, decoder, shm, life>>

switchDecoder(kind, u) ==
  /\ alive
  /\ decoder_mutex = NoThread
  /\ pending_kind' = kind /\ pending_url' = u
  /\ decoder_changed' = TRUE
  /\ status' = "CONNECTING"
  /\ latest' = NoFrame
  /\ UNCHANGED <<flags, threads, pool, decoder_mutex, url, url_changed,
                 force_reopen, decoder, shm, life>>

UpdateStream ==
  \E u \in Url : updateUrl(u) \/ \E kind \in Kind : switchDecoder(kind, u)

(* The service erases the stream only after a stop() of its own returned. *)
Forget ==
  /\ owned
  /\ \E s \in Stopper : stop_pc[s] \in {"noop", "done"}
  /\ owned' = FALSE
  /\ UNCHANGED <<flags, threads, pool, decoder_mutex, switch, decoder,
                 output, status, use_shared_mem, alive>>

(* ~StreamTask runs when the last shared_ptr goes: the service's, the IO   *)
(* thread's, the worker's and those of the handlers inside stop().  Run by *)
(* the IO thread it detaches the handle instead of joining.  An IO thread  *)
(* that has not entered the loop finds the stream gone, ends and is joined.*)
Destroy ==
  /\ alive /\ ~owned
  /\ start_pc = "done" /\ io_pc \in {"entering", "done"}
  /\ \A w \in Worker : job_pc[w] = "idle"
  /\ \A t \in StopThread : stop_pc[t] \in {"idle", "noop", "done"}
  /\ alive' = FALSE
  /\ running' = FALSE
  /\ io_pc' = "done"
  /\ io_thread' \in IF io_thread # "joinable" THEN {io_thread}
                    ELSE IF io_pc = "entering" THEN {"joined"}
                    ELSE {"joined", "detached"}
  /\ shm' = "none" /\ latest' = NoFrame
  /\ decoder_open' = FALSE
  /\ UNCHANGED <<stopped, start_pc, stop_pc, pool, decoder_mutex,
                 switch, decoder_kind, decoder_url, status, use_shared_mem,
                 owned>>

-----------------------------------------------------------------------------
Next ==
  \/ Start
  \/ IoStep
  \/ \E w \in Worker : JobStep(w)
  \/ \E t \in StopThread : StopStep(t)
  \/ UpdateStream
  \/ Forget
  \/ Destroy

Spec == Init /\ [][Next]_vars

(***************************************************************************)
(* Fairness: the operating system runs every thread that can run, grabs    *)
(* and writes return (decoders have I/O timeouts), and a thread waiting    *)
(* for decoder_mutex_ gets it eventually, because the IO thread sleeps at  *)
(* least 1 ms between two iterations.  Nobody has to call stop(), and no   *)
(* spurious wake-up has to come.                                           *)
(***************************************************************************)
Fairness ==
  /\ WF_vars(Start)
  /\ WF_vars(IoStep) /\ SF_vars(IoLock)
  /\ \A w \in Worker : WF_vars(JobStep(w)) /\ SF_vars(JobLock(w))
  /\ \A t \in StopThread : /\ WF_vars(StopProgress(t))
                           /\ SF_vars(StopReleaseDecoder(t))
  /\ WF_vars(StopCas(IO))
  /\ WF_vars(Destroy)

FairSpec == Spec /\ Fairness

-----------------------------------------------------------------------------
(* Where a compute job is: taken from the pool and not finished, counted in *)
(* compute_in_flight_, and past the second test of running_, where it uses  *)
(* the decoder, the shared memory or the frame cache.                       *)
Active   == {"entered", "counting", "retesting", "locking", "retrieving",
             "publishing", "writing", "uncounting", "notifying", "ending"}
Counted  == {"retesting", "locking", "retrieving", "publishing", "writing",
             "uncounting"}
Touching == {"locking", "retrieving", "publishing", "writing"}

(* Where a stop() is: winner of running_, and past its wait. *)
Winning  == {"joining", "marking", "testing", "blocking", "blocked",
             "dropping", "releasing", "cleaning", "resetting", "done"}
Teardown == {"dropping", "releasing", "cleaning", "resetting", "done"}

FlagTypes ==
  /\ running \in BOOLEAN /\ stopped \in BOOLEAN
  /\ compute_scheduled \in BOOLEAN
  /\ url_changed \in BOOLEAN /\ decoder_changed \in BOOLEAN
  /\ force_reopen \in BOOLEAN /\ decoder_open \in BOOLEAN
  /\ use_shared_mem \in BOOLEAN
  /\ owned \in BOOLEAN /\ alive \in BOOLEAN

ThreadTypes ==
  /\ io_thread \in {"none", "joinable", "joined", "detached"}
  /\ start_pc \in {"cas", "reset", "spawn", "assign", "done"}
  /\ io_pc \in {"none", "entering", "loop", "lock", "open", "grab", "dispatch",
                "claim", "enqueue", "stop", "done"}
  /\ stop_pc \in [StopThread -> Winning \cup {"idle", "noop"}]
  /\ job_pc \in [Worker -> Active \cup {"idle"}]
  /\ queued \in Nat /\ compute_in_flight \in Nat
  /\ decoder_mutex \in Worker \cup {IO, NoThread}

DataTypes ==
  /\ url \in Url /\ pending_url \in Url /\ decoder_url \in Url
  /\ pending_kind \in Kind /\ decoder_kind \in Kind
  /\ job_frame \in [Worker -> Url \cup {NoFrame}]
  /\ latest \in Url \cup {NoFrame}
  /\ shm \in {"none", "mapped"}
  /\ status \in {"CONNECTING", "CONNECTED", "DISCONNECTED"}

(* Every variable keeps the type its C++ field or thread state has. *)
TypeOK == FlagTypes /\ ThreadTypes /\ DataTypes

(***************************************************************************)
(* At most one job of the stream is queued or running: reusable_frame_,    *)
(* which retrieve() overwrites, is never shared by two jobs.               *)
(***************************************************************************)
OneComputeJob ==
  /\ queued <= 1
  /\ \A w \in Worker : job_pc[w] \in Active =>
       queued = 0 /\ \A v \in Worker : job_pc[v] \in Active => v = w

(***************************************************************************)
(* Once stop() is past its wait no job uses the decoder, writes the shared *)
(* memory or publishes a frame any more: the channel is never unmapped     *)
(* under write_frame_raw(), although a job can be dequeued at any time.    *)
(***************************************************************************)
NoTeardownUnderCompute ==
  \A t \in StopThread, w \in Worker :
    stop_pc[t] \in Teardown => job_pc[w] \notin Touching

(* A job writes only into a channel that exists. *)
WritesMappedShm ==
  \A w \in Worker : job_pc[w] = "writing" => shm = "mapped"

(***************************************************************************)
(* A stop() that did the work leaves no shared-memory object and no cached *)
(* frame behind, and nothing brings them back, even when it overlapped     *)
(* start() and never saw the IO thread.                                    *)
(***************************************************************************)
StopLeavesNothing ==
  \A t \in StopThread :
    stop_pc[t] = "done" => shm = "none" /\ latest = NoFrame

(***************************************************************************)
(* If stop() joined or detached the IO thread, the decoder stays closed    *)
(* and the stream is never reported CONNECTED afterwards.                  *)
(***************************************************************************)
StopReleasesDecoder ==
  \A t \in StopThread :
    alive /\ stop_pc[t] = "done" /\ io_thread \in {"joined", "detached"}
      => ~decoder_open /\ status # "CONNECTED"

(***************************************************************************)
(* The decoder is never used by a job while the IO thread opens it, grabs  *)
(* from it or replaces it.                                                 *)
(***************************************************************************)
DecoderExclusive ==
  \A w \in Worker :
    job_pc[w] = "retrieving" => io_pc \notin {"open", "grab", "dispatch", "claim"}

-----------------------------------------------------------------------------
(***************************************************************************)
(* stop() comes to an end, said without fairness.  First, where each       *)
(* thread can take its next step.                                          *)
(***************************************************************************)
Stopping(t) == stop_pc[t] \in Winning \ {"done"}

StopCanGo(t) ==
  \/ stop_pc[t] \in {"marking", "testing", "blocking", "dropping", "cleaning",
                     "resetting"}
  \/ stop_pc[t] = "joining" /\ (io_thread # "joinable" \/ t = IO \/ io_pc = "done")
  \/ stop_pc[t] = "releasing" /\ decoder_mutex = NoThread

IoCanGo ==
  \/ io_pc \in {"loop", "open", "grab", "dispatch", "claim", "enqueue"}
  \/ io_pc = "entering" /\ alive
  \/ io_pc = "lock" /\ decoder_mutex = NoThread
  \/ io_pc = "stop" /\ stop_pc[IO] \in {"idle", "noop", "done"}

JobCanGo(w) ==
  \/ job_pc[w] \in Active \ {"locking"}
  \/ job_pc[w] = "locking" /\ decoder_mutex = NoThread

(* The caller sleeps, and the job that was to wake it has gone by. *)
MissedNotification(t) == stop_pc[t] = "blocked" /\ compute_in_flight = 0

(***************************************************************************)
(* The join of the IO thread, decoder_mutex_ and the wait for the job      *)
(* never close a circle: while a stop() is under way it can go on, or the  *)
(* IO thread or a job can, unless it has missed its notification.          *)
(***************************************************************************)
StopNeverStuck ==
  \A t \in StopThread : Stopping(t) =>
    \/ StopCanGo(t) \/ IoCanGo \/ \E w \in Worker : JobCanGo(w)
    \/ MissedNotification(t)

(* No lock, handle or flag holds up a thread that waits for nobody: in     *)
(* particular the IO thread that stops its own stream does not wait for    *)
(* its own end.                                                            *)
GoesOnIfItCan ==
  /\ \A t \in StopThread : StopCanGo(t) => ENABLED StopProgress(t)
  /\ IoCanGo => ENABLED (IoStep \/ StopCas(IO))
  /\ \A w \in Worker : JobCanGo(w) => ENABLED JobStep(w)

(***************************************************************************)
(* What the threads have left to do once running_ is cleared, in steps.    *)
(* A frame that has passed its last test of running_ ("claim") counts for  *)
(* the job it may still queue, a notification for the steps of stop() back *)
(* to its wait, and a give-up for the stop() it calls.                     *)
(***************************************************************************)
StartLeft == [reset |-> 5, spawn |-> 4, assign |-> 1, done |-> 0]
IoLeft    == [none |-> 0, done |-> 0, loop |-> 1, entering |-> 2,
              dispatch |-> 2, stop |-> 3, grab |-> 4, open |-> 5, lock |-> 6,
              enqueue |-> 15, claim |-> 16]
JobLeft   == [ending |-> 1, notifying |-> 4, uncounting |-> 5, writing |-> 6,
              publishing |-> 7, retrieving |-> 8, locking |-> 9,
              retesting |-> 10, counting |-> 11, entered |-> 12]
StopLeft  == [joining |-> 9, marking |-> 8, testing |-> 7, blocking |-> 6,
              blocked |-> 5, dropping |-> 4, releasing |-> 3, cleaning |-> 2,
              resetting |-> 1, done |-> 0]

The(S)  == CHOOSE x \in S : TRUE
Runners == {w \in Worker : job_pc[w] \in Active}
Winners == {t \in StopThread : stop_pc[t] \in Winning}

JobsLeft ==
  13 * queued + IF Runners = {} THEN 0 ELSE JobLeft[job_pc[The(Runners)]]

WorkLeft ==
  StartLeft[start_pc] + IoLeft[io_pc] + (IF stop_pc[IO] = "idle" THEN 1 ELSE 0)
  + JobsLeft + StopLeft[stop_pc[The(Winners)]]

(***************************************************************************)
(* While a stop() is under way, every step of start(), the IO thread, a    *)
(* job or stop() leaves less to do: nothing is started again, no frame is  *)
(* dispatched but the one the IO thread may have tested for by then, and   *)
(* nobody goes round a loop.  With StopNeverStuck it follows that stop()   *)
(* returns if its notification is not missed.                              *)
(***************************************************************************)
GoesOn == \/ Start \/ IoStep \/ StopCas(IO)
          \/ \E w \in Worker : JobStep(w)
          \/ \E t \in StopThread : StopProgress(t)

StopNearsItsEnd ==
  [][GoesOn /\ (\E t \in StopThread : Stopping(t)) => WorkLeft' < WorkLeft]_vars

-----------------------------------------------------------------------------
(***************************************************************************)
(* The inductive invariant behind the safety properties, by theme.         *)
(***************************************************************************)

(* decoder_mutex_ is held exactly by the thread inside its section. *)
MutexInv ==
  /\ io_pc \in {"open", "grab", "dispatch", "claim"} <=> decoder_mutex = IO
  /\ \A w \in Worker : job_pc[w] = "retrieving" <=> decoder_mutex = w

(* compute_scheduled_ is up from the dispatch to the end of the job. *)
JobInv ==
  /\ OneComputeJob
  /\ io_pc = "enqueue" =>
       queued = 0 /\ \A w \in Worker : job_pc[w] \notin Active
  /\ ~compute_scheduled =>
       /\ io_pc # "enqueue" /\ queued = 0
       /\ \A w \in Worker : job_pc[w] \notin Active

(* compute_in_flight_ counts the one job that is past its increment. *)
FlightInv ==
  /\ (\E w \in Worker : job_pc[w] \in Counted) => compute_in_flight = 1
  /\ (\A w \in Worker : job_pc[w] \notin Counted) => compute_in_flight = 0

(* start() runs once: after it, running_ can only go down. *)
StartInv ==
  /\ start_pc = "cas" =>
       ~running /\ \A t \in StopThread : stop_pc[t] \notin Winning
  /\ io_pc # "none" <=> start_pc \in {"assign", "done"}
  /\ io_thread # "none" <=> start_pc = "done"

(* One caller wins stop(); what it has torn down stays torn down. *)
StopInv ==
  /\ \A t \in StopThread : stop_pc[t] \in Winning => ~running
  /\ \A s, t \in StopThread :
       stop_pc[s] \in Winning /\ stop_pc[t] \in Winning => s = t
  /\ stop_pc[IO] # "idle" => ~running /\ io_pc \in {"stop", "loop", "done"}
  /\ stop_pc[IO] \in Winning \ {"done"} => io_pc = "stop"
  /\ NoTeardownUnderCompute
  /\ \A t \in StopThread :
       /\ stop_pc[t] \in Teardown \ {"dropping"} => latest = NoFrame
       /\ stop_pc[t] \in {"resetting", "done"} => shm = "none"

(* A joined or detached IO thread uses the decoder no more, nor does one   *)
(* whose stream is gone.                                                   *)
HandleInv ==
  /\ ~alive => io_pc = "done"
  /\ io_pc = "done" => ~running
  /\ io_thread = "joined" => io_pc = "done"
  /\ io_thread = "detached" => ~running /\ io_pc \in {"stop", "loop", "done"}
  /\ \A t \in StopThread :
       alive /\ io_thread \in {"joined", "detached"}
             /\ stop_pc[t] \in {"cleaning", "resetting", "done"}
         => ~decoder_open
  /\ StopReleasesDecoder

IInv == /\ TypeOK /\ MutexInv /\ JobInv /\ FlightInv /\ StartInv
        /\ StopInv /\ HandleInv /\ WritesMappedShm

-----------------------------------------------------------------------------
(***************************************************************************)
(* The stream as the service sees it (StreamLife).  Its life ends with the *)
(* winning stop(); what it has published is the cached frame or the        *)
(* channel; its decoder is in use inside the sections of decoder_mutex_.   *)
(***************************************************************************)
lifePhase ==
  IF ~alive THEN "gone"
  ELSE IF start_pc = "cas" THEN "created"
  ELSE IF running THEN "running"
  ELSE IF \E t \in StopThread : stop_pc[t] \in {"resetting", "done"}
  THEN "stopped" ELSE "stopping"

decoderUser ==
  IF \E w \in Worker : job_pc[w] = "retrieving" THEN "job"
  ELSE IF io_pc \in {"open", "grab", "dispatch", "claim"} THEN "io" ELSE "nobody"

Life == INSTANCE StreamLife
          WITH phase <- lifePhase,
               published <- (latest # NoFrame \/ shm = "mapped"),
               user <- decoderUser

(***************************************************************************)
(* All the threads together do what StreamLife promises: in particular no  *)
(* order of start(), jobs, updates and stop() calls makes the stream       *)
(* publish, or a job reach the decoder, after its stop().                  *)
(***************************************************************************)
Implements == Life!Spec

-----------------------------------------------------------------------------
(***************************************************************************)
(* The one-job flag is always cleared again, or the stream would drop all  *)
(* its frames for ever (comment in the compute lambda of stepIO).          *)
(***************************************************************************)
ScheduledFlagCleared ==
  compute_scheduled ~> (~compute_scheduled \/ ~alive)

(***************************************************************************)
(* Once running_ is cleared the IO thread ends, unless it is itself stuck  *)
(* in the wait of stop() (see StopReturns).                                *)
(***************************************************************************)
IoThreadEnds ==
  (start_pc = "done" /\ ~running)
    ~> (io_pc = "done" \/ stop_pc[IO] = "blocked")

(***************************************************************************)
(* What the comment above compute_in_flight_-- claims: the decrement       *)
(* guarantees that stop() does not wait for ever.                          *)
(***************************************************************************)
StopReturns ==
  \A t \in StopThread : stop_pc[t] = "joining" ~> stop_pc[t] = "done"

(***************************************************************************)
(* What README.md says of UpdateStream and the comments of stepIO repeat:  *)
(* once the switch has been applied the cache holds no frame of the old    *)
(* address.                                                                *)
(***************************************************************************)
NoStaleFrame ==
  alive /\ ~url_changed /\ ~decoder_changed => latest \in {NoFrame, url}

=============================================================================
