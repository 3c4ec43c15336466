----------------------------- MODULE CameraLink -----------------------------
(***************************************************************************)
(* One stream and its camera: how StreamTask::stepIO() (src/stream_task.cpp)*)
(* opens, grabs, backs off, re-opens and gives up, over the three decoder  *)
(* classes, with what UpdateStream and the compute job do to the same      *)
(* decoder.  StreamTask has the threads and the locks in detail and leaves *)
(* time and cameras open; here the tests on times are made, the decoders   *)
(* are the ones of DecoderFactory, and a step is what a thread does while  *)
(* it holds decoder_mutex_.                                                *)
(*                                                                         *)
(* Times are counted in coarse units: the code's 100 ms, 500 ms, 30 s and  *)
(* 60 s are in the order of the constants that stand for them, neighbours  *)
(* of which may be equal.  Instants are kept as the time since or until    *)
(* them, so that time itself is unbounded.                                 *)
(***************************************************************************)
EXTENDS Integers, Sequences

CONSTANTS
  RtspUrl,      (* addresses of cameras that stream                          *)
  HikUrl,       (* addresses parseHikUrl() accepts                           *)
  NoAddress,
  Saved,        (* decoder types a request may name: subset of cpu, cuda     *)
  SharedMem,    (* values use_shared_mem_ may have                           *)
  KeepOnFailure, (* values keep_on_failure_ may have                         *)
  MaxBurst, MaxCache,
  GraceRetry,   (* 100 ms: pause after a failure in the grace period         *)
  BaseDelay,    (* 500 ms: first back-off                                    *)
  MaxDelay,     (* 30 s: longest back-off                                    *)
  Grace,        (* FIRST_FRAME_GRACE_PERIOD_MS                               *)
  OfflineLimit, (* MAX_OFFLINE_MS                                            *)
  MaxFailures   (* failures are counted up to here; MaxDelay is reached      *)

(* 1 << shift of the back-off, whose shift is 6 at most. *)
Shifted == <<1, 2, 4, 8, 16, 32, 64>>

ASSUME TimeAssumption ==
  /\ {GraceRetry, BaseDelay, MaxDelay, Grace, OfflineLimit} \subseteq Nat \ {0}
  /\ GraceRetry <= MaxDelay
  /\ MaxFailures \in 1 .. Len(Shifted)
  /\ BaseDelay * Shifted[MaxFailures] >= MaxDelay

ASSUME DecoderAssumption ==
  /\ RtspUrl \cap HikUrl = {}
  /\ Saved \subseteq {"cpu", "cuda"} /\ SharedMem \subseteq BOOLEAN
  /\ MaxBurst \in Nat /\ MaxCache \in Nat

Url == RtspUrl \cup HikUrl

Hik  == INSTANCE HikDecoder WITH Malformed <- RtspUrl
Cpu  == INSTANCE CpuDecoder
Cuda == INSTANCE CudaDecoder

VARIABLES
  running,        (* running_                                                *)
  keep,           (* keep_on_failure_, fixed                                 *)
  use_shared_mem, (* fixed                                                   *)
  saved,          (* saved_decoder_type_, fixed                              *)
  url, pending_url, url_changed, decoder_changed, force_reopen,
  pending,        (* pending_decoder_, not opened yet: its class             *)
  decoder,        (* decoder_                                                *)
  failures,       (* consecutive_failures_                                   *)
  offline,        (* time since first_failure_time_, while failures > 0      *)
  grace,          (* time left of the first-frame grace period, 0 once       *)
                  (* first_frame_seen_                                       *)
  sleep,          (* time left of the IO thread's sleep                      *)
  io_pc,          (* "sleep", or where stepIO is under decoder_mutex_        *)
  job,            (* the compute job: "none", "queued", "running"            *)
  out,            (* what the running job took                               *)
  camera,         (* "live", "mute" (takes connections only) or "dead"       *)
  quiet,          (* time since a frame, an open or an update; for the       *)
  overtaken,      (* properties, as are these: the queued job's decoder was  *)
                  (* drained, opened or replaced after it was queued;        *)
  grabbed         (* the last grab() returned true                           *)

config  == <<keep, use_shared_mem, saved>>
switch  == <<url, pending_url, url_changed, decoder_changed, pending>>
clocks  == <<failures, offline, grace, quiet>>
history == <<overtaken, grabbed>>

vars == <<running, config, switch, force_reopen, decoder, clocks, sleep, io_pc,
          job, out, camera, history>>

-----------------------------------------------------------------------------
(* DecoderFactory and the virtual calls of IVideoDecoder. *)
Kind == {"hik", "cpu", "cuda"}

Released(kind) ==
  CASE kind = "hik"  -> Hik!Released
    [] kind = "cpu"  -> Cpu!Released
    [] kind = "cuda" -> Cuda!Released

isOpened(d) ==
  CASE d.kind = "hik"  -> Hik!isOpened(d)
    [] d.kind = "cpu"  -> Cpu!isOpened(d)
    [] d.kind = "cuda" -> Cuda!isOpened(d)

(* FFmpeg knows no hik:// protocol. *)
Open(d, u) ==
  CASE d.kind = "hik"  -> Hik!Open(d, u, camera # "dead")
    [] d.kind = "cpu"  -> Cpu!Open(d, u, camera # "dead" /\ u \in RtspUrl)
    [] d.kind = "cuda" -> Cuda!Open(d, u, camera # "dead" /\ u \in RtspUrl)

Grab(d) ==
  CASE d.kind = "hik"  -> Hik!Grab(d, camera = "live")
    [] d.kind = "cpu"  -> Cpu!Grab(d, camera = "live")
    [] d.kind = "cuda" -> Cuda!Grab(d, camera = "live")

Drop(d) ==
  CASE d.kind = "hik"  -> Hik!Drop(d)
    [] d.kind = "cpu"  -> Cpu!Drop(d)
    [] d.kind = "cuda" -> Cuda!Drop(d)

Take(d) ==
  CASE d.kind = "hik"  -> Hik!Take(d, use_shared_mem)
    [] d.kind = "cpu"  -> Cpu!Take(d)
    [] d.kind = "cuda" -> Cuda!Take(d)

releaseOnUrlChange(kind)   == kind # "hik"
releaseOnGrabFailure(kind) == kind # "hik"

Nothing == [found |-> "none", address |-> NoAddress, latest |-> FALSE,
            whole |-> FALSE]

-----------------------------------------------------------------------------
(* Time.  A blocking call, like a tick, lets every clock go on. *)
AtMost(limit, n) == IF n < limit THEN n ELSE limit

Later(n, limit, delta) == AtMost(limit + 1, n + delta)
Left(n, delta)         == IF n > delta THEN n - delta ELSE 0

OfflineLater(delta) ==
  IF failures = 0 THEN 0 ELSE Later(offline, OfflineLimit, delta)

Elapse(delta) ==
  /\ offline' = OfflineLater(delta)
  /\ grace' = Left(grace, delta)
  /\ quiet' = Later(quiet, OfflineLimit, delta)

CallTime == {0, 1}

(* calculateReconnectDelayMs(): doubled for each failure, capped, and      *)
(* jittered by a quarter either way.                                       *)
Backoff(n) ==
  LET delay == AtMost(MaxDelay, BaseDelay * Shifted[n])
  IN  IF n = 0 THEN {GraceRetry}
      ELSE (delay * 3 + 3) \div 4 .. (delay * 5) \div 4

ShouldGiveUp(n, time) == ~keep /\ n > 0 /\ time > OfflineLimit

(* Mutant: every failure sets first_failure_time_. *)
MarkFailureAnew(delta) ==
  IF Left(grace, delta) > 0
    THEN Elapse(delta) /\ UNCHANGED failures
    ELSE /\ failures' = AtMost(MaxFailures, failures + 1)
         /\ offline' = 0
         /\ grace' = 0
         /\ quiet' = Later(quiet, OfflineLimit, delta)

(* What a call that took delta and failed does to the clocks:              *)
(* markConnectionFailure() counts nothing during the grace period, and the *)
(* first failure of a row sets first_failure_time_.                        *)
MarkFailure(delta) ==
  IF Left(grace, delta) > 0
    THEN Elapse(delta) /\ UNCHANGED failures
    ELSE /\ failures' = AtMost(MaxFailures, failures + 1)
         /\ offline' = OfflineLater(delta)
         /\ grace' = 0
         /\ quiet' = Later(quiet, OfflineLimit, delta)

(* Mutant: the failures are not forgotten. *)
AliveStillCounted == failures' = failures /\ offline' = offline /\ quiet' = 0

(* A sign of life: the failures are forgotten. *)
Alive == failures' = 0 /\ offline' = 0 /\ quiet' = 0

-----------------------------------------------------------------------------
(***************************************************************************)
(* The class an address needs: HIK_SDK if parseHikUrl() accepts it, else   *)
(* the type saved when the stream was started.                             *)
(***************************************************************************)
TargetKind(u) == IF u \in HikUrl THEN "hik" ELSE saved

(* A stream as StartStream builds it; HIK_SDK is refused for an address    *)
(* that does not parse.                                                    *)
Init ==
  /\ running = TRUE
  /\ keep \in KeepOnFailure /\ use_shared_mem \in SharedMem /\ saved \in Saved
  /\ url \in Url /\ pending_url = url
  /\ url_changed = FALSE /\ decoder_changed = FALSE /\ force_reopen = FALSE
  /\ decoder = Released(TargetKind(url)) /\ pending = TargetKind(url)
  /\ failures = 0 /\ offline = 0 /\ grace = 0 /\ quiet = 0
  /\ sleep = 0 /\ io_pc = "sleep"
  /\ job = "none" /\ out = Nothing
  /\ camera \in {"live", "mute", "dead"}
  /\ overtaken = FALSE /\ grabbed = FALSE

(* The camera and its network change as they like. *)
CameraChanges ==
  /\ camera' \in {"live", "mute", "dead"} \ {camera}
  /\ UNCHANGED <<running, config, switch, force_reopen, decoder, clocks, sleep,
                 io_pc, job, out, history>>

Tick ==
  /\ running /\ io_pc = "sleep" /\ sleep > 0
  /\ sleep' = sleep - 1
  /\ Elapse(1)
  /\ UNCHANGED <<running, config, switch, force_reopen, decoder, failures,
                 io_pc, job, out, camera, history>>

(***************************************************************************)
(* UpdateStream: the class the address needs is compared with the one in   *)
(* use; then switchDecoder() or updateUrl(), which ignores the address in  *)
(* use.  Both forget the failures.                                         *)
(***************************************************************************)
UpdateStream(u) ==
  /\ running /\ io_pc = "sleep"
  /\ \/ /\ TargetKind(u) # decoder.kind
        /\ decoder_changed' = TRUE /\ pending' = TargetKind(u)
        /\ pending_url' = u
        /\ UNCHANGED url_changed
     \/ /\ TargetKind(u) = decoder.kind /\ u # url
        /\ url_changed' = TRUE /\ pending_url' = u
        /\ UNCHANGED <<decoder_changed, pending>>
  /\ Alive
  /\ UNCHANGED <<running, config, url, force_reopen, decoder, grace, sleep,
                 io_pc, job, out, camera, history>>

-----------------------------------------------------------------------------
(* The IO thread wakes up, takes the lock and applies what is pending. *)
ApplyDecoderSwitch ==
  /\ decoder_changed
  /\ url' = pending_url
  /\ decoder' = Released(pending)
  /\ decoder_changed' = FALSE /\ url_changed' = FALSE
  /\ UNCHANGED force_reopen

ApplyUrlChange ==
  /\ ~decoder_changed /\ url_changed
  /\ url' = pending_url
  /\ url_changed' = FALSE
  /\ IF releaseOnUrlChange(decoder.kind)
       THEN decoder' = Released(decoder.kind) /\ UNCHANGED force_reopen
       ELSE force_reopen' = TRUE /\ UNCHANGED decoder
  /\ UNCHANGED decoder_changed

NothingToApply ==
  /\ ~decoder_changed /\ ~url_changed
  /\ UNCHANGED <<url, decoder, decoder_changed, url_changed, force_reopen>>

IoWake ==
  /\ running /\ io_pc = "sleep" /\ sleep = 0
  /\ ApplyDecoderSwitch \/ ApplyUrlChange \/ NothingToApply
  /\ io_pc' = "open"
  /\ overtaken' = (overtaken \/ decoder' # decoder)
  /\ UNCHANGED <<running, config, pending, pending_url, clocks, sleep, job,
                 out, camera, grabbed>>

(* scheduleNext(delay), unlock, back to the sleep of ioLoop. *)
IoSleep(delays) == io_pc' = "sleep" /\ sleep' \in delays

(* stop() called by the IO thread itself, which then ends. *)
IoGiveUp ==
  /\ running' = FALSE
  /\ decoder' = Released(decoder.kind)
  /\ io_pc' = "ended"
  /\ UNCHANGED sleep

(* force_reopen_ is taken back only when the decoder is open. *)
NeedOpen      == ~isOpened(decoder) \/ force_reopen
ConsumeReopen == force_reopen' = (force_reopen /\ ~isOpened(decoder))

IoNoOpen ==
  /\ io_pc = "open" /\ ~NeedOpen
  /\ io_pc' = "grab"
  /\ UNCHANGED <<running, config, switch, force_reopen, decoder, clocks, sleep,
                 job, out, camera, history>>

IoOpenGivesUp ==
  /\ io_pc = "open" /\ NeedOpen
  /\ ShouldGiveUp(failures, offline)
  /\ ConsumeReopen
  /\ IoGiveUp
  /\ overtaken' = TRUE
  /\ UNCHANGED <<config, switch, clocks, job, out, camera, grabbed>>

IoOpen ==
  /\ io_pc = "open" /\ NeedOpen
  /\ ~ShouldGiveUp(failures, offline)
  /\ ConsumeReopen
  /\ \E o \in Open(decoder, url), delta \in CallTime :
       /\ decoder' = o.dec
       /\ IF o.ok
            THEN /\ Alive /\ grace' = Grace + 1
                 /\ io_pc' = "grab" /\ UNCHANGED sleep
            ELSE MarkFailure(delta) /\ IoSleep(Backoff(failures'))
  /\ overtaken' = TRUE
  /\ UNCHANGED <<running, config, switch, job, out, camera, grabbed>>

-----------------------------------------------------------------------------
(***************************************************************************)
(* grab() and what follows it.  A failure in the grace period is retried   *)
(* soon; any other counts, and may be the last one.                        *)
(***************************************************************************)
IoGrabFailsInGrace(delta, d) ==
  /\ Left(grace, delta) > 0
  /\ Elapse(delta) /\ UNCHANGED failures
  /\ decoder' = d
  /\ IoSleep({GraceRetry})
  /\ UNCHANGED running

IoGrabFails(delta, d) ==
  /\ Left(grace, delta) = 0
  /\ MarkFailure(delta)
  /\ IF ShouldGiveUp(failures', offline')
       THEN IoGiveUp
       ELSE /\ decoder' = IF releaseOnGrabFailure(d.kind)
                            THEN Released(d.kind) ELSE d
            /\ IoSleep(Backoff(failures'))
            /\ UNCHANGED running

IoGrabFailure ==
  /\ io_pc = "grab"
  /\ \E o \in Grab(decoder), delta \in CallTime :
       /\ ~o.ok
       /\ IoGrabFailsInGrace(delta, o.dec) \/ IoGrabFails(delta, o.dec)
  /\ grabbed' = FALSE
  /\ UNCHANGED <<config, switch, force_reopen, job, out, camera, overtaken>>

(***************************************************************************)
(* A frame: dispatched to the pool, or dropped because its turn has not    *)
(* come or a job is under way.  Too many corrupted frames, which the SDK   *)
(* does not report, ask for a new opening.                                 *)
(***************************************************************************)
IoGrabSuccess ==
  /\ io_pc = "grab"
  /\ \E o \in Grab(decoder) :
       /\ o.ok
       /\ \/ /\ job = "none"
             /\ decoder' = o.dec /\ job' = "queued" /\ overtaken' = FALSE
          \/ /\ decoder' = Drop(o.dec) /\ overtaken' = TRUE
             /\ UNCHANGED job
  /\ Alive /\ grace' = 0
  /\ force_reopen' \in {force_reopen, force_reopen \/ decoder.kind # "hik"}
  /\ IoSleep({0})
  /\ grabbed' = TRUE
  /\ UNCHANGED <<running, config, switch, out, camera>>

-----------------------------------------------------------------------------
(* The compute job takes a picture under the lock, if the decoder is open. *)
JobSkips ==
  /\ job = "queued" /\ io_pc = "sleep" /\ running
  /\ ~isOpened(decoder)
  /\ job' = "running"
  /\ UNCHANGED <<running, config, switch, force_reopen, decoder, clocks, sleep,
                 io_pc, out, camera, history>>

JobTakes ==
  /\ job = "queued" /\ io_pc = "sleep" /\ running
  /\ isOpened(decoder)
  /\ \E t \in Take(decoder) : out' = t.out /\ decoder' = t.dec
  /\ job' = "running"
  /\ UNCHANGED <<running, config, switch, force_reopen, clocks, sleep, io_pc,
                 camera, history>>

(* Published or not, it wakes the IO thread, whatever that sleeps for. *)
JobEnds ==
  /\ job = "running"
  /\ job' = "none" /\ out' = Nothing
  /\ sleep' = IF io_pc = "sleep" THEN 0 ELSE sleep
  /\ UNCHANGED <<running, config, switch, force_reopen, decoder, clocks, io_pc,
                 camera, history>>

(* The stream was stopped before the job ran. *)
JobTooLate ==
  /\ job = "queued" /\ ~running
  /\ job' = "none"
  /\ UNCHANGED <<running, config, switch, force_reopen, decoder, clocks, sleep,
                 io_pc, out, camera, history>>

-----------------------------------------------------------------------------
IoStep  == IoWake \/ IoNoOpen \/ IoOpenGivesUp \/ IoOpen \/ IoGrabFailure
           \/ IoGrabSuccess
JobStep == JobSkips \/ JobTakes \/ JobEnds \/ JobTooLate
Update  == \E u \in Url : UpdateStream(u)

Next == IoStep \/ JobStep \/ Update \/ Tick \/ CameraChanges

(* Threads run, time passes; nobody has to send an update, and no camera   *)
(* has to change.                                                          *)
Fairness == WF_vars(IoStep) /\ WF_vars(JobStep) /\ WF_vars(Tick)

Spec == Init /\ [][Next]_vars /\ Fairness

-----------------------------------------------------------------------------
(* Decoders and clocks stay in their ranges: stepIO(), open(), grab(). *)
TypeOK ==
  /\ running \in BOOLEAN /\ keep \in KeepOnFailure
  /\ use_shared_mem \in SharedMem /\ saved \in Saved
  /\ url \in Url /\ pending_url \in Url /\ pending \in Kind
  /\ {url_changed, decoder_changed, force_reopen, overtaken, grabbed}
       \subseteq BOOLEAN
  /\ decoder \in Hik!Decoder(Url) \cup Cpu!Decoder(Url) \cup Cuda!Decoder(Url)
  /\ failures \in 0 .. MaxFailures
  /\ {offline, quiet} \subseteq 0 .. OfflineLimit + 1
  /\ grace \in 0 .. Grace + 1 /\ sleep \in 0 .. (MaxDelay * 5) \div 4
  /\ io_pc \in {"sleep", "open", "grab", "ended"}
  /\ job \in {"none", "queued", "running"}
  /\ camera \in {"live", "mute", "dead"}

(* The two classes of the CUDA decoder agree on how many frames are left:  *)
(* otherwise grab() would never read a packet again, or retrieve() hand    *)
(* out buffers of the packet before.                                       *)
FrameCountsAgree ==
  decoder.kind = "cuda" /\ isOpened(decoder) =>
    /\ decoder.available = decoder.decoded
    /\ decoder.returned + decoder.decoded <= MaxCache

TakesPicture == JobTakes /\ out'.found = "picture"

(* A job takes pictures of the address the stream is set to and of no      *)
(* other, whatever updates, failed logins and kept logins came before:     *)
(* stepIO() applies an update and opens under one lock.                    *)
PictureOfAddress == [][TakesPicture => out'.address = url]_vars

(* The job dispatched for a frame finds it, unless the decoder was drained *)
(* by a later drop, opened again or replaced in between: the drop calls of *)
(* stepIO() empty the decoder under a waiting job, and nothing else does,  *)
(* a later grab() that fails neither.                                      *)
NothingOnlyIfOvertaken ==
  [][JobTakes /\ out'.found = "nothing" => overtaken]_vars

(* A JPEG with a tail of garbage is published only after a failed capture: *)
(* Capture() enlarges the buffer, and cuts it only when it succeeds.       *)
PaddedOnlyAfterFailure == [][TakesPicture /\ ~out'.whole => ~grabbed]_vars

(* A stream is given up only if nothing good happened for longer than the  *)
(* limit: no frame, no opening, no update (shouldGiveUpReconnection()).    *)
GivesUpOnlyWhenOffline == [][running /\ ~running' => quiet' > OfflineLimit]_vars

(* A camera that is gone for good ends a stream that may be given up: no   *)
(* chain of retries, grace periods and forced openings goes on for ever.   *)
DeadCameraGivenUp ==
  ~keep /\ <>[](camera = "dead") /\ <>[][~Update]_vars => <>~running

(* What the comments of HikDecoder::grab() want the key-frame requests and *)
(* the second capture for: the picture published is the latest capture and *)
(* not an old one.                                                         *)
PictureIsLatest == [][TakesPicture => out'.latest]_vars
=============================================================================
