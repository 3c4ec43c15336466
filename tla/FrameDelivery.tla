--------------------------- MODULE FrameDelivery ---------------------------
(***************************************************************************)
(* How the JPEG frames of one stream reach the gRPC clients: the frame     *)
(* cache of StreamTask (latest_encoded_frame_, frame_seq_, frame_mutex_    *)
(* and frame_cv_ in src/stream_task.cpp) between the threads that write it *)
(* and the handlers StreamFrames and GetLatestFrame of                     *)
(* src/rtsp_service.cpp that read it.                                      *)
(*                                                                         *)
(* Module StreamTask has the threads of the stream in full; here they are  *)
(* reduced to what the cache sees of them.  One compute job at a time and  *)
(* a stop() that waits for it are taken from there (OneComputeJob and      *)
(* NoTeardownUnderCompute).  What decoder_mutex_ protects is one step,     *)
(* except that the IO thread holds it from a grab to its dispatch.         *)
(*                                                                         *)
(* A frame is the number of its grab.  frame_seq_ is not a counter but a   *)
(* wall clock in milliseconds, which is assumed not to be set back.        *)
(***************************************************************************)
EXTENDS Integers

CONSTANTS
  Client,      (* StreamFrames calls                                         *)
  Poller,      (* GetLatestFrame calls                                       *)
  MaxFrames,   (* bound on the frames grabbed                                *)
  MaxTime,     (* bound on the clock                                         *)
  MaxUpdates   (* bound on UpdateStream calls                                *)

ASSUME BoundAssumption ==
  MaxFrames \in Nat /\ MaxTime \in Nat \ {0} /\ MaxUpdates \in Nat

NoFrame == 0
Frame   == 1..MaxFrames
Time    == 0..MaxTime

VARIABLES
  clock,       (* the system clock, in milliseconds                          *)
  running,     (* running_                                                   *)
  stopped,     (* stopped_                                                   *)
  stop_pc,     (* progress of stop()                                         *)
  io_pc,       (* "grabbed" while the IO thread holds decoder_mutex_         *)
  grabs,       (* frames grabbed so far                                      *)
  arrived,     (* when each of them was                                      *)
  last_grab,   (* last_grab_timestamp_ms_                                    *)
  current,     (* the frame the decoder would retrieve                       *)
  updates,     (* UpdateStream calls so far                                  *)
  pending,     (* url_changed_ or decoder_changed_                           *)
  job_pc,      (* progress of the compute job                                *)
  job_frame,   (* the frame it retrieved                                     *)
  latest,      (* latest_encoded_frame_                                      *)
  frame_seq,   (* frame_seq_                                                 *)
  pc,          (* progress of the StreamFrames calls                         *)
  client_seq,  (* client_seq of each                                         *)
  got,         (* the frame waitForNextFrame() handed it last                *)
  poll_pc,     (* progress of the GetLatestFrame calls                       *)
  poll_frame,  (* the frame of the reply                                     *)
  poll_seq     (* the frame_seq of the reply                                 *)

stopping == <<running, stopped, stop_pc>>
source   == <<io_pc, grabs, arrived, last_grab, current>>
job      == <<job_pc, job_frame>>
cache    == <<latest, frame_seq>>
clients  == <<pc, client_seq, got>>
pollers  == <<poll_pc, poll_frame, poll_seq>>

vars == <<clock, stopping, source, updates, pending, job, cache, clients, pollers>>

Init ==
  /\ clock = 1
  /\ running = TRUE /\ stopped = FALSE /\ stop_pc = "idle"
  /\ io_pc = "idle" /\ grabs = 0 /\ arrived = [f \in Frame |-> 0]
  /\ last_grab = 0 /\ current = NoFrame
  /\ updates = 0 /\ pending = FALSE
  /\ job_pc = "idle" /\ job_frame = NoFrame
  /\ latest = NoFrame /\ frame_seq = 0
  /\ pc = [c \in Client |-> "none"]
  /\ client_seq = [c \in Client |-> 0]
  /\ got = [c \in Client |-> NoFrame]
  /\ poll_pc = [p \in Poller |-> "idle"]
  /\ poll_frame = [p \in Poller |-> NoFrame]
  /\ poll_seq = [p \in Poller |-> 0]

Tick ==
  /\ clock < MaxTime
  /\ clock' = clock + 1
  /\ UNCHANGED <<stopping, source, updates, pending, job, cache, clients, pollers>>

(* frame_cv_.notify_all() *)
NotifyAll == pc' = [c \in Client |-> IF pc[c] = "waiting" THEN "calling" ELSE pc[c]]

-----------------------------------------------------------------------------
(* The IO thread, stepIO().                                                *)

(***************************************************************************)
(* A pending address or decoder is applied.  A decoder that is released    *)
(* or replaced has no frame; the one that keeps its login keeps its frame. *)
(***************************************************************************)
IoApply ==
  /\ io_pc = "idle" /\ running /\ pending
  /\ pending' = FALSE
  /\ current' \in {NoFrame, current}
  /\ latest' = NoFrame
  /\ NotifyAll
  /\ UNCHANGED <<clock, stopping, io_pc, grabs, arrived, last_grab, updates, job,
                 frame_seq, client_seq, got, pollers>>

(* Mutant: only frames that will be published get a timestamp. *)
IoGrabStampsLate ==
  /\ io_pc = "idle" /\ running /\ ~pending
  /\ grabs < MaxFrames
  /\ io_pc' = "grabbed"
  /\ grabs' = grabs + 1
  /\ arrived' = [arrived EXCEPT ![grabs + 1] = clock]
  /\ last_grab' = IF job_pc = "idle" THEN clock ELSE last_grab
  /\ current' = grabs + 1
  /\ UNCHANGED <<clock, stopping, updates, pending, job, cache, clients, pollers>>

(* A frame is grabbed; the decode interval and the open are not modelled. *)
IoGrab ==
  /\ io_pc = "idle" /\ running /\ ~pending
  /\ grabs < MaxFrames
  /\ io_pc' = "grabbed"
  /\ grabs' = grabs + 1
  /\ arrived' = [arrived EXCEPT ![grabs + 1] = clock]
  /\ last_grab' = clock
  /\ current' = grabs + 1
  /\ UNCHANGED <<clock, stopping, updates, pending, job, cache, clients, pollers>>

(***************************************************************************)
(* The grabbed frame gets a compute job unless the decode interval says    *)
(* otherwise, stop() has begun or a job is still running.                  *)
(***************************************************************************)
IoDispatch ==
  /\ io_pc = "grabbed"
  /\ io_pc' = "idle"
  /\ \/ job_pc' = job_pc
     \/ running /\ job_pc = "idle" /\ job_pc' = "queued"
  /\ UNCHANGED <<clock, stopping, grabs, arrived, last_grab, current, updates,
                 pending, job_frame, cache, clients, pollers>>

-----------------------------------------------------------------------------
(* The compute job, stepCompute().                                         *)

(* It counts itself and tests running_; stop() waits for it from here on. *)
JobStart ==
  /\ job_pc = "queued" /\ running
  /\ job_pc' = "started"
  /\ UNCHANGED <<clock, stopping, source, updates, pending, job_frame, cache, clients,
                 pollers>>

(* Under decoder_mutex_ it takes the frame the decoder holds by now. *)
JobRetrieve ==
  /\ job_pc = "started" /\ io_pc = "idle"
  /\ current # NoFrame
  /\ job_pc' = "encoding" /\ job_frame' = current
  /\ UNCHANGED <<clock, stopping, source, updates, pending, cache, clients, pollers>>

(* It ends without a frame: stopped, nothing to retrieve, or not encoded. *)
JobFails ==
  /\ \/ job_pc = "queued" /\ ~running
     \/ job_pc = "started" /\ io_pc = "idle" /\ current = NoFrame
     \/ job_pc = "encoding"
  /\ job_pc' = "idle" /\ job_frame' = NoFrame
  /\ UNCHANGED <<clock, stopping, source, updates, pending, cache, clients, pollers>>

(* Mutant: the timestamp is the time of the publication. *)
JobPublishNow ==
  /\ job_pc = "encoding"
  /\ job_pc' = "notifying"
  /\ latest' = job_frame
  /\ frame_seq' = clock
  /\ UNCHANGED <<clock, stopping, source, updates, pending, job_frame, clients, pollers>>

(***************************************************************************)
(* The frame enters the cache.  The timestamp is the one of the last grab, *)
(* which need not be the grab of this frame any more.                      *)
(***************************************************************************)
JobPublish ==
  /\ job_pc = "encoding"
  /\ job_pc' = "notifying"
  /\ latest' = job_frame
  /\ frame_seq' = last_grab
  /\ UNCHANGED <<clock, stopping, source, updates, pending, job_frame, clients, pollers>>

(* The waiting clients are notified after frame_mutex_ is released. *)
JobNotify ==
  /\ job_pc = "notifying"
  /\ job_pc' = "idle" /\ job_frame' = NoFrame
  /\ NotifyAll
  /\ UNCHANGED <<clock, stopping, source, updates, pending, cache, client_seq, got,
                 pollers>>

-----------------------------------------------------------------------------
(* UpdateStream, as updateUrl() or switchDecoder(), and stop().            *)

(* Mutant: the frame of the old address stays in the cache. *)
UpdateStreamKeeps ==
  /\ io_pc = "idle"
  /\ updates < MaxUpdates
  /\ updates' = updates + 1
  /\ pending' = TRUE
  /\ latest' = latest
  /\ frame_seq' = clock
  /\ NotifyAll
  /\ UNCHANGED <<clock, stopping, source, job, client_seq, got, pollers>>

UpdateStream ==
  /\ io_pc = "idle"
  /\ updates < MaxUpdates
  /\ updates' = updates + 1
  /\ pending' = TRUE
  /\ latest' = NoFrame
  /\ frame_seq' = clock
  /\ NotifyAll
  /\ UNCHANGED <<clock, stopping, source, job, client_seq, got, pollers>>

StopCas ==
  /\ stop_pc = "idle"
  /\ running' = FALSE /\ stop_pc' = "marking"
  /\ UNCHANGED <<clock, stopped, source, updates, pending, job, cache, clients, pollers>>

StopMark ==
  /\ stop_pc = "marking"
  /\ stopped' = TRUE /\ stop_pc' = "dropping"
  /\ UNCHANGED <<clock, running, source, updates, pending, job, cache, clients, pollers>>

InFlight == job_pc \in {"started", "encoding", "notifying"}

(* Mutant: nobody is told. *)
StopDropFrameSilent ==
  /\ stop_pc = "dropping" /\ ~InFlight
  /\ stop_pc' = "done"
  /\ latest' = NoFrame
  /\ UNCHANGED <<clock, running, stopped, source, updates, pending, job, frame_seq,
                 clients, pollers>>

(* Once the compute job has ended. *)
StopDropFrame ==
  /\ stop_pc = "dropping" /\ ~InFlight
  /\ stop_pc' = "done"
  /\ latest' = NoFrame
  /\ NotifyAll
  /\ UNCHANGED <<clock, running, stopped, source, updates, pending, job, frame_seq,
                 client_seq, got, pollers>>

-----------------------------------------------------------------------------
(* StreamFrames.                                                           *)

ClientGoes(c, from, to) ==
  /\ pc[c] = from
  /\ pc' = [pc EXCEPT ![c] = to]
  /\ UNCHANGED <<clock, stopping, source, updates, pending, job, cache, client_seq,
                 got, pollers>>

Connect(c) == ClientGoes(c, "none", "loop")

(* IsCancelled(), or the write of a frame failed. *)
Cancel(c) == ClientGoes(c, "loop", "done")

(* Mutant: the handler does not ask whether the stream was stopped. *)
LoopUnasked(c) == ClientGoes(c, "loop", "calling")

(* A stopped stream ends the call, otherwise it calls waitForNextFrame(). *)
Loop(c) == ClientGoes(c, "loop", IF stopped THEN "done" ELSE "calling")

Waits(c) == running /\ frame_seq <= client_seq[c]

Wait(c) == Waits(c) /\ ClientGoes(c, "calling", "waiting")

(* wait_until() reaches its deadline of 500 ms; the test is not repeated. *)
Expire(c) == ClientGoes(c, "waiting", "expired")

Returns(c) ==
  \/ pc[c] = "calling" /\ ~Waits(c)
  \/ pc[c] = "expired"

HasNewFrame(c) == running /\ latest # NoFrame /\ frame_seq > client_seq[c]

(* waitForNextFrame() returns false and the handler goes round its loop. *)
ReturnEmpty(c) ==
  /\ Returns(c) /\ ~HasNewFrame(c)
  /\ ClientGoes(c, pc[c], "loop")

(* It returns a frame.  The handler writes it, or drops it for a max_fps:  *)
(* what a client is sent is among what its handler was handed.             *)
ReturnFrame(c) ==
  /\ Returns(c) /\ HasNewFrame(c)
  /\ pc' = [pc EXCEPT ![c] = "loop"]
  /\ client_seq' = [client_seq EXCEPT ![c] = frame_seq]
  /\ got' = [got EXCEPT ![c] = latest]
  /\ UNCHANGED <<clock, stopping, source, updates, pending, job, cache, pollers>>

-----------------------------------------------------------------------------
(* GetLatestFrame reads the frame under frame_mutex_, then the timestamp.  *)

PollFrame(p) ==
  /\ poll_pc[p] # "taken" /\ latest # NoFrame
  /\ poll_pc' = [poll_pc EXCEPT ![p] = "taken"]
  /\ poll_frame' = [poll_frame EXCEPT ![p] = latest]
  /\ UNCHANGED <<clock, stopping, source, updates, pending, job, cache, clients, poll_seq>>

PollSeq(p) ==
  /\ poll_pc[p] = "taken"
  /\ poll_pc' = [poll_pc EXCEPT ![p] = "replied"]
  /\ poll_seq' = [poll_seq EXCEPT ![p] = frame_seq]
  /\ UNCHANGED <<clock, stopping, source, updates, pending, job, cache, clients, poll_frame>>

-----------------------------------------------------------------------------
IoStep   == IoApply \/ IoGrab \/ IoDispatch
JobStep  == JobStart \/ JobRetrieve \/ JobFails \/ JobPublish \/ JobNotify
StopStep == StopCas \/ StopMark \/ StopDropFrame
HandlerStep(c) == Loop(c) \/ Wait(c) \/ Expire(c) \/ ReturnEmpty(c) \/ ReturnFrame(c)
ClientStep(c)  == Connect(c) \/ Cancel(c) \/ HandlerStep(c)
PollStep(p)    == PollFrame(p) \/ PollSeq(p)

Next ==
  \/ Tick \/ IoStep \/ JobStep \/ UpdateStream \/ StopStep
  \/ \E c \in Client : ClientStep(c)
  \/ \E p \in Poller : PollStep(p)

Spec == Init /\ [][Next]_vars

(***************************************************************************)
(* The threads of the handlers are scheduled, and wait_until() ends at its *)
(* deadline.  Nothing makes a client cancel, a frame arrive or a stream    *)
(* stop.                                                                   *)
(***************************************************************************)
FairSpec == Spec /\ \A c \in Client : WF_vars(HandlerStep(c))

-----------------------------------------------------------------------------
FlagTypes == running \in BOOLEAN /\ stopped \in BOOLEAN /\ pending \in BOOLEAN

ThreadTypes ==
  /\ stop_pc \in {"idle", "marking", "dropping", "done"}
  /\ io_pc \in {"idle", "grabbed"}
  /\ job_pc \in {"idle", "queued", "started", "encoding", "notifying"}
  /\ pc \in [Client -> {"none", "loop", "calling", "waiting", "expired", "done"}]
  /\ poll_pc \in [Poller -> {"idle", "taken", "replied"}]

DataTypes ==
  /\ clock \in Time /\ last_grab \in Time /\ frame_seq \in Time
  /\ grabs \in 0..MaxFrames /\ arrived \in [Frame -> Time]
  /\ current \in 0..grabs /\ latest \in 0..grabs
  /\ updates \in 0..MaxUpdates
  /\ job_frame \in IF job_pc \in {"encoding", "notifying"} THEN 1..grabs ELSE {NoFrame}
  /\ client_seq \in [Client -> Time] /\ got \in [Client -> 0..grabs]
  /\ poll_frame \in [Poller -> 0..grabs] /\ poll_seq \in [Poller -> Time]

(* All variables keep their types, and the job has a frame when it needs it. *)
TypeOK == FlagTypes /\ ThreadTypes /\ DataTypes

(***************************************************************************)
(* No wake-up is lost: a client that sleeps while there is a newer frame   *)
(* or the stream has ended is about to be notified.  The flag running_ is  *)
(* cleared without frame_mutex_, and the job notifies after releasing it.  *)
(***************************************************************************)
NoLostWakeup ==
  \A c \in Client :
    pc[c] = "waiting" /\ ~Waits(c) =>
      job_pc = "notifying" \/ stop_pc \in {"marking", "dropping"}

(***************************************************************************)
(* A frame may carry the timestamp of a later grab, in a push or, because  *)
(* GetLatestFrame reads the two separately, in a reply; it never carries   *)
(* one from before it arrived, so its age is never overestimated.          *)
(***************************************************************************)
NeverBackdated ==
  /\ latest # NoFrame => frame_seq >= arrived[latest]
  /\ \A c \in Client : got[c] # NoFrame => client_seq[c] >= arrived[got[c]]
  /\ \A p \in Poller : poll_pc[p] = "replied" => poll_seq[p] >= arrived[poll_frame[p]]

(***************************************************************************)
(* The frames of a StreamFrames call go forward: what waitForNextFrame()   *)
(* returns is later than what it returned last, neither the same again nor *)
(* an earlier one, although updateUrl(), the IO thread and a job that      *)
(* finishes late write the cache in any order, and frame_seq itself goes   *)
(* back when such a job publishes after updateUrl().                       *)
(***************************************************************************)
FramesGoForward ==
  [][\A c \in Client : client_seq'[c] # client_seq[c] => latest > got[c]]_vars

(***************************************************************************)
(* The price of a clock as sequence: a frame in the cache that a client is *)
(* not offered is the one it was handed last, or arrived within the very   *)
(* millisecond it was handed that one with.  No client waits for the clock *)
(* to catch up with it, and no older or later frame is kept from it.       *)
(***************************************************************************)
OnlyTwinsAreHidden ==
  \A c \in Client :
    latest # NoFrame /\ frame_seq <= client_seq[c] =>
      /\ frame_seq = client_seq[c]
      /\ latest = got[c] \/ arrived[latest] = client_seq[c]

(***************************************************************************)
(* The cache within the life of its stream.  The module begins when the    *)
(* stream runs; what the job does under decoder_mutex_ is one step here.   *)
(***************************************************************************)
lifePhase == IF stop_pc = "idle" THEN "running"
             ELSE IF stop_pc = "done" THEN "stopped" ELSE "stopping"

decoderUser == IF io_pc = "grabbed" THEN "io" ELSE "nobody"

Life == INSTANCE StreamLife
          WITH phase <- lifePhase, published <- latest # NoFrame, user <- decoderUser

(***************************************************************************)
(* Each step is one of StreamLife: whoever writes the cache, a frame gets  *)
(* into it only before stop() has ended, and none is left in it then.      *)
(***************************************************************************)
StepsOfALife == [][Life!Next]_(Life!lifeVars)

-----------------------------------------------------------------------------
(* The parts of the inductive invariant: what the threads rely on.         *)

(* Once somebody has called stop(), running_ stays lowered. *)
StopInv == running <=> stop_pc = "idle"

(* No frame arrived after the last grab, and neither is in the future.     *)
ClockInv ==
  /\ last_grab <= clock
  /\ \A f \in 1..grabs : arrived[f] <= last_grab

(* Also between the two reads of GetLatestFrame.                           *)
StampInv ==
  /\ NeverBackdated
  /\ \A p \in Poller : poll_pc[p] = "taken" => frame_seq >= arrived[poll_frame[p]]
  /\ \A p \in Poller : poll_pc[p] # "idle" => poll_frame[p] # NoFrame

(* Frame f is later than everything that was published before.             *)
Fresh(f) == latest < f /\ \A c \in Client : got[c] < f

(***************************************************************************)
(* A frame on its way into the cache is fresh, and what a client has not   *)
(* taken from the cache, by its sequence, it has not sent either.          *)
(***************************************************************************)
OrderInv ==
  /\ io_pc = "grabbed" => current = grabs /\ Fresh(grabs) /\ job_frame < grabs
  /\ job_pc \in {"queued", "started"} /\ current # NoFrame => Fresh(current)
  /\ job_pc = "encoding" => Fresh(job_frame)
  /\ \A c \in Client :
       latest # NoFrame /\ frame_seq > client_seq[c] => latest > got[c]

(***************************************************************************)
(* What the decoder holds was grabbed last, and no client was handed       *)
(* anything stamped later than that: a frame on its way into the cache is  *)
(* at least as young as every stamp a client has or may still get.         *)
(***************************************************************************)
TwinInv ==
  /\ current # NoFrame => arrived[current] = last_grab
  /\ latest # NoFrame => frame_seq <= last_grab
  /\ \A c \in Client : client_seq[c] <= last_grab
  /\ job_pc = "encoding" =>
       /\ latest # NoFrame => frame_seq <= arrived[job_frame]
       /\ \A c \in Client : client_seq[c] <= arrived[job_frame]
  /\ OnlyTwinsAreHidden

(* stop() ends after the job. *)
DoneInv == stop_pc = "done" => ~InFlight

IInv == /\ TypeOK /\ StopInv /\ NoLostWakeup /\ ClockInv /\ StampInv /\ OrderInv
        /\ TwinInv /\ DoneInv

-----------------------------------------------------------------------------
(***************************************************************************)
(* Every StreamFrames call on a stopped stream ends, also one that sleeps  *)
(* in waitForNextFrame() when stop() begins.                               *)
(***************************************************************************)
CallsEnd == \A c \in Client : stopped /\ pc[c] # "none" ~> pc[c] = "done"

(***************************************************************************)
(* The comment in updateUrl() has frame_seq_ moved to the current time so  *)
(* that waitForNextFrame() waits for a new frame after the switch.  That   *)
(* is: on a running stream it comes back without a frame only when its     *)
(* time is up.                                                             *)
(***************************************************************************)
WaitsForNewFrame ==
  [][\A c \in Client :
       running /\ pc[c] = "calling" /\ pc'[c] = "loop" => client_seq'[c] # client_seq[c]]_vars
=============================================================================
