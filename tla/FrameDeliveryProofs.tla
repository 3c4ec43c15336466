------------------------ MODULE FrameDeliveryProofs ------------------------
(***************************************************************************)
(* Proofs about FrameDelivery, for any number of StreamFrames and          *)
(* GetLatestFrame calls and any bounds: the inductive invariant IInv, the  *)
(* safety properties it implies, and the order of the frames a client is   *)
(* sent.                                                                   *)
(***************************************************************************)
EXTENDS FrameDelivery, TLAPS

(* The initial state satisfies every part of the inductive invariant. *)
LEMMA InitIInv == Init => IInv
<1> SUFFICES ASSUME Init PROVE IInv
  OBVIOUS
<1> USE BoundAssumption DEF Init, NoFrame, Frame, Time
<1>1. FlagTypes /\ ThreadTypes
  BY DEF FlagTypes, ThreadTypes
<1>2. DataTypes
  BY DEF DataTypes
<1>3. StopInv /\ NoLostWakeup /\ ClockInv /\ StampInv /\ OrderInv
  BY DEF StopInv, NoLostWakeup, ClockInv, StampInv, NeverBackdated, OrderInv
<1>4. TwinInv /\ DoneInv
  BY DEF TwinInv, OnlyTwinsAreHidden, DoneInv
<1> QED
  BY <1>1, <1>2, <1>3, <1>4 DEF IInv, TypeOK

-----------------------------------------------------------------------------
(***************************************************************************)
(* What the steps of a StreamFrames call leave alone: each of them moves   *)
(* the call, and only ReturnFrame changes its sequence and its frame.      *)
(***************************************************************************)
LEMMA ClientFrame ==
  ASSUME NEW c \in Client, ClientStep(c)
  PROVE  /\ UNCHANGED <<clock, running, stopped, stop_pc, io_pc, grabs, arrived,
                        last_grab, current, updates, pending, job_pc, job_frame,
                        latest, frame_seq, poll_pc, poll_frame, poll_seq>>
         /\ UNCHANGED <<client_seq, got>> \/ ReturnFrame(c)
BY DEF ClientStep, HandlerStep, Connect, Cancel, Loop, Wait, Expire, ReturnEmpty,
   ReturnFrame, ClientGoes, stopping, source, job, cache, pollers

(* Where a call goes, and that it only sleeps when it has to wait. *)
LEMMA ClientMoves ==
  ASSUME NEW c \in Client, ClientStep(c)
  PROVE  \E to \in {"loop", "calling", "waiting", "expired", "done"} :
           /\ pc' = [pc EXCEPT ![c] = to]
           /\ to = "waiting" => Waits(c)
<1>1. CASE Wait(c)
  BY <1>1 DEF Wait, ClientGoes
<1>2. CASE Connect(c) \/ Cancel(c) \/ Loop(c) \/ Expire(c) \/ ReturnEmpty(c)
  BY <1>2 DEF Connect, Cancel, Loop, Expire, ReturnEmpty, ClientGoes
<1>3. CASE ReturnFrame(c)
  BY <1>3 DEF ReturnFrame
<1> QED
  BY <1>1, <1>2, <1>3 DEF ClientStep, HandlerStep

(* What the source of the frames, the job and stop() leave alone. *)
LEMMA WriterFrame ==
  ASSUME Tick \/ IoStep \/ JobStep \/ UpdateStream \/ StopStep
  PROVE  UNCHANGED <<client_seq, got, poll_pc, poll_frame, poll_seq>>
BY DEF Tick, IoStep, IoApply, IoGrab, IoDispatch, JobStep, JobStart, JobRetrieve,
   JobFails, JobPublish, JobNotify, UpdateStream, StopStep, StopCas, StopMark,
   StopDropFrame, clients, pollers

(* A notification leaves nobody asleep; other writer steps move no call.  *)
LEMMA WriterNotifies ==
  ASSUME Tick \/ IoStep \/ JobStep \/ UpdateStream \/ StopStep
  PROVE  pc' = pc \/ NotifyAll
BY DEF Tick, IoStep, IoApply, IoGrab, IoDispatch, JobStep, JobStart, JobRetrieve,
   JobFails, JobPublish, JobNotify, UpdateStream, StopStep, StopCas, StopMark,
   StopDropFrame, clients

(* GetLatestFrame only reads. *)
LEMMA PollFrameOnly ==
  ASSUME NEW p \in Poller, PollStep(p)
  PROVE  UNCHANGED <<clock, running, stopped, stop_pc, io_pc, grabs, arrived,
                     last_grab, current, updates, pending, job_pc, job_frame,
                     latest, frame_seq, pc, client_seq, got>>
BY DEF PollStep, PollFrame, PollSeq, stopping, source, job, cache, clients

-----------------------------------------------------------------------------
(* Flags only ever receive Boolean values. *)
LEMMA FlagStep == FlagTypes /\ [Next]_vars => FlagTypes'
<1> SUFFICES ASSUME FlagTypes, [Next]_vars PROVE FlagTypes'
  OBVIOUS
<1>1. running' \in {running, FALSE} /\ stopped' \in {stopped, TRUE}
      /\ pending' \in {pending, TRUE, FALSE}
  <2>1. CASE Tick \/ IoStep \/ JobStep \/ UpdateStream \/ StopStep
    BY <2>1 DEF Tick, IoStep, IoApply, IoGrab, IoDispatch, JobStep, JobStart,
       JobRetrieve, JobFails, JobPublish, JobNotify, UpdateStream, StopStep, StopCas,
       StopMark, StopDropFrame, stopping
  <2>2. ASSUME NEW c \in Client, ClientStep(c) PROVE <1>1
    BY <2>2, ClientFrame
  <2>3. ASSUME NEW p \in Poller, PollStep(p) PROVE <1>1
    BY <2>3, PollFrameOnly
  <2>4. CASE UNCHANGED vars
    BY <2>4 DEF vars, stopping
  <2> QED
    BY <2>1, <2>2, <2>3, <2>4 DEF Next
<1> QED
  BY <1>1, Zenon DEF FlagTypes

(* Every thread stays within its program. *)
LEMMA ThreadStep == ThreadTypes /\ [Next]_vars => ThreadTypes'
<1> SUFFICES ASSUME ThreadTypes, [Next]_vars PROVE ThreadTypes'
  OBVIOUS
<1> USE DEF ThreadTypes
<1>1. CASE Tick \/ IoStep \/ JobStep \/ UpdateStream \/ StopStep
  <2>1. pc' \in [Client -> {"none", "loop", "calling", "waiting", "expired", "done"}]
    BY <1>1, WriterNotifies DEF NotifyAll
  <2>2. UNCHANGED poll_pc
    BY <1>1, WriterFrame
  <2>3. stop_pc' \in {stop_pc, "marking", "dropping", "done"}
        /\ io_pc' \in {io_pc, "idle", "grabbed"}
    BY <1>1 DEF Tick, IoStep, IoApply, IoGrab, IoDispatch, JobStep, JobStart,
       JobRetrieve, JobFails, JobPublish, JobNotify, UpdateStream, StopStep, StopCas,
       StopMark, StopDropFrame, stopping, source
  <2>4. job_pc' \in {job_pc, "idle", "queued", "started", "encoding", "notifying"}
    BY <1>1 DEF Tick, IoStep, IoApply, IoGrab, IoDispatch, JobStep, JobStart,
       JobRetrieve, JobFails, JobPublish, JobNotify, UpdateStream, StopStep, StopCas,
       StopMark, StopDropFrame, job
  <2> QED
    BY <2>1, <2>2, <2>3, <2>4
<1>2. ASSUME NEW c \in Client, ClientStep(c) PROVE ThreadTypes'
  BY <1>2, ClientFrame, ClientMoves
<1>3. ASSUME NEW p \in Poller, PollStep(p) PROVE ThreadTypes'
  BY <1>3, PollFrameOnly DEF PollStep, PollFrame, PollSeq
<1>4. CASE UNCHANGED vars
  BY <1>4 DEF vars, stopping, source, job, clients, pollers
<1> QED
  BY <1>1, <1>2, <1>3, <1>4 DEF Next

(* Numbers of frames and times stay in their ranges. *)
LEMMA DataStep == DataTypes /\ [Next]_vars => DataTypes'
<1> SUFFICES ASSUME DataTypes, [Next]_vars PROVE DataTypes'
  OBVIOUS
<1> USE BoundAssumption DEF DataTypes, NoFrame, Frame, Time
<1>1. CASE Tick
  BY <1>1 DEF Tick, source, job, cache, clients, pollers
<1>2. CASE IoStep
  <2>1. UNCHANGED <<client_seq, got, poll_frame, poll_seq>>
    BY <1>2, WriterFrame
  <2>2. CASE IoApply
    BY <2>1, <2>2 DEF IoApply, job
  <2>3. CASE IoGrab
    BY <2>1, <2>3 DEF IoGrab, job, cache
  <2>4. CASE IoDispatch
    BY <2>1, <2>4 DEF IoDispatch, cache
  <2> QED
    BY <1>2, <2>2, <2>3, <2>4 DEF IoStep
<1>3. CASE JobStep
  <2>1. UNCHANGED <<client_seq, got, poll_frame, poll_seq>>
    BY <1>3, WriterFrame
  <2>2. CASE JobStart \/ JobFails
    BY <2>1, <2>2 DEF JobStart, JobFails, source, cache
  <2>3. CASE JobRetrieve
    BY <2>1, <2>3 DEF JobRetrieve, source, cache
  <2>4. CASE JobPublish
    BY <2>1, <2>4 DEF JobPublish, source
  <2>5. CASE JobNotify
    BY <2>1, <2>5 DEF JobNotify, source, cache
  <2> QED
    BY <1>3, <2>2, <2>3, <2>4, <2>5 DEF JobStep
<1>4. CASE UpdateStream
  BY <1>4, WriterFrame DEF UpdateStream, source, job
<1>5. CASE StopStep
  <2>1. UNCHANGED <<clock, io_pc, grabs, arrived, last_grab, current, updates, job_pc,
                    job_frame, frame_seq, client_seq, got, poll_frame, poll_seq>>
    BY <1>5, WriterFrame
       DEF StopStep, StopCas, StopMark, StopDropFrame, source, job, cache
  <2>2. latest' \in {latest, NoFrame}
    BY <1>5 DEF StopStep, StopCas, StopMark, StopDropFrame, cache
  <2> QED
    BY <2>1, <2>2
<1>6. ASSUME NEW c \in Client, ClientStep(c) PROVE DataTypes'
  <2>1. client_seq' \in [Client -> Time] /\ got' \in [Client -> 0..grabs]
    BY <1>6, ClientFrame DEF ReturnFrame
  <2> QED
    BY <1>6, <2>1, ClientFrame
<1>7. ASSUME NEW p \in Poller, PollStep(p) PROVE DataTypes'
  <2>1. poll_frame' \in [Poller -> 0..grabs] /\ poll_seq' \in [Poller -> Time]
    BY <1>7 DEF PollStep, PollFrame, PollSeq
  <2> QED
    BY <1>7, <2>1, PollFrameOnly
<1>8. CASE UNCHANGED vars
  BY <1>8 DEF vars, source, job, cache, clients, pollers
<1> QED
  BY <1>1, <1>2, <1>3, <1>4, <1>5, <1>6, <1>7, <1>8 DEF Next

(* Together: every step keeps the types. *)
LEMMA TypeStep == TypeOK /\ [Next]_vars => TypeOK'
BY FlagStep, ThreadStep, DataStep DEF TypeOK

-----------------------------------------------------------------------------
(* running_ and the progress of stop() stay in step. *)
LEMMA StopStepInv == StopInv /\ [Next]_vars => StopInv'
<1> SUFFICES ASSUME StopInv, [Next]_vars PROVE StopInv'
  OBVIOUS
<1> USE DEF StopInv
<1>1. CASE Tick \/ IoStep \/ JobStep \/ UpdateStream
  BY <1>1 DEF Tick, IoStep, IoApply, IoGrab, IoDispatch, JobStep, JobStart, JobRetrieve,
     JobFails, JobPublish, JobNotify, UpdateStream, stopping
<1>2. CASE StopStep
  BY <1>2 DEF StopStep, StopCas, StopMark, StopDropFrame
<1>3. ASSUME NEW c \in Client, ClientStep(c) PROVE StopInv'
  BY <1>3, ClientFrame
<1>4. ASSUME NEW p \in Poller, PollStep(p) PROVE StopInv'
  BY <1>4, PollFrameOnly
<1>5. CASE UNCHANGED vars
  BY <1>5 DEF vars, stopping
<1> QED
  BY <1>1, <1>2, <1>3, <1>4, <1>5 DEF Next

-----------------------------------------------------------------------------
(***************************************************************************)
(* A call that sleeps with something to do is about to be woken: whoever   *)
(* gives it something to do still has its notification ahead.              *)
(***************************************************************************)
LEMMA WakeStep ==
  TypeOK /\ StopInv /\ NoLostWakeup /\ [Next]_vars => NoLostWakeup'
<1> SUFFICES ASSUME TypeOK, StopInv, NoLostWakeup, [Next]_vars
             PROVE  NoLostWakeup'
  OBVIOUS
<1> USE DEF NoLostWakeup, Waits
<1>1. NotifyAll => NoLostWakeup'
  BY DEF NotifyAll
<1>2. CASE Tick
  BY <1>2 DEF Tick, stopping, source, job, cache, clients
<1>3. CASE IoStep
  <2>1. CASE IoApply
    BY <1>1, <2>1 DEF IoApply
  <2>2. CASE IoGrab
    BY <2>2 DEF IoGrab, stopping, job, cache, clients
  <2>3. CASE IoDispatch
    BY <2>3 DEF IoDispatch, stopping, cache, clients
  <2> QED
    BY <1>3, <2>1, <2>2, <2>3 DEF IoStep
<1>4. CASE JobStep
  BY <1>1, <1>4 DEF JobStep, JobStart, JobRetrieve, JobFails, JobPublish, JobNotify,
                    stopping, cache, clients
<1>5. CASE UpdateStream
  BY <1>1, <1>5 DEF UpdateStream
<1>6. CASE StopStep
  BY <1>1, <1>6 DEF StopStep, StopCas, StopMark, StopDropFrame, job, cache, clients
<1>7. ASSUME NEW c \in Client, ClientStep(c) PROVE NoLostWakeup'
  <2> SUFFICES ASSUME NEW d \in Client, pc'[d] = "waiting", ~Waits(d)'
               PROVE  (job_pc = "notifying" \/ stop_pc \in {"marking", "dropping"})'
    OBVIOUS
  <2>1. UNCHANGED <<running, frame_seq, job_pc, stop_pc>>
    BY <1>7, ClientFrame
  <2>2. CASE d = c
    <3>1. Waits(c) /\ pc[c] = "calling"
      BY <1>7, <2>2 DEF TypeOK, ThreadTypes, ClientStep, HandlerStep, Connect, Cancel, Loop, Wait,
                        Expire, ReturnEmpty, ReturnFrame, ClientGoes
    <3>2. UNCHANGED client_seq
      BY <1>7, <3>1, ClientFrame DEF ReturnFrame, Returns
    <3> QED
      BY <2>1, <2>2, <3>1, <3>2
  <2>3. CASE d # c
    <3>1. pc[d] = "waiting"
      BY <1>7, <2>3, ClientMoves DEF TypeOK, ThreadTypes
    <3>2. client_seq'[d] = client_seq[d]
      BY <1>7, <2>3, ClientFrame DEF ReturnFrame, TypeOK, DataTypes
    <3> QED
      BY <2>1, <3>1, <3>2
  <2> QED
    BY <2>2, <2>3
<1>8. ASSUME NEW p \in Poller, PollStep(p) PROVE NoLostWakeup'
  BY <1>8, PollFrameOnly
<1>9. CASE UNCHANGED vars
  BY <1>9 DEF vars, stopping, job, cache, clients
<1> QED
  BY <1>2, <1>3, <1>4, <1>5, <1>6, <1>7, <1>8, <1>9 DEF Next

-----------------------------------------------------------------------------
(* The clock runs forward, and grabs are stamped with it. *)
LEMMA ClockStep == TypeOK /\ ClockInv /\ [Next]_vars => ClockInv'
<1> SUFFICES ASSUME TypeOK, ClockInv, [Next]_vars PROVE ClockInv'
  OBVIOUS
<1> USE DEF TypeOK, DataTypes, ClockInv, Frame, Time
<1>1. CASE Tick
  BY <1>1 DEF Tick, source
<1>2. CASE IoStep
  <2>1. CASE IoGrab
    BY <2>1, BoundAssumption DEF IoGrab
  <2>2. CASE IoApply \/ IoDispatch
    BY <2>2 DEF IoApply, IoDispatch
  <2> QED
    BY <1>2, <2>1, <2>2 DEF IoStep
<1>3. CASE JobStep \/ UpdateStream \/ StopStep
  BY <1>3 DEF JobStep, JobStart, JobRetrieve, JobFails, JobPublish, JobNotify,
     UpdateStream, StopStep, StopCas, StopMark, StopDropFrame, source
<1>4. ASSUME NEW c \in Client, ClientStep(c) PROVE ClockInv'
  BY <1>4, ClientFrame
<1>5. ASSUME NEW p \in Poller, PollStep(p) PROVE ClockInv'
  BY <1>5, PollFrameOnly
<1>6. CASE UNCHANGED vars
  BY <1>6 DEF vars, source
<1> QED
  BY <1>1, <1>2, <1>3, <1>4, <1>5, <1>6 DEF Next

(***************************************************************************)
(* frame_seq may go back, but never behind the arrival of a frame that     *)
(* was grabbed: it takes the time of the last grab or a later one.         *)
(***************************************************************************)
LEMMA SeqMoves ==
  TypeOK /\ ClockInv /\ [Next]_vars =>
    frame_seq' = frame_seq \/ \A f \in 1..grabs : frame_seq' >= arrived[f]
<1> SUFFICES ASSUME TypeOK, ClockInv, [Next]_vars, frame_seq' # frame_seq
             PROVE  \A f \in 1..grabs : frame_seq' >= arrived[f]
  OBVIOUS
<1>1. frame_seq' = last_grab \/ frame_seq' = clock
  <2>1. ASSUME NEW c \in Client, ClientStep(c) PROVE FALSE
    BY <2>1, ClientFrame
  <2>2. ASSUME NEW p \in Poller, PollStep(p) PROVE FALSE
    BY <2>2, PollFrameOnly
  <2>3. CASE Tick \/ IoStep \/ JobStep \/ UpdateStream \/ StopStep
    BY <2>3 DEF Tick, IoStep, IoApply, IoGrab, IoDispatch, JobStep, JobStart,
       JobRetrieve, JobFails, JobPublish, JobNotify, UpdateStream, StopStep, StopCas,
       StopMark, StopDropFrame, cache
  <2> QED
    BY <2>1, <2>2, <2>3 DEF Next, vars, cache
<1> QED
  BY <1>1, BoundAssumption DEF TypeOK, DataTypes, ClockInv, Frame, Time

(* A grabbed frame keeps its time of arrival. *)
LEMMA ArrivalKept ==
  TypeOK /\ [Next]_vars => grabs' >= grabs /\ \A f \in 1..grabs : arrived'[f] = arrived[f]
<1> SUFFICES ASSUME TypeOK, [Next]_vars
             PROVE  grabs' >= grabs /\ \A f \in 1..grabs : arrived'[f] = arrived[f]
  OBVIOUS
<1> USE DEF TypeOK, DataTypes, Frame, Time
<1>1. CASE IoGrab
  BY <1>1, BoundAssumption DEF IoGrab
<1>2. CASE UNCHANGED <<grabs, arrived>>
  BY <1>2, BoundAssumption
<1>3. ASSUME NEW c \in Client, ClientStep(c) PROVE UNCHANGED <<grabs, arrived>>
  BY <1>3, ClientFrame
<1>4. ASSUME NEW p \in Poller, PollStep(p) PROVE UNCHANGED <<grabs, arrived>>
  BY <1>4, PollFrameOnly
<1>5. CASE Tick \/ IoApply \/ IoDispatch \/ JobStep \/ UpdateStream \/ StopStep
  BY <1>2, <1>5 DEF Tick, IoApply, IoDispatch, JobStep, JobStart, JobRetrieve, JobFails,
     JobPublish, JobNotify, UpdateStream, StopStep, StopCas, StopMark, StopDropFrame,
     source
<1> QED
  BY <1>1, <1>2, <1>3, <1>4, <1>5 DEF Next, IoStep, vars, source

-----------------------------------------------------------------------------
(* Timestamps stay behind no frame they go with. *)
LEMMA StampStep ==
  TypeOK /\ TypeOK' /\ ClockInv /\ StampInv /\ [Next]_vars => StampInv'
<1> SUFFICES ASSUME TypeOK, TypeOK', ClockInv, StampInv, [Next]_vars
             PROVE  StampInv'
  OBVIOUS
<1>a. frame_seq' = frame_seq \/ \A f \in 1..grabs : frame_seq' >= arrived[f]
  BY SeqMoves
<1>b. grabs' >= grabs /\ \A f \in 1..grabs : arrived'[f] = arrived[f]
  BY ArrivalKept
<1> USE DEF StampInv, NeverBackdated, NoFrame, TypeOK, DataTypes, ThreadTypes
<1>1. (latest # NoFrame => frame_seq >= arrived[latest])'
  <2>1. latest' \in {latest, NoFrame} \/ JobPublish
    <3>1. ASSUME NEW c \in Client, ClientStep(c) PROVE latest' = latest
      BY <3>1, ClientFrame
    <3>2. ASSUME NEW p \in Poller, PollStep(p) PROVE latest' = latest
      BY <3>2, PollFrameOnly
    <3>3. CASE Tick \/ IoStep \/ JobStep \/ UpdateStream \/ StopStep
      BY <3>3 DEF Tick, IoStep, IoApply, IoGrab, IoDispatch, JobStep, JobStart,
         JobRetrieve, JobFails, JobNotify, UpdateStream, StopStep, StopCas, StopMark,
         StopDropFrame, cache
    <3> QED
      BY <3>1, <3>2, <3>3 DEF Next, vars, cache
  <2>2. CASE latest' \in {latest, NoFrame}
    BY <1>a, <1>b, <2>2
  <2>3. CASE JobPublish
    BY <2>3, <1>b DEF JobPublish, ClockInv, source
  <2> QED
    BY <2>1, <2>2, <2>3
<1>2. (\A c \in Client : got[c] # NoFrame => client_seq[c] >= arrived[got[c]])'
  <2>1. CASE UNCHANGED <<client_seq, got>>
    BY <1>b, <2>1
  <2>2. ASSUME NEW c \in Client, ReturnFrame(c)
        PROVE  \A d \in Client : got'[d] # NoFrame => client_seq'[d] >= arrived[got'[d]]
    <3> SUFFICES ASSUME NEW d \in Client, got'[d] # NoFrame
                 PROVE  client_seq'[d] >= arrived[got'[d]]
      OBVIOUS
    <3>1. CASE d # c
      BY <2>2, <3>1 DEF ReturnFrame
    <3>2. CASE d = c /\ got'[c] = latest
      BY <2>2, <3>2 DEF ReturnFrame, HasNewFrame
    <3>3. CASE d = c /\ got'[c] = got[c]
      <4>1. arrived[got[c]] \in Time
        BY <3>3, BoundAssumption DEF Frame
      <4>2. client_seq[c] >= arrived[got[c]] /\ frame_seq > client_seq[c]
        BY <2>2, <3>3 DEF ReturnFrame, HasNewFrame
      <4> QED
        BY <2>2, <3>3, <4>1, <4>2 DEF ReturnFrame, Time
    <3> QED
      BY <2>2, <3>1, <3>2, <3>3 DEF ReturnFrame
  <2>3. UNCHANGED <<client_seq, got>> \/ \E c \in Client : ReturnFrame(c)
    BY ClientFrame, WriterFrame, PollFrameOnly DEF Next, vars, clients
  <2>4. ASSUME NEW c \in Client, ReturnFrame(c) PROVE UNCHANGED arrived
    BY <2>4 DEF ReturnFrame, source
  <2> QED
    BY <2>1, <2>2, <2>3, <2>4
<1>3. /\ (\A p \in Poller : poll_pc[p] # "idle" => poll_frame[p] # NoFrame)'
      /\ (\A p \in Poller : poll_pc[p] = "taken" => frame_seq >= arrived[poll_frame[p]])'
      /\ (\A p \in Poller : poll_pc[p] = "replied" => poll_seq[p] >= arrived[poll_frame[p]])'
  <2>1. CASE UNCHANGED pollers
    BY <1>a, <1>b, <2>1 DEF pollers
  <2>2. ASSUME NEW p \in Poller, PollFrame(p)
        PROVE  <1>3!1 /\ <1>3!2 /\ <1>3!3
    BY <2>2 DEF PollFrame, source, cache
  <2>3. ASSUME NEW p \in Poller, PollSeq(p)
        PROVE  <1>3!1 /\ <1>3!2 /\ <1>3!3
    BY <2>3 DEF PollSeq, source, cache
  <2>4. UNCHANGED pollers \/ \E p \in Poller : PollStep(p)
    BY ClientFrame, WriterFrame DEF Next, vars, pollers
  <2> QED
    BY <2>1, <2>2, <2>3, <2>4 DEF PollStep
<1> QED
  BY <1>1, <1>2, <1>3

-----------------------------------------------------------------------------
(* Frames stay in order on their way from the grab to the client. *)
LEMMA OrderStep == TypeOK /\ OrderInv /\ [Next]_vars => OrderInv'
<1> SUFFICES ASSUME TypeOK, OrderInv, [Next]_vars PROVE OrderInv'
  OBVIOUS
<1> USE DEF OrderInv, Fresh, TypeOK, DataTypes, NoFrame
<1>1. CASE Tick
  BY <1>1 DEF Tick, source, job, cache, clients
<1>2. CASE IoStep
  <2>1. CASE IoApply
    BY <2>1 DEF IoApply, job
  <2>2. CASE IoGrab
    BY <2>2 DEF IoGrab, job, cache, clients
  <2>3. CASE IoDispatch
    BY <2>3 DEF IoDispatch, cache, clients
  <2> QED
    BY <1>2, <2>1, <2>2, <2>3 DEF IoStep
<1>3. CASE JobStep
  <2>1. CASE JobStart \/ JobFails
    BY <2>1 DEF JobStart, JobFails, source, cache, clients
  <2>2. CASE JobRetrieve
    BY <2>2 DEF JobRetrieve, source, cache, clients
  <2>3. CASE JobPublish
    BY <2>3 DEF JobPublish, source, clients
  <2>4. CASE JobNotify
    BY <2>4 DEF JobNotify, source, cache
  <2> QED
    BY <1>3, <2>1, <2>2, <2>3, <2>4 DEF JobStep
<1>4. CASE UpdateStream
  BY <1>4 DEF UpdateStream, source, job
<1>5. CASE StopStep
  BY <1>5 DEF StopStep, StopCas, StopMark, StopDropFrame, source, job, cache, clients
<1>6. ASSUME NEW c \in Client, ClientStep(c) PROVE OrderInv'
  <2>1. CASE UNCHANGED <<client_seq, got>>
    BY <1>6, <2>1, ClientFrame
  <2>2. CASE ReturnFrame(c)
    BY <2>2 DEF ReturnFrame, HasNewFrame, source, job, cache, Time
  <2> QED
    BY <1>6, <2>1, <2>2, ClientFrame
<1>7. ASSUME NEW p \in Poller, PollStep(p) PROVE OrderInv'
  BY <1>7, PollFrameOnly
<1>8. CASE UNCHANGED vars
  BY <1>8 DEF vars, source, job, cache, clients
<1> QED
  BY <1>1, <1>2, <1>3, <1>4, <1>5, <1>6, <1>7, <1>8 DEF Next

-----------------------------------------------------------------------------
(***************************************************************************)
(* The stamps: a frame a client is not offered arrived when the client's   *)
(* last one was handed over.                                               *)
(***************************************************************************)
LEMMA TwinStep ==
  TypeOK /\ TypeOK' /\ ClockInv /\ TwinInv /\ [Next]_vars => TwinInv'
<1> SUFFICES ASSUME TypeOK, TypeOK', ClockInv, TwinInv, [Next]_vars PROVE TwinInv'
  OBVIOUS
<1> USE BoundAssumption
    DEF TwinInv, OnlyTwinsAreHidden, ClockInv, TypeOK, DataTypes, NoFrame, Frame, Time
<1>1. CASE Tick
  BY <1>1 DEF Tick, source, job, cache, clients
<1>2. CASE IoStep
  <2>1. CASE IoApply
    BY <2>1 DEF IoApply, job
  <2>2. CASE IoGrab
    BY <2>2 DEF IoGrab, job, cache, clients
  <2>3. CASE IoDispatch
    BY <2>3 DEF IoDispatch, cache, clients
  <2> QED
    BY <1>2, <2>1, <2>2, <2>3 DEF IoStep
<1>3. CASE JobStep
  <2>1. CASE JobStart \/ JobFails
    BY <2>1 DEF JobStart, JobFails, source, cache, clients
  <2>2. CASE JobRetrieve
    BY <2>2 DEF JobRetrieve, source, cache, clients
  <2>3. CASE JobPublish
    BY <2>3 DEF JobPublish, source, clients
  <2>4. CASE JobNotify
    BY <2>4 DEF JobNotify, source, cache
  <2> QED
    BY <1>3, <2>1, <2>2, <2>3, <2>4 DEF JobStep
<1>4. CASE UpdateStream
  BY <1>4 DEF UpdateStream, source, job
<1>5. CASE StopStep
  BY <1>5 DEF StopStep, StopCas, StopMark, StopDropFrame, source, job, cache, clients
<1>6. ASSUME NEW c \in Client, ClientStep(c) PROVE TwinInv'
  <2>1. CASE UNCHANGED <<client_seq, got>>
    BY <1>6, <2>1, ClientFrame
  <2>2. CASE ReturnFrame(c)
    BY <2>2 DEF ReturnFrame, HasNewFrame, source, job, cache
  <2> QED
    BY <1>6, <2>1, <2>2, ClientFrame
<1>7. ASSUME NEW p \in Poller, PollStep(p) PROVE TwinInv'
  BY <1>7, PollFrameOnly
<1>8. CASE UNCHANGED vars
  BY <1>8 DEF vars, source, job, cache, clients
<1> QED
  BY <1>1, <1>2, <1>3, <1>4, <1>5, <1>6, <1>7, <1>8 DEF Next

(* A job is counted only while the stream runs, and stop() waits for it. *)
LEMMA DoneStep == StopInv /\ DoneInv /\ [Next]_vars => DoneInv'
<1> SUFFICES ASSUME StopInv, DoneInv, [Next]_vars PROVE DoneInv'
  OBVIOUS
<1> USE DEF DoneInv, InFlight, StopInv
<1>1. CASE Tick \/ IoStep \/ JobStep \/ UpdateStream \/ StopStep
  BY <1>1 DEF Tick, IoStep, IoApply, IoGrab, IoDispatch, JobStep, JobStart, JobRetrieve,
     JobFails, JobPublish, JobNotify, UpdateStream, StopStep, StopCas, StopMark,
     StopDropFrame, stopping, job
<1>2. ASSUME NEW c \in Client, ClientStep(c) PROVE DoneInv'
  BY <1>2, ClientFrame
<1>3. ASSUME NEW p \in Poller, PollStep(p) PROVE DoneInv'
  BY <1>3, PollFrameOnly
<1>4. CASE UNCHANGED vars
  BY <1>4 DEF vars, stopping, job
<1> QED
  BY <1>1, <1>2, <1>3, <1>4 DEF Next

-----------------------------------------------------------------------------
(* IInv is an invariant. *)
THEOREM Invariance == Spec => []IInv
<1>1. IInv /\ [Next]_vars => IInv'
  BY TypeStep, StopStepInv, WakeStep, ClockStep, StampStep, OrderStep, TwinStep, DoneStep
     DEF IInv
<1> QED
  BY InitIInv, <1>1, PTL DEF Spec

(* Type correctness of the frame cache and its clients: TypeOK. *)
THEOREM TypeCorrect == Spec => []TypeOK
<1>1. IInv => TypeOK
  BY DEF IInv
<1> QED
  BY <1>1, Invariance, PTL

(* No wake-up of a waiting client is lost, however many there are. *)
THEOREM WakeupsArrive == Spec => []NoLostWakeup
<1>1. IInv => NoLostWakeup
  BY DEF IInv
<1> QED
  BY <1>1, Invariance, PTL

(* No client is told that a frame is older than it is. *)
THEOREM StampsNotEarly == Spec => []NeverBackdated
<1>1. IInv => NeverBackdated
  BY DEF IInv, StampInv
<1> QED
  BY <1>1, Invariance, PTL

(* Every StreamFrames call is sent its frames in the order of their grabs. *)
THEOREM InOrder == Spec => FramesGoForward
<1> DEFINE Forward == \A c \in Client : client_seq'[c] # client_seq[c] => latest > got[c]
<1>1. IInv /\ [Next]_vars => [Forward]_vars
  <2> SUFFICES ASSUME IInv, Next PROVE Forward
    OBVIOUS
  <2>1. CASE UNCHANGED client_seq
    BY <2>1
  <2>2. ASSUME NEW c \in Client, ReturnFrame(c) PROVE Forward
    BY <2>2 DEF IInv, TypeOK, DataTypes, OrderInv, ReturnFrame, HasNewFrame
  <2> QED
    BY <2>1, <2>2, ClientFrame, WriterFrame, PollFrameOnly DEF Next
<1> QED
  BY Invariance, <1>1, PTL DEF Spec, FramesGoForward

(* The frames a client never gets to see because frame_seq_ is a clock     *)
(* (waitForNextFrame(), stream_task.cpp:1207): those of the millisecond    *)
(* its last frame was handed over with, and no others.                     *)
THEOREM OnlyTwins == Spec => []OnlyTwinsAreHidden
<1>1. IInv => OnlyTwinsAreHidden
  BY DEF IInv, TwinInv
<1> QED
  BY <1>1, Invariance, PTL

(* The cache implements the steps of StreamLife: nothing is published once *)
(* stop() has ended, and the end of stop() takes back what was.            *)
THEOREM CacheKeepsToLife == Spec => StepsOfALife
<1>1. IInv /\ [Next]_vars => [Life!Next]_(Life!lifeVars)
  <2> SUFFICES ASSUME IInv, [Next]_vars PROVE [Life!Next]_(Life!lifeVars)
    OBVIOUS
  <2>a. StopInv /\ DoneInv /\ job_frame \in IF job_pc \in {"encoding", "notifying"}
                                            THEN 1..grabs ELSE {NoFrame}
    BY DEF IInv, TypeOK, DataTypes
  <2> USE DEF lifePhase, decoderUser, Life!lifeVars
  <2>1. CASE IoGrab
    BY <2>1 DEF IoGrab, stopping, cache, Life!Next, Life!Use
  <2>2. CASE IoDispatch
    BY <2>2 DEF IoDispatch, stopping, cache, Life!Next, Life!Leave
  <2>3. CASE IoApply \/ UpdateStream
    BY <2>3 DEF IoApply, UpdateStream, stopping, source, Life!Next, Life!Withdraw
  <2>4. CASE JobPublish
    <3>1. job_frame # NoFrame /\ stop_pc # "done"
      BY <2>a, <2>4 DEF JobPublish, DoneInv, InFlight, NoFrame
    <3> QED
      BY <2>4, <3>1, <2>a DEF JobPublish, stopping, source, StopInv, Life!Next, Life!Publish
  <2>5. CASE StopCas
    BY <2>5 DEF StopCas, source, cache, Life!Next, Life!Stop
  <2>6. CASE StopDropFrame
    BY <2>6 DEF StopDropFrame, source, Life!Next, Life!Stopped
  <2>7. CASE Tick \/ JobStart \/ JobRetrieve \/ JobFails \/ JobNotify \/ StopMark
    BY <2>7 DEF Tick, JobStart, JobRetrieve, JobFails, JobNotify, StopMark, stopping, source,
       cache
  <2>8. ASSUME NEW c \in Client, ClientStep(c) PROVE UNCHANGED Life!lifeVars
    BY <2>8, ClientFrame
  <2>9. ASSUME NEW p \in Poller, PollStep(p) PROVE UNCHANGED Life!lifeVars
    BY <2>9, PollFrameOnly
  <2>10. CASE UNCHANGED vars
    BY <2>10 DEF vars, stopping, source, cache
  <2> QED
    BY <2>1, <2>2, <2>3, <2>4, <2>5, <2>6, <2>7, <2>8, <2>9, <2>10
    DEF Next, IoStep, JobStep, StopStep
<1> QED
  BY <1>1, Invariance, PTL DEF Spec, StepsOfALife
=============================================================================
