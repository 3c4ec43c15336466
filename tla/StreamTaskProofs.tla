-------------------------- MODULE StreamTaskProofs --------------------------
(***************************************************************************)
(* Proofs about StreamTask, for any number of workers, of callers of       *)
(* stop() and of addresses: the inductive invariant IInv and the safety    *)
(* properties it implies.                                                  *)
(***************************************************************************)
EXTENDS StreamTask, TLAPS

(* The initial state satisfies every part of the inductive invariant. *)
LEMMA InitIInv == Init => IInv
<1> SUFFICES ASSUME Init PROVE IInv
  OBVIOUS
<1> USE ThreadAssumption, FrameAssumption
        DEF Init, StopThread, Winning, Teardown,
        Active, Counted, Touching, Kind
<1>1. TypeOK
  BY DEF TypeOK, FlagTypes, ThreadTypes, DataTypes
<1>2. MutexInv /\ JobInv /\ FlightInv /\ StartInv
  BY DEF MutexInv, JobInv, OneComputeJob, FlightInv, StartInv
<1>3. StopInv /\ HandleInv /\ WritesMappedShm
  BY DEF StopInv, NoTeardownUnderCompute, HandleInv, StopReleasesDecoder,
         WritesMappedShm
<1> QED
  BY <1>1, <1>2, <1>3 DEF IInv

-----------------------------------------------------------------------------
(* start() raises running_, lowers stopped_ and spawns the IO thread. *)
LEMMA StartFrame ==
  ASSUME Start
  PROVE  /\ UNCHANGED <<stop_pc, job_pc, job_frame, queued, compute_scheduled,
                        compute_in_flight, decoder_mutex, url, pending_url,
                        pending_kind, url_changed, decoder_changed,
                        force_reopen, decoder_kind, decoder_open, decoder_url,
                        latest, shm, use_shared_mem, owned, alive>>
         /\ running' = running \/ running' = TRUE
         /\ stopped' = stopped \/ stopped' = FALSE
BY DEF Start, StartCas, StartReset, StartSpawn, StartAssign,
   flags, threads, pool, switch, decoder, output, life

(* What a step of the IO thread leaves alone: only a dispatch touches the   *)
(* pool, and the frame cache is at most emptied.                           *)
LEMMA IoFrame ==
  ASSUME IoStep
  PROVE  /\ UNCHANGED <<running, stopped, io_thread, start_pc, stop_pc, job_pc,
                        job_frame, compute_in_flight, pending_url,
                        pending_kind, shm, use_shared_mem, owned, alive>>
         /\ latest' = latest \/ latest' = NoFrame
         /\ UNCHANGED <<queued, compute_scheduled>> \/ IoDispatch \/ IoEnqueue
BY DEF IoStep, IoEnter, IoLoop, IoLock, ApplyDecoderSwitch, ApplyUrlChange,
   NothingToApply, IoReturn, IoGiveUp, IoOpenSkipped, IoOpenGivesUp,
   IoOpenSucceeds, IoOpenFails, IoGrabSucceeds, IoGrabFailsInGrace,
   IoGrabFails, IoDrop, IoTestRunning, IoDropBusy, IoDispatch,
         IoEnqueue, IoStopReturned,
   flags, threads, pool, switch, decoder, output, life

(* How the IO thread moves: a stopping stream only leads it to its end. *)
LEMMA IoMoves ==
  ASSUME IoStep
  PROVE  /\ io_pc' \in {"loop", "lock", "open", "grab", "dispatch", "claim",
                        "enqueue", "stop", "done"}
         /\ io_pc \notin {"none", "done"}
         /\ io_pc = "loop" => io_pc' = IF running THEN "lock" ELSE "done"
         /\ io_pc = "stop" =>
              io_pc' = "loop" /\ stop_pc[IO] \in {"noop", "done"}
         /\ io_pc' = "done" => io_pc = "loop"
         /\ io_pc' = "stop" => io_pc \in {"open", "grab"}
         /\ io_pc' = "enqueue" => IoDispatch
         /\ io_pc \in {"entering", "loop", "stop", "enqueue"} =>
              UNCHANGED <<decoder_open, status>>
         /\ decoder_mutex' \in {decoder_mutex, IO, NoThread}
BY DEF IoStep, IoEnter, IoLoop, IoLock, ApplyDecoderSwitch, ApplyUrlChange,
   NothingToApply, IoReturn, IoGiveUp, IoOpenSkipped, IoOpenGivesUp,
   IoOpenSucceeds, IoOpenFails, IoGrabSucceeds, IoGrabFailsInGrace,
   IoGrabFails, IoDrop, IoTestRunning, IoDropBusy, IoDispatch,
         IoEnqueue, IoStopReturned,
   flags, threads, pool, switch, decoder, output, life

(* A compute job changes no flag but the one-job flag, and no decoder. *)
LEMMA JobFrame ==
  ASSUME NEW w \in Worker, JobStep(w)
  PROVE  /\ UNCHANGED <<running, stopped, io_thread, start_pc, io_pc, url,
                        pending_url, pending_kind, url_changed,
                        decoder_changed, force_reopen, decoder_kind,
                        decoder_open, decoder_url, status, use_shared_mem,
                        owned, alive>>
         /\ compute_scheduled' = compute_scheduled \/ compute_scheduled' = FALSE
BY DEF JobStep, JobGoes, JobDequeue, JobTestRunning, JobCount,
   JobRetestRunning, JobLock, JobRetrieve, JobPublishJpeg, JobEnsureShm,
   JobWriteShm, JobUncount, JobNotify, JobEnd,
   flags, threads, pool, switch, decoder, output, life

(* stop() only lowers running_, raises stopped_ and closes the decoder. *)
LEMMA StopFrame ==
  ASSUME NEW t \in StopThread, StopStep(t)
  PROVE  /\ UNCHANGED <<start_pc, io_pc, job_pc, job_frame, queued,
                        compute_scheduled, compute_in_flight, decoder_mutex,
                        url, pending_url, pending_kind, url_changed,
                        decoder_changed, force_reopen, decoder_kind,
                        decoder_url, use_shared_mem, owned, alive>>
         /\ running' = running \/ running' = FALSE
         /\ stopped' = stopped \/ stopped' = TRUE
         /\ decoder_open' = decoder_open \/ decoder_open' = FALSE
BY DEF StopStep, StopProgress, StopGoes, StopCas, StopJoin, StopMark,
   StopTest, StopBlock, StopSpuriousWake, StopDropFrame,
   StopReleaseDecoder, StopCleanShm, StopReset,
   flags, threads, pool, switch, decoder, output, life

-----------------------------------------------------------------------------
(* Boolean flags only ever receive Boolean values. *)
LEMMA FlagStep == FlagTypes /\ [Next]_vars => FlagTypes'
<1> SUFFICES ASSUME FlagTypes, [Next]_vars PROVE FlagTypes'
  OBVIOUS
<1> USE DEF FlagTypes, flags, threads, pool, switch, decoder, output, life
<1>1. CASE Start
  BY <1>1, StartFrame, ZenonT(40)
<1>2. CASE IoStep
  <2>1. CASE IoEnter \/ IoLoop \/ IoOpenSkipped \/ IoDrop \/ IoTestRunning
             \/ IoDropBusy \/ IoDispatch \/ IoEnqueue \/ IoStopReturned
    <3>1. /\ UNCHANGED <<running, stopped, url_changed, decoder_changed,
                         force_reopen, decoder_open, use_shared_mem, owned,
                         alive>>
          /\ compute_scheduled' = compute_scheduled \/ compute_scheduled' = TRUE
      BY <2>1 DEF IoEnter, IoLoop, IoOpenSkipped, IoDrop, IoReturn,
         IoTestRunning, IoDropBusy, IoDispatch, IoEnqueue, IoStopReturned
    <3> QED
      BY <3>1, Zenon
  <2>2. CASE IoLock
    BY <2>2, Zenon DEF IoLock, ApplyDecoderSwitch, ApplyUrlChange,
       NothingToApply
  <2>3. CASE IoOpenGivesUp \/ IoOpenSucceeds
    <3>1. force_reopen' \in BOOLEAN
      BY <2>3, Zenon DEF IoOpenGivesUp, IoOpenSucceeds, ConsumeReopen
    <3> QED
      BY <2>3, <3>1, ZenonT(40) DEF IoOpenGivesUp, IoOpenSucceeds
  <2>4. CASE IoOpenFails
    <3>1. force_reopen' \in BOOLEAN
      BY <2>4, Zenon DEF IoOpenFails, ConsumeReopen
    <3>2. decoder_open' \in BOOLEAN
      BY <2>4, Zenon DEF IoOpenFails
    <3> QED
      BY <2>4, <3>1, <3>2, Zenon DEF IoOpenFails
  <2>5. CASE IoGrabFailsInGrace \/ IoGrabFails
    BY <2>5, ZenonT(40) DEF IoGrabFailsInGrace, IoGrabFails, OpenAfterFailedGrab
  <2>6. CASE IoGrabSucceeds
    BY <2>6, Zenon DEF IoGrabSucceeds
  <2> QED
    BY <1>2, <2>1, <2>2, <2>3, <2>4, <2>5, <2>6, Zenon DEF IoStep
<1>3. ASSUME NEW w \in Worker, JobStep(w) PROVE FlagTypes'
  BY <1>3, JobFrame, Zenon
<1>4. ASSUME NEW t \in StopThread, StopStep(t) PROVE FlagTypes'
  BY <1>4, StopFrame, Zenon
<1>5. CASE UpdateStream
  BY <1>5, Zenon DEF UpdateStream, updateUrl, switchDecoder
<1>6. CASE Forget \/ Destroy
  BY <1>6, ZenonT(40) DEF Forget, Destroy
<1>7. CASE UNCHANGED vars
  BY <1>7, Zenon DEF vars
<1> QED
  BY <1>1, <1>2, <1>3, <1>4, <1>5, <1>6, <1>7 DEF Next

(* Program counters, the mutex and the counters stay in their ranges. *)
LEMMA ThreadStep == IInv /\ [Next]_vars => ThreadTypes'
<1> SUFFICES ASSUME IInv, [Next]_vars PROVE ThreadTypes'
  OBVIOUS
<1> USE ThreadAssumption
        DEF IInv, TypeOK, ThreadTypes, StopThread, Winning, Active, FlightInv,
            Counted,
        flags, threads, pool, switch, decoder, output, life
<1>1. CASE Start
  BY <1>1 DEF Start, StartCas, StartReset, StartSpawn, StartAssign
<1>2. CASE IoStep
  <2>1. CASE IoEnqueue
    BY <2>1, <1>2, IoFrame, IoMoves DEF IoEnqueue
  <2>2. CASE IoDispatch
    BY <2>2, <1>2, IoFrame, IoMoves DEF IoDispatch
  <2> QED
    BY <1>2, <2>1, <2>2, IoFrame, IoMoves
<1>3. ASSUME NEW w \in Worker, JobStep(w) PROVE ThreadTypes'
  BY <1>3 DEF JobStep, JobGoes, JobDequeue, JobTestRunning, JobCount,
         JobRetestRunning, JobLock, JobRetrieve, JobPublishJpeg, JobEnsureShm,
         JobWriteShm, JobUncount, JobNotify, JobEnd
<1>4. ASSUME NEW t \in StopThread, StopStep(t) PROVE ThreadTypes'
  BY <1>4 DEF StopStep, StopProgress, StopGoes, StopCas, StopJoin, StopMark,
         StopTest, StopBlock, StopSpuriousWake, StopDropFrame,
         StopReleaseDecoder, StopCleanShm, StopReset
<1>5. CASE UpdateStream
  BY <1>5 DEF UpdateStream, updateUrl, switchDecoder
<1>6. CASE Forget \/ Destroy
  BY <1>6 DEF Forget, Destroy
<1>7. CASE UNCHANGED vars
  BY <1>7 DEF vars
<1> QED
  BY <1>1, <1>2, <1>3, <1>4, <1>5, <1>6, <1>7 DEF Next

(* Addresses, frames and the reported status stay in their ranges. *)
LEMMA DataStep == IInv /\ [Next]_vars => DataTypes'
<1> SUFFICES ASSUME IInv, [Next]_vars PROVE DataTypes'
  OBVIOUS
<1> USE ThreadAssumption DEF IInv, TypeOK, DataTypes, Kind,
        flags, threads, pool, switch, decoder, output, life
<1>1. CASE Start
  BY <1>1 DEF Start, StartCas, StartReset, StartSpawn, StartAssign
<1>2. CASE IoStep
  BY <1>2 DEF IoStep, IoEnter, IoLoop, IoLock, ApplyDecoderSwitch, ApplyUrlChange,
         NothingToApply, IoReturn, IoGiveUp, IoOpenSkipped, IoOpenGivesUp,
         IoOpenSucceeds, IoOpenFails, IoGrabSucceeds, IoGrabFailsInGrace,
         IoGrabFails, IoDrop, IoTestRunning, IoDropBusy, IoDispatch,
         IoEnqueue, IoStopReturned
<1>3. ASSUME NEW w \in Worker, JobStep(w) PROVE DataTypes'
  BY <1>3 DEF JobStep, JobGoes, JobDequeue, JobTestRunning, JobCount,
         JobRetestRunning, JobLock, JobRetrieve, JobPublishJpeg, JobEnsureShm,
         JobWriteShm, JobUncount, JobNotify, JobEnd
<1>4. ASSUME NEW t \in StopThread, StopStep(t) PROVE DataTypes'
  BY <1>4 DEF StopStep, StopProgress, StopGoes, StopCas, StopJoin, StopMark,
         StopTest, StopBlock, StopSpuriousWake, StopDropFrame,
         StopReleaseDecoder, StopCleanShm, StopReset
<1>5. CASE UpdateStream
  BY <1>5 DEF UpdateStream, updateUrl, switchDecoder
<1>6. CASE Forget \/ Destroy
  BY <1>6 DEF Forget, Destroy
<1>7. CASE UNCHANGED vars
  BY <1>7 DEF vars
<1> QED
  BY <1>1, <1>2, <1>3, <1>4, <1>5, <1>6, <1>7 DEF Next

-----------------------------------------------------------------------------
(* The decoder mutex is taken only when free and released only by its holder. *)
LEMMA MutexStep == IInv /\ [Next]_vars => MutexInv'
<1> SUFFICES ASSUME IInv, [Next]_vars PROVE MutexInv'
  OBVIOUS
<1> USE ThreadAssumption
        DEF IInv, TypeOK, ThreadTypes, StopThread, MutexInv, StartInv,
            Winning, Active,
        flags, threads, pool, switch, decoder, output, life
<1>1. CASE Start
  BY <1>1 DEF Start, StartCas, StartReset, StartSpawn, StartAssign
<1>2. CASE IoStep
  BY <1>2, ZenonT(60) DEF IoStep, IoEnter, IoLoop, IoLock, ApplyDecoderSwitch, ApplyUrlChange,
         NothingToApply, IoReturn, IoGiveUp, IoOpenSkipped, IoOpenGivesUp,
         IoOpenSucceeds, IoOpenFails, IoGrabSucceeds, IoGrabFailsInGrace,
         IoGrabFails, IoDrop, IoTestRunning, IoDropBusy, IoDispatch,
         IoEnqueue, IoStopReturned
<1>3. ASSUME NEW w \in Worker, JobStep(w) PROVE MutexInv'
  BY <1>3 DEF JobStep, JobGoes, JobDequeue, JobTestRunning, JobCount,
         JobRetestRunning, JobLock, JobRetrieve, JobPublishJpeg, JobEnsureShm,
         JobWriteShm, JobUncount, JobNotify, JobEnd
<1>4. ASSUME NEW t \in StopThread, StopStep(t) PROVE MutexInv'
  BY <1>4 DEF StopStep, StopProgress, StopGoes, StopCas, StopJoin, StopMark,
         StopTest, StopBlock, StopSpuriousWake, StopDropFrame,
         StopReleaseDecoder, StopCleanShm, StopReset
<1>5. CASE UpdateStream
  BY <1>5 DEF UpdateStream, updateUrl, switchDecoder
<1>6. CASE Forget \/ Destroy
  BY <1>6 DEF Forget, Destroy
<1>7. CASE UNCHANGED vars
  BY <1>7 DEF vars
<1> QED
  BY <1>1, <1>2, <1>3, <1>4, <1>5, <1>6, <1>7 DEF Next

(* The one-job flag protects the queue and the workers. *)
LEMMA JobStepInv == IInv /\ [Next]_vars => JobInv'
<1> SUFFICES ASSUME IInv, [Next]_vars PROVE JobInv'
  OBVIOUS
<1> USE ThreadAssumption
        DEF IInv, TypeOK, ThreadTypes, StopThread, JobInv, OneComputeJob,
            Active,
        flags, threads, pool, switch, decoder, output, life
<1>1. CASE Start
  BY <1>1 DEF Start, StartCas, StartReset, StartSpawn, StartAssign
<1>2. CASE IoStep
  <2>1. CASE IoDispatch
    BY <1>2, <2>1, IoFrame DEF IoDispatch
  <2>2. CASE IoEnqueue
    BY <1>2, <2>2, IoFrame DEF IoEnqueue
  <2>3. CASE ~IoDispatch /\ ~IoEnqueue
    BY <1>2, <2>3, IoFrame, IoMoves
  <2> QED
    BY <2>1, <2>2, <2>3
<1>3. ASSUME NEW w \in Worker, JobStep(w) PROVE JobInv'
  BY <1>3 DEF JobStep, JobGoes, JobDequeue, JobTestRunning, JobCount,
         JobRetestRunning, JobLock, JobRetrieve, JobPublishJpeg, JobEnsureShm,
         JobWriteShm, JobUncount, JobNotify, JobEnd
<1>4. ASSUME NEW t \in StopThread, StopStep(t) PROVE JobInv'
  BY <1>4 DEF StopStep, StopProgress, StopGoes, StopCas, StopJoin, StopMark,
         StopTest, StopBlock, StopSpuriousWake, StopDropFrame,
         StopReleaseDecoder, StopCleanShm, StopReset
<1>5. CASE UpdateStream
  BY <1>5 DEF UpdateStream, updateUrl, switchDecoder
<1>6. CASE Forget \/ Destroy
  BY <1>6 DEF Forget, Destroy
<1>7. CASE UNCHANGED vars
  BY <1>7 DEF vars
<1> QED
  BY <1>1, <1>2, <1>3, <1>4, <1>5, <1>6, <1>7 DEF Next

(* The in-flight counter follows the one job. *)
LEMMA FlightStep == IInv /\ [Next]_vars => FlightInv'
<1> SUFFICES ASSUME IInv, [Next]_vars PROVE FlightInv'
  OBVIOUS
<1> USE ThreadAssumption
        DEF IInv, TypeOK, ThreadTypes, StopThread, JobInv, OneComputeJob,
            Active, FlightInv, Counted,
        flags, threads, pool, switch, decoder, output, life
<1>1. CASE Start
  BY <1>1 DEF Start, StartCas, StartReset, StartSpawn, StartAssign
<1>2. CASE IoStep
  BY <1>2 DEF IoStep, IoEnter, IoLoop, IoLock, ApplyDecoderSwitch, ApplyUrlChange,
         NothingToApply, IoReturn, IoGiveUp, IoOpenSkipped, IoOpenGivesUp,
         IoOpenSucceeds, IoOpenFails, IoGrabSucceeds, IoGrabFailsInGrace,
         IoGrabFails, IoDrop, IoTestRunning, IoDropBusy, IoDispatch,
         IoEnqueue, IoStopReturned
<1>3. ASSUME NEW w \in Worker, JobStep(w) PROVE FlightInv'
  BY <1>3 DEF JobStep, JobGoes, JobDequeue, JobTestRunning, JobCount,
         JobRetestRunning, JobLock, JobRetrieve, JobPublishJpeg, JobEnsureShm,
         JobWriteShm, JobUncount, JobNotify, JobEnd
<1>4. ASSUME NEW t \in StopThread, StopStep(t) PROVE FlightInv'
  BY <1>4 DEF StopStep, StopProgress, StopGoes, StopCas, StopJoin, StopMark,
         StopTest, StopBlock, StopSpuriousWake, StopDropFrame,
         StopReleaseDecoder, StopCleanShm, StopReset
<1>5. CASE UpdateStream
  BY <1>5 DEF UpdateStream, updateUrl, switchDecoder
<1>6. CASE Forget \/ Destroy
  BY <1>6 DEF Forget, Destroy
<1>7. CASE UNCHANGED vars
  BY <1>7 DEF vars
<1> QED
  BY <1>1, <1>2, <1>3, <1>4, <1>5, <1>6, <1>7 DEF Next

(* start() is not repeated. *)
LEMMA StartStep == IInv /\ [Next]_vars => StartInv'
<1> SUFFICES ASSUME IInv, [Next]_vars PROVE StartInv'
  OBVIOUS
<1> USE ThreadAssumption
        DEF IInv, TypeOK, ThreadTypes, StopThread, StartInv, Winning,
        flags, threads, pool, switch, decoder, output, life
<1>1. CASE Start
  BY <1>1 DEF Start, StartCas, StartReset, StartSpawn, StartAssign
<1>2. CASE IoStep
  BY <1>2 DEF IoStep, IoEnter, IoLoop, IoLock, ApplyDecoderSwitch, ApplyUrlChange,
         NothingToApply, IoReturn, IoGiveUp, IoOpenSkipped, IoOpenGivesUp,
         IoOpenSucceeds, IoOpenFails, IoGrabSucceeds, IoGrabFailsInGrace,
         IoGrabFails, IoDrop, IoTestRunning, IoDropBusy, IoDispatch,
         IoEnqueue, IoStopReturned
<1>3. ASSUME NEW w \in Worker, JobStep(w) PROVE StartInv'
  BY <1>3 DEF JobStep, JobGoes, JobDequeue, JobTestRunning, JobCount,
         JobRetestRunning, JobLock, JobRetrieve, JobPublishJpeg, JobEnsureShm,
         JobWriteShm, JobUncount, JobNotify, JobEnd
<1>4. ASSUME NEW t \in StopThread, StopStep(t) PROVE StartInv'
  BY <1>4 DEF StopStep, StopProgress, StopGoes, StopCas, StopJoin, StopMark,
         StopTest, StopBlock, StopSpuriousWake, StopDropFrame,
         StopReleaseDecoder, StopCleanShm, StopReset
<1>5. CASE UpdateStream
  BY <1>5 DEF UpdateStream, updateUrl, switchDecoder
<1>6. CASE Forget \/ Destroy
  BY <1>6 DEF Forget, Destroy
<1>7. CASE UNCHANGED vars
  BY <1>7 DEF vars
<1> QED
  BY <1>1, <1>2, <1>3, <1>4, <1>5, <1>6, <1>7 DEF Next

(* Only one caller tears down, after the last job that may touch anything. *)
LEMMA StopStepInv == IInv /\ [Next]_vars => StopInv'
<1> SUFFICES ASSUME IInv, [Next]_vars PROVE StopInv'
  OBVIOUS
<1> USE ThreadAssumption
        DEF IInv, TypeOK, ThreadTypes, StopThread, DataTypes, StartInv,
            StopInv, FlightInv, NoTeardownUnderCompute, Winning, Teardown,
            Active, Counted, Touching,
        flags, threads, pool, switch, decoder, output, life
<1>1. CASE Start
  BY <1>1 DEF Start, StartCas, StartReset, StartSpawn, StartAssign
<1>2. CASE IoStep
  BY <1>2, IoFrame, IoMoves
<1>3. ASSUME NEW w \in Worker, JobStep(w) PROVE StopInv'
  BY <1>3 DEF JobStep, JobGoes, JobDequeue, JobTestRunning, JobCount,
         JobRetestRunning, JobLock, JobRetrieve, JobPublishJpeg, JobEnsureShm,
         JobWriteShm, JobUncount, JobNotify, JobEnd
<1>4. ASSUME NEW t \in StopThread, StopStep(t) PROVE StopInv'
  BY <1>4 DEF StopStep, StopProgress, StopGoes, StopCas, StopJoin, StopMark,
         StopTest, StopBlock, StopSpuriousWake, StopDropFrame,
         StopReleaseDecoder, StopCleanShm, StopReset
<1>5. CASE UpdateStream
  BY <1>5 DEF UpdateStream, updateUrl, switchDecoder
<1>6. CASE Forget \/ Destroy
  BY <1>6 DEF Forget, Destroy
<1>7. CASE UNCHANGED vars
  BY <1>7 DEF vars
<1> QED
  BY <1>1, <1>2, <1>3, <1>4, <1>5, <1>6, <1>7 DEF Next

(* A joined or detached IO thread is out of the decoder. *)
LEMMA HandleStep == IInv /\ [Next]_vars => HandleInv'
<1> SUFFICES ASSUME IInv, [Next]_vars PROVE HandleInv'
  OBVIOUS
<1> USE ThreadAssumption
        DEF IInv, TypeOK, ThreadTypes, StopThread, StartInv, StopInv,
            HandleInv, StopReleasesDecoder, Winning, MutexInv,
        flags, threads, pool, switch, decoder, output, life
<1>1. CASE Start
  BY <1>1 DEF Start, StartCas, StartReset, StartSpawn, StartAssign
<1>2. CASE IoStep
  BY <1>2, IoFrame, IoMoves
<1>3. ASSUME NEW w \in Worker, JobStep(w) PROVE HandleInv'
  BY <1>3 DEF JobStep, JobGoes, JobDequeue, JobTestRunning, JobCount,
         JobRetestRunning, JobLock, JobRetrieve, JobPublishJpeg, JobEnsureShm,
         JobWriteShm, JobUncount, JobNotify, JobEnd
<1>4. ASSUME NEW t \in StopThread, StopStep(t) PROVE HandleInv'
  BY <1>4 DEF StopStep, StopProgress, StopGoes, StopCas, StopJoin, StopMark,
         StopTest, StopBlock, StopSpuriousWake, StopDropFrame,
         StopReleaseDecoder, StopCleanShm, StopReset
<1>5. CASE UpdateStream
  BY <1>5 DEF UpdateStream, updateUrl, switchDecoder
<1>6. CASE Forget \/ Destroy
  BY <1>6 DEF Forget, Destroy
<1>7. CASE UNCHANGED vars
  BY <1>7 DEF vars
<1> QED
  BY <1>1, <1>2, <1>3, <1>4, <1>5, <1>6, <1>7 DEF Next

(* The channel exists while a job writes into it. *)
LEMMA ShmStep == IInv /\ [Next]_vars => WritesMappedShm'
<1> SUFFICES ASSUME IInv, [Next]_vars PROVE WritesMappedShm'
  OBVIOUS
<1> USE ThreadAssumption
        DEF IInv, TypeOK, ThreadTypes, StopThread, StopInv, JobInv,
            OneComputeJob, Active, NoTeardownUnderCompute, WritesMappedShm,
            Touching, Teardown, Winning,
        flags, threads, pool, switch, decoder, output, life
<1>1. CASE Start
  BY <1>1 DEF Start, StartCas, StartReset, StartSpawn, StartAssign
<1>2. CASE IoStep
  BY <1>2 DEF IoStep, IoEnter, IoLoop, IoLock, ApplyDecoderSwitch, ApplyUrlChange,
         NothingToApply, IoReturn, IoGiveUp, IoOpenSkipped, IoOpenGivesUp,
         IoOpenSucceeds, IoOpenFails, IoGrabSucceeds, IoGrabFailsInGrace,
         IoGrabFails, IoDrop, IoTestRunning, IoDropBusy, IoDispatch,
         IoEnqueue, IoStopReturned
<1>3. ASSUME NEW w \in Worker, JobStep(w) PROVE WritesMappedShm'
  BY <1>3 DEF JobStep, JobGoes, JobDequeue, JobTestRunning, JobCount,
         JobRetestRunning, JobLock, JobRetrieve, JobPublishJpeg, JobEnsureShm,
         JobWriteShm, JobUncount, JobNotify, JobEnd
<1>4. ASSUME NEW t \in StopThread, StopStep(t) PROVE WritesMappedShm'
  BY <1>4 DEF StopStep, StopProgress, StopGoes, StopCas, StopJoin, StopMark,
         StopTest, StopBlock, StopSpuriousWake, StopDropFrame,
         StopReleaseDecoder, StopCleanShm, StopReset
<1>5. CASE UpdateStream
  BY <1>5 DEF UpdateStream, updateUrl, switchDecoder
<1>6. CASE Forget \/ Destroy
  BY <1>6 DEF Forget, Destroy
<1>7. CASE UNCHANGED vars
  BY <1>7 DEF vars
<1> QED
  BY <1>1, <1>2, <1>3, <1>4, <1>5, <1>6, <1>7 DEF Next

-----------------------------------------------------------------------------
(***************************************************************************)
(* IInv is an invariant: nothing the threads of a stream do, in any order, *)
(* breaks it.                                                              *)
(***************************************************************************)
THEOREM Invariance == Spec => []IInv
<1>1. IInv /\ [Next]_vars => IInv'
  <2>1. IInv => FlagTypes
    BY DEF IInv, TypeOK
  <2>2. IInv /\ [Next]_vars => TypeOK'
    BY <2>1, FlagStep, ThreadStep, DataStep DEF TypeOK
  <2> QED
    BY <2>2, MutexStep, JobStepInv, FlightStep, StartStep, StopStepInv,
       HandleStep, ShmStep DEF IInv
<1> QED
  BY InitIInv, <1>1, PTL DEF Spec

(* Type correctness of the stream: TypeOK. *)
THEOREM TypeCorrect == Spec => []TypeOK
<1>1. IInv => TypeOK
  BY DEF IInv
<1> QED
  BY <1>1, Invariance, PTL

(* At most one compute job of a stream exists at any time. *)
THEOREM OneJob == Spec => []OneComputeJob
<1>1. IInv => OneComputeJob
  BY DEF IInv, JobInv
<1> QED
  BY <1>1, Invariance, PTL

(***************************************************************************)
(* stop() and a compute job never meet in the frame cache, the decoder or  *)
(* the shared memory, however the job's two tests of running_ interleave   *)
(* with stop().                                                            *)
(***************************************************************************)
THEOREM TeardownSafe == Spec => [](NoTeardownUnderCompute /\ WritesMappedShm)
<1>1. IInv => NoTeardownUnderCompute /\ WritesMappedShm
  BY DEF IInv, StopInv
<1> QED
  BY <1>1, Invariance, PTL

(* A job that writes to the shared memory writes to a mapping that stop()  *)
(* has not taken away.                                                     *)
THEOREM WritesAreMapped == Spec => []WritesMappedShm
<1>1. IInv => WritesMappedShm
  BY DEF IInv
<1> QED
  BY <1>1, Invariance, PTL

(* A finished stop() leaves nothing behind, whatever still runs. *)
THEOREM StopIsFinal == Spec => []StopLeavesNothing
<1>1. IInv => StopLeavesNothing
  BY DEF IInv, StopInv, StopLeavesNothing, Teardown
<1> QED
  BY <1>1, Invariance, PTL

(* A stop() that saw the IO thread leaves the decoder closed. *)
THEOREM DecoderReleased == Spec => []StopReleasesDecoder
<1>1. IInv => StopReleasesDecoder
  BY DEF IInv, HandleInv
<1> QED
  BY <1>1, Invariance, PTL

(* Jobs and the IO thread exclude each other from the decoder. *)
THEOREM DecoderMutex == Spec => []DecoderExclusive
<1>1. IInv => DecoderExclusive
  BY ThreadAssumption DEF IInv, MutexInv, DecoderExclusive
<1> QED
  BY <1>1, Invariance, PTL

-----------------------------------------------------------------------------
(***************************************************************************)
(* While a stop() is under way somebody can go on: the join of the IO      *)
(* thread, decoder_mutex_ and the wait for the job close no circle.  Left  *)
(* is the notification stop() can miss.                                    *)
(***************************************************************************)
THEOREM StopIsNeverStuck == Spec => []StopNeverStuck
<1>1. IInv => StopNeverStuck
  <2> SUFFICES ASSUME IInv, NEW t \in StopThread, Stopping(t),
                      ~StopCanGo(t), ~IoCanGo, ~MissedNotification(t)
               PROVE  \E w \in Worker : JobCanGo(w)
    BY DEF StopNeverStuck
  <2> USE DEF IInv, TypeOK, ThreadTypes, StopThread, Winning
  <2>1. \/ stop_pc[t] = "joining" /\ io_thread = "joinable" /\ t # IO /\ io_pc # "done"
        \/ stop_pc[t] = "blocked" /\ compute_in_flight # 0
        \/ stop_pc[t] = "releasing" /\ decoder_mutex # NoThread
    BY DEF Stopping, StopCanGo, MissedNotification
  <2>2. ASSUME decoder_mutex # NoThread PROVE \E w \in Worker : JobCanGo(w)
    <3>1. decoder_mutex # IO
      BY DEF MutexInv, IoCanGo
    <3>2. decoder_mutex \in Worker /\ job_pc[decoder_mutex] = "retrieving"
      BY <2>2, <3>1 DEF MutexInv
    <3> QED
      BY <3>2 DEF JobCanGo, Active
  <2>3. CASE stop_pc[t] = "joining" /\ io_thread = "joinable" /\ t # IO /\ io_pc # "done"
    <3>1. stop_pc[IO] \notin Winning
      BY <2>3 DEF StopInv
    <3>2. io_pc # "none" /\ io_pc # "stop" /\ (io_pc = "entering" => alive)
      BY <2>3, <3>1 DEF StartInv, HandleInv, IoCanGo
    <3>3. io_pc = "lock" /\ decoder_mutex # NoThread
      BY <2>3, <3>2 DEF IoCanGo
    <3> QED
      BY <2>2, <3>3
  <2>4. CASE stop_pc[t] = "blocked" /\ compute_in_flight # 0
    <3>1. PICK w \in Worker : job_pc[w] \in Counted
      BY <2>4 DEF FlightInv
    <3>2. CASE job_pc[w] = "locking" /\ decoder_mutex # NoThread
      BY <2>2, <3>2
    <3>3. CASE ~(job_pc[w] = "locking" /\ decoder_mutex # NoThread)
      BY <3>1, <3>3 DEF JobCanGo, Active, Counted
    <3> QED
      BY <3>2, <3>3
  <2> QED
    BY <2>1, <2>2, <2>3, <2>4
<1> QED
  BY <1>1, Invariance, PTL

-----------------------------------------------------------------------------
(* There is one job and one winner of stop(): The(Runners) and The(Winners) *)
(* are what they say.                                                      *)
LEMMA TheOnly ==
  ASSUME NEW S, NEW x \in S, \A y \in S : y = x
  PROVE  The(S) = x
BY Zenon DEF The

(* The numbers of steps, as the proof below needs them. *)
LEMMA LeftOver ==
  /\ StartLeft["reset"] = 5 /\ StartLeft["spawn"] = 4
  /\ StartLeft["assign"] = 1 /\ StartLeft["done"] = 0
  /\ IoLeft["none"] = 0 /\ IoLeft["done"] = 0 /\ IoLeft["loop"] = 1
  /\ IoLeft["dispatch"] = 2 /\ IoLeft["stop"] = 3 /\ IoLeft["grab"] = 4
  /\ IoLeft["entering"] = 2 /\ IoLeft["claim"] = 16
  /\ IoLeft["open"] = 5 /\ IoLeft["lock"] = 6 /\ IoLeft["enqueue"] = 15
  /\ JobLeft["ending"] = 1 /\ JobLeft["notifying"] = 4
  /\ JobLeft["uncounting"] = 5 /\ JobLeft["writing"] = 6
  /\ JobLeft["publishing"] = 7 /\ JobLeft["retrieving"] = 8
  /\ JobLeft["locking"] = 9 /\ JobLeft["retesting"] = 10
  /\ JobLeft["counting"] = 11 /\ JobLeft["entered"] = 12
  /\ StopLeft["joining"] = 9 /\ StopLeft["marking"] = 8
  /\ StopLeft["testing"] = 7 /\ StopLeft["blocking"] = 6
  /\ StopLeft["blocked"] = 5 /\ StopLeft["dropping"] = 4
  /\ StopLeft["releasing"] = 3 /\ StopLeft["cleaning"] = 2
  /\ StopLeft["resetting"] = 1 /\ StopLeft["done"] = 0
BY DEF StartLeft, IoLeft, JobLeft, StopLeft

(* Counted is what the jobs still have to do: the one that is queued, or   *)
(* the one that runs.                                                      *)
JobsCounted ==
  /\ JobsLeft \in Nat
  /\ \A w \in Worker : job_pc[w] \in Active =>
       JobsLeft = 13 * queued + JobLeft[job_pc[w]]
  /\ (\A w \in Worker : job_pc[w] \notin Active) => JobsLeft = 13 * queued

LEMMA CountJobs == IInv => JobsCounted
<1> SUFFICES ASSUME IInv PROVE JobsCounted
  OBVIOUS
<1>1. queued \in Nat
  BY DEF IInv, TypeOK, ThreadTypes
<1>2. CASE \A w \in Worker : job_pc[w] \notin Active
  <2>1. Runners = {}
    BY <1>2 DEF Runners
  <2>2. JobsLeft = 13 * queued
    BY <1>1, <2>1 DEF JobsLeft
  <2> QED
    BY <1>1, <1>2, <2>2 DEF JobsCounted
<1>3. ASSUME NEW w \in Worker, job_pc[w] \in Active PROVE JobsCounted
  <2>1. Runners = {w}
    BY <1>3 DEF Runners, IInv, JobInv, OneComputeJob
  <2>2. The(Runners) = w
    BY <2>1, TheOnly
  <2>3. JobsLeft = 13 * queued + JobLeft[job_pc[w]]
    BY <2>1, <2>2 DEF JobsLeft
  <2>4. JobLeft[job_pc[w]] \in Nat
    BY <1>3, LeftOver DEF Active
  <2>5. \A v \in Worker : job_pc[v] \in Active => v = w
    BY <2>1 DEF Runners
  <2> QED
    BY <1>1, <1>3, <2>3, <2>4, <2>5 DEF JobsCounted
<1> QED
  BY <1>2, <1>3

LEMMA CountJobsNext == IInv' => JobsCounted'
BY CountJobs, PTL

(* The winner of stop() is one. *)
LEMMA OneWinner ==
  IInv => \A t \in StopThread : stop_pc[t] \in Winning => The(Winners) = t
<1> SUFFICES ASSUME IInv, NEW t \in StopThread, stop_pc[t] \in Winning
             PROVE  The(Winners) = t
  OBVIOUS
<1>1. t \in Winners /\ \A s \in Winners : s = t
  BY DEF Winners, IInv, StopInv
<1> QED
  BY <1>1, TheOnly

LEMMA OneWinnerNext ==
  IInv' => (\A t \in StopThread : stop_pc[t] \in Winning => The(Winners) = t)'
BY OneWinner, PTL

(* What is left, in five numbers. *)
IdleLeft == IF stop_pc[IO] = "idle" THEN 1 ELSE 0

LEMMA InNumbers ==
  ASSUME IInv, NEW t \in StopThread, stop_pc[t] \in Winning
  PROVE  /\ WorkLeft = StartLeft[start_pc] + IoLeft[io_pc] + IdleLeft + JobsLeft
                        + StopLeft[stop_pc[t]]
         /\ ~running
         /\ StartLeft[start_pc] \in Nat /\ IoLeft[io_pc] \in Nat
         /\ IdleLeft \in Nat /\ JobsLeft \in Nat
         /\ StopLeft[stop_pc[t]] \in Nat
<1> USE DEF IInv
<1>1. The(Winners) = t
  BY OneWinner
<1>2. start_pc # "cas" /\ ~running
  BY DEF StartInv, StopInv
<1>3. StartLeft[start_pc] \in Nat /\ IoLeft[io_pc] \in Nat
  BY <1>2, LeftOver DEF TypeOK, ThreadTypes
<1>4. StopLeft[stop_pc[t]] \in Nat
  BY LeftOver DEF Winning
<1>5. JobsLeft \in Nat
  BY CountJobs DEF JobsCounted
<1> QED
  BY <1>1, <1>2, <1>3, <1>4, <1>5 DEF WorkLeft, IdleLeft

LEMMA InNumbersNext ==
  ASSUME IInv', NEW t \in StopThread, stop_pc'[t] \in Winning
  PROVE  /\ WorkLeft' = StartLeft[start_pc'] + IoLeft[io_pc'] + IdleLeft' + JobsLeft'
                         + StopLeft[stop_pc'[t]]
         /\ StartLeft[start_pc'] \in Nat /\ IoLeft[io_pc'] \in Nat
         /\ IdleLeft' \in Nat /\ JobsLeft' \in Nat
         /\ StopLeft[stop_pc'[t]] \in Nat
<1> USE DEF IInv
<1>1. The(Winners)' = t
  BY OneWinnerNext
<1>2. start_pc' # "cas"
  BY DEF StartInv
<1>3. StartLeft[start_pc'] \in Nat /\ IoLeft[io_pc'] \in Nat
  BY <1>2, LeftOver DEF TypeOK, ThreadTypes
<1>4. StopLeft[stop_pc'[t]] \in Nat
  BY LeftOver DEF Winning
<1>5. JobsLeft' \in Nat
  BY CountJobsNext DEF JobsCounted
<1>6. StartLeft' = StartLeft /\ IoLeft' = IoLeft /\ StopLeft' = StopLeft
  BY DEF StartLeft, IoLeft, StopLeft
<1> QED
  BY <1>1, <1>2, <1>3, <1>4, <1>5, <1>6 DEF WorkLeft, IdleLeft

(* Threads that are not in the pool leave the jobs as they are. *)
LEMMA SameJobs ==
  ASSUME IInv, IInv', UNCHANGED job_pc
  PROVE  /\ JobsLeft \in Nat /\ JobsLeft' \in Nat
         /\ queued \in Nat /\ queued' \in Nat
         /\ JobsLeft' = JobsLeft + 13 * (queued' - queued)
<1>1. queued \in Nat /\ queued' \in Nat
  BY DEF IInv, TypeOK, ThreadTypes
<1>2. JobsCounted /\ JobsCounted'
  BY CountJobs, CountJobsNext
<1>3. Active' = Active /\ JobLeft' = JobLeft
  BY DEF Active, JobLeft
<1>4. CASE \A w \in Worker : job_pc[w] \notin Active
  BY <1>1, <1>2, <1>3, <1>4 DEF JobsCounted
<1>5. ASSUME NEW w \in Worker, job_pc[w] \in Active
      PROVE  JobsLeft' = JobsLeft + 13 * (queued' - queued)
  <2>1. JobLeft[job_pc[w]] \in Nat
    BY <1>5, LeftOver DEF Active
  <2> QED
    BY <1>1, <1>2, <1>3, <1>5, <2>1 DEF JobsCounted
<1> QED
  BY <1>1, <1>2, <1>4, <1>5 DEF JobsCounted

(* A start() that stop() overtook comes to its end. *)
LEMMA StartNears ==
  ASSUME IInv, IInv', NEW t \in StopThread, Stopping(t), Start
  PROVE  WorkLeft' < WorkLeft
<1>1. stop_pc[t] \in Winning /\ UNCHANGED <<stop_pc, job_pc, queued>>
  BY StartFrame DEF Stopping
<1>2. JobsLeft' = JobsLeft /\ IdleLeft' = IdleLeft
  BY <1>1, SameJobs DEF IdleLeft
<1>3. StartLeft[start_pc'] + IoLeft[io_pc'] < StartLeft[start_pc] + IoLeft[io_pc]
  <2>1. StartLeft[start_pc] \in Nat /\ IoLeft[io_pc] \in Nat
    BY <1>1, InNumbers
  <2>2. start_pc = "spawn" => io_pc = "none"
    BY DEF IInv, StartInv
  <2>3. start_pc # "cas"
    BY <1>1 DEF IInv, StartInv
  <2> QED
    BY <2>1, <2>2, <2>3, LeftOver
    DEF Start, StartCas, StartReset, StartSpawn, StartAssign
<1> QED
  BY <1>1, <1>2, <1>3, InNumbers, InNumbersNext

(* Without running_ the IO thread leaves its loop; it dispatches one more  *)
(* frame at the most, the one it has tested for.                           *)
LEMMA IoNears ==
  ASSUME IInv, IInv', NEW t \in StopThread, Stopping(t), IoStep
  PROVE  WorkLeft' < WorkLeft
<1>1. stop_pc[t] \in Winning /\ UNCHANGED <<start_pc, stop_pc, job_pc>>
  BY IoFrame DEF Stopping
<1>2. ~running
  BY <1>1, InNumbers
<1>3. IdleLeft' = IdleLeft /\ JobsLeft' = JobsLeft + 13 * (queued' - queued)
  BY <1>1, SameJobs DEF IdleLeft
<1>4. \/ queued' = queued /\ IoLeft[io_pc'] < IoLeft[io_pc]
      \/ queued' = queued + 1 /\ IoLeft[io_pc'] + 14 = IoLeft[io_pc]
  <2>1. CASE IoEnqueue
    BY <2>1, LeftOver DEF IoEnqueue
  <2>2. CASE ~IoEnqueue
    <3>1. /\ queued' = queued
          /\ \/ io_pc = "entering" /\ io_pc' = "loop"
             \/ io_pc = "loop" /\ io_pc' = "done"
             \/ io_pc = "lock" /\ io_pc' = "open"
             \/ io_pc = "open" /\ io_pc' \in {"grab", "loop", "stop"}
             \/ io_pc = "grab" /\ io_pc' \in {"dispatch", "loop", "stop"}
             \/ io_pc = "claim" /\ io_pc' \in {"loop", "enqueue"}
             \/ io_pc \in {"dispatch", "stop"} /\ io_pc' = "loop"
      BY <1>2, <2>2
      DEF IoStep, IoEnter, IoLoop, IoLock, IoReturn, IoGiveUp, IoOpenSkipped,
          IoOpenGivesUp, IoOpenSucceeds, IoOpenFails, IoGrabSucceeds,
          IoGrabFailsInGrace, IoGrabFails, IoDrop, IoTestRunning, IoDropBusy,
          IoDispatch, IoStopReturned, pool
    <3> QED
      BY <3>1, LeftOver
  <2> QED
    BY <2>1, <2>2
<1>5. queued \in Nat /\ queued' \in Nat
  BY <1>1, SameJobs
<1> QED
  BY <1>1, <1>3, <1>4, <1>5, InNumbers, InNumbersNext

(* The IO thread that gives up while another thread stops the stream finds *)
(* running_ cleared.                                                       *)
LEMMA GiveUpNears ==
  ASSUME IInv, IInv', NEW t \in StopThread, Stopping(t), StopCas(IO)
  PROVE  WorkLeft' < WorkLeft
<1>1. stop_pc[t] \in Winning /\ ~running
  BY InNumbers DEF Stopping
<1>2. IO \in StopThread /\ stop_pc \in [StopThread -> Winning \cup {"idle", "noop"}]
  BY DEF StopThread, IInv, TypeOK, ThreadTypes
<1>3. /\ stop_pc[IO] = "idle" /\ stop_pc'[IO] = "noop" /\ stop_pc'[t] = stop_pc[t]
      /\ UNCHANGED <<start_pc, io_pc, job_pc, queued>>
  BY <1>1, <1>2 DEF StopCas, StopGoes, pool, Winning
<1>4. IdleLeft = 1 /\ IdleLeft' = 0 /\ JobsLeft' = JobsLeft
  BY <1>3, SameJobs DEF IdleLeft
<1> QED
  BY <1>1, <1>3, <1>4, InNumbers, InNumbersNext

(* A job goes on to its end; its notification takes stop() back by less    *)
(* than the job has gone on.                                               *)
LEMMA JobNears ==
  ASSUME IInv, IInv', NEW t \in StopThread, Stopping(t), NEW w \in Worker, JobStep(w)
  PROVE  WorkLeft' < WorkLeft
<1>1. stop_pc[t] \in Winning /\ stop_pc[t] # "done"
  BY DEF Stopping
<1>2. ~running /\ UNCHANGED <<start_pc, io_pc>>
  BY <1>1, InNumbers, JobFrame
<1>3. /\ queued \in Nat /\ queued' \in Nat
      /\ job_pc \in [Worker -> Active \cup {"idle"}]
      /\ stop_pc \in [StopThread -> Winning \cup {"idle", "noop"}]
      /\ IO \in StopThread
  BY DEF IInv, TypeOK, ThreadTypes, StopThread
<1>4. JobsCounted /\ JobsCounted' /\ Active' = Active /\ JobLeft' = JobLeft
  BY CountJobs, CountJobsNext DEF Active, JobLeft
<1>5. \A v \in Worker : job_pc[v] \in Active =>
        queued = 0 /\ \A u \in Worker : job_pc[u] \in Active => u = v
  BY DEF IInv, JobInv, OneComputeJob
<1>6. CASE JobDequeue(w)
  <2>1. /\ queued > 0 /\ queued' = queued - 1 /\ job_pc[w] = "idle"
        /\ job_pc' = [job_pc EXCEPT ![w] = IF alive THEN "entered" ELSE "idle"]
        /\ UNCHANGED stop_pc
    BY <1>6 DEF JobDequeue, JobGoes, threads
  <2>2. \A v \in Worker : job_pc[v] \notin Active
    BY <1>3, <1>5, <2>1
  <2>3. JobsLeft = 13 * queued
    BY <1>4, <2>2 DEF JobsCounted
  <2>4. CASE alive
    <3>1. job_pc'[w] = "entered" /\ "entered" \in Active
      BY <1>3, <2>1, <2>4 DEF Active
    <3>2. JobsLeft' = 13 * queued' + 12
      BY <1>4, <3>1, LeftOver DEF JobsCounted
    <3> QED
      BY <1>1, <1>2, <1>3, <2>1, <2>3, <3>2, InNumbers, InNumbersNext DEF IdleLeft
  <2>5. CASE ~alive
    <3>1. \A v \in Worker : job_pc'[v] \notin Active
      BY <1>3, <2>1, <2>2, <2>5
    <3>2. JobsLeft' = 13 * queued'
      BY <1>4, <3>1 DEF JobsCounted
    <3> QED
      BY <1>1, <1>2, <1>3, <2>1, <2>3, <3>2, InNumbers, InNumbersNext DEF IdleLeft
  <2> QED
    BY <2>4, <2>5
<1>7. CASE ~JobDequeue(w)
  <2>1. /\ job_pc' = [job_pc EXCEPT ![w] = job_pc'[w]]
        /\ queued' = queued
        /\ \/ job_pc[w] = "entered" /\ job_pc'[w] = "ending"
           \/ job_pc[w] = "counting" /\ job_pc'[w] = "retesting"
           \/ job_pc[w] = "retesting" /\ job_pc'[w] = "uncounting"
           \/ job_pc[w] = "locking" /\ job_pc'[w] = "retrieving"
           \/ job_pc[w] = "retrieving" /\ job_pc'[w] \in {"publishing", "uncounting"}
           \/ job_pc[w] = "publishing" /\ job_pc'[w] \in {"writing", "uncounting"}
           \/ job_pc[w] = "writing" /\ job_pc'[w] = "uncounting"
           \/ job_pc[w] = "uncounting" /\ job_pc'[w] = "notifying"
           \/ job_pc[w] = "notifying" /\ job_pc'[w] = "ending"
           \/ job_pc[w] = "ending" /\ job_pc'[w] = "idle"
        /\ \/ UNCHANGED stop_pc
           \/ /\ job_pc[w] = "notifying"
              /\ stop_pc' = [s \in StopThread |->
                               IF stop_pc[s] = "blocked" THEN "testing" ELSE stop_pc[s]]
    BY <1>2, <1>3, <1>7
    DEF JobStep, JobGoes, JobTestRunning, JobCount, JobRetestRunning, JobLock,
        JobRetrieve, JobPublishJpeg, JobEnsureShm, JobWriteShm, JobUncount,
        JobNotify, JobEnd, threads
  <2>2. job_pc[w] \in Active /\ queued = 0 /\ JobsLeft = JobLeft[job_pc[w]]
    <3>1. job_pc[w] \in Active
      BY <2>1 DEF Active
    <3>2. JobsLeft = 13 * queued + JobLeft[job_pc[w]] /\ queued = 0
      BY <1>4, <1>5, <3>1 DEF JobsCounted
    <3>3. JobLeft[job_pc[w]] \in Nat
      BY <3>1, LeftOver DEF Active
    <3> QED
      BY <3>1, <3>2, <3>3
  <2>3. JobsLeft' = IF job_pc'[w] = "idle" THEN 0 ELSE JobLeft[job_pc'[w]]
    <3>1. CASE job_pc'[w] = "idle"
      <4>1. \A v \in Worker : job_pc'[v] \notin Active
        BY <1>3, <1>5, <2>1, <2>2, <3>1 DEF Active
      <4>2. JobsLeft' = 13 * queued'
        BY <1>4, <4>1 DEF JobsCounted
      <4> QED
        BY <2>1, <2>2, <3>1, <4>2
    <3>2. CASE job_pc'[w] # "idle"
      <4>1. job_pc'[w] \in Active
        BY <2>1, <3>2 DEF Active
      <4>2. JobsLeft' = 13 * queued' + JobLeft[job_pc'[w]]
        BY <1>4, <4>1 DEF JobsCounted
      <4>3. JobLeft[job_pc'[w]] \in Nat
        BY <4>1, LeftOver DEF Active
      <4> QED
        BY <2>1, <2>2, <3>2, <4>2, <4>3
    <3> QED
      BY <3>1, <3>2
  <2>4. JobsLeft' < JobsLeft /\ (job_pc[w] = "notifying" => JobsLeft' + 3 = JobsLeft)
    BY <2>1, <2>2, <2>3, LeftOver
  <2>5. CASE UNCHANGED stop_pc
    BY <1>1, <1>2, <2>4, <2>5, InNumbers, InNumbersNext DEF IdleLeft
  <2>6. CASE stop_pc' # stop_pc
    <3>1. /\ JobsLeft' + 3 = JobsLeft
          /\ stop_pc'[t] = IF stop_pc[t] = "blocked" THEN "testing" ELSE stop_pc[t]
          /\ stop_pc'[IO] = "idle" <=> stop_pc[IO] = "idle"
      BY <1>3, <2>1, <2>4, <2>6
    <3>2. stop_pc'[t] \in Winning /\ IdleLeft' = IdleLeft
      BY <1>1, <3>1 DEF Winning, IdleLeft
    <3>3. StopLeft[stop_pc[t]] \in Nat /\ StopLeft[stop_pc'[t]] \in Nat
      BY <1>1, <3>2, InNumbers, InNumbersNext
    <3>4. StopLeft[stop_pc'[t]] <= StopLeft[stop_pc[t]] + 2
      BY <3>1, <3>3, LeftOver
    <3> QED
      BY <1>1, <1>2, <3>1, <3>2, <3>3, <3>4, InNumbers, InNumbersNext
  <2> QED
    BY <2>5, <2>6
<1> QED
  BY <1>6, <1>7

(* stop() goes through its phases; only the winner of running_ has any. *)
LEMMA StopNears ==
  ASSUME IInv, IInv', NEW t \in StopThread, StopProgress(t)
  PROVE  WorkLeft' < WorkLeft
<1>1. /\ \/ stop_pc[t] = "joining" /\ stop_pc'[t] = "marking"
         \/ stop_pc[t] = "marking" /\ stop_pc'[t] = "testing"
         \/ stop_pc[t] = "testing" /\ stop_pc'[t] \in {"blocking", "dropping"}
         \/ stop_pc[t] = "blocking" /\ stop_pc'[t] = "blocked"
         \/ stop_pc[t] = "dropping" /\ stop_pc'[t] = "releasing"
         \/ stop_pc[t] = "releasing" /\ stop_pc'[t] = "cleaning"
         \/ stop_pc[t] = "cleaning" /\ stop_pc'[t] = "resetting"
         \/ stop_pc[t] = "resetting" /\ stop_pc'[t] = "done"
      /\ stop_pc' = [stop_pc EXCEPT ![t] = stop_pc'[t]]
      /\ UNCHANGED <<start_pc, io_pc, job_pc, queued>>
  BY DEF IInv, TypeOK, ThreadTypes, StopProgress, StopGoes, StopJoin, StopMark,
     StopTest, StopBlock, StopDropFrame, StopReleaseDecoder, StopCleanShm,
     StopReset, pool
<1>2. /\ stop_pc[t] \in Winning /\ stop_pc'[t] \in Winning
      /\ IdleLeft' = IdleLeft
  BY <1>1 DEF Winning, IdleLeft, IInv, TypeOK, ThreadTypes, StopThread
<1>3. StopLeft[stop_pc'[t]] < StopLeft[stop_pc[t]]
  BY <1>1, LeftOver
<1>4. JobsLeft' = JobsLeft
  BY <1>1, SameJobs
<1> QED
  BY <1>1, <1>2, <1>3, <1>4, InNumbers, InNumbersNext

(***************************************************************************)
(* While a stop() is under way no thread of the stream takes a step that   *)
(* leaves more to do: without a missed notification stop() returns, after  *)
(* a bounded number of steps.                                              *)
(***************************************************************************)
THEOREM StopIsNearing == Spec => StopNearsItsEnd
<1>1. IInv /\ IInv' /\ [Next]_vars =>
        [GoesOn /\ (\E t \in StopThread : Stopping(t)) => WorkLeft' < WorkLeft]_vars
  <2> SUFFICES ASSUME IInv, IInv', GoesOn, NEW t \in StopThread, Stopping(t)
               PROVE  WorkLeft' < WorkLeft
    OBVIOUS
  <2> QED
    BY StartNears, IoNears, GiveUpNears, JobNears, StopNears DEF GoesOn
<1> QED
  BY <1>1, Invariance, PTL DEF Spec, StopNearsItsEnd

=============================================================================
