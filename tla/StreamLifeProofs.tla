-------------------------- MODULE StreamLifeProofs --------------------------
(***************************************************************************)
(* StreamTask implements StreamLife, for any number of workers, of callers *)
(* of stop() and of addresses: each step of a thread is a step of the      *)
(* abstract stream or leaves it as it is.  The inductive invariant of      *)
(* StreamTaskProofs says which steps can happen when.                      *)
(***************************************************************************)
EXTENDS StreamTaskProofs

(***************************************************************************)
(* What IInv does not say: nothing runs or is published before the IO      *)
(* thread has entered, nor after the destructor, and only a stop() ends a  *)
(* started stream that is still there.                                     *)
(***************************************************************************)
LifeInv ==
  /\ io_pc \in {"none", "entering"} =>
       /\ queued = 0 /\ \A w \in Worker : job_pc[w] = "idle"
       /\ latest = NoFrame /\ shm = "none"
  /\ alive /\ ~running /\ start_pc # "cas" =>
       \E t \in StopThread : stop_pc[t] \in Winning
  /\ ~alive => /\ start_pc = "done" /\ io_pc = "done" /\ ~running
               /\ \A w \in Worker : job_pc[w] = "idle"
               /\ \A t \in StopThread : stop_pc[t] \in {"idle", "noop", "done"}

(* LifeInv holds of a new stream, and every step keeps it. *)
LEMMA LifeInit == Init => LifeInv
BY DEF Init, LifeInv

LEMMA LifeStep == IInv /\ LifeInv /\ [Next]_vars => LifeInv'
<1> SUFFICES ASSUME IInv, LifeInv, [Next]_vars PROVE LifeInv'
  OBVIOUS
<1> USE ThreadAssumption
        DEF LifeInv, IInv, TypeOK, ThreadTypes, StopThread, StartInv, Winning,
        flags, threads, pool, switch, decoder, output, life
<1>1. CASE Start
  BY <1>1 DEF Start, StartCas, StartReset, StartSpawn, StartAssign
<1>2. CASE IoStep
  <2>1. alive /\ io_pc' \notin {"none", "entering"}
    BY <1>2, IoMoves DEF HandleInv
  <2> QED
    BY <1>2, <2>1, IoFrame
<1>3. ASSUME NEW w \in Worker, JobStep(w) PROVE LifeInv'
  <2>1. CASE JobDequeue(w)
    BY <2>1 DEF JobDequeue, JobGoes
  <2>2. CASE ~JobDequeue(w)
    <3>1. job_pc[w] # "idle"
      BY <1>3, <2>2 DEF JobStep, JobGoes, JobTestRunning, JobCount,
         JobRetestRunning, JobLock, JobRetrieve, JobPublishJpeg, JobEnsureShm,
         JobWriteShm, JobUncount, JobNotify, JobEnd
    <3>2. io_pc \notin {"none", "entering"} /\ alive
      BY <3>1
    <3>3. \A t \in StopThread : stop_pc[t] \in Winning => stop_pc'[t] \in Winning
      BY <1>3 DEF JobStep, JobGoes, JobDequeue, JobTestRunning, JobCount,
         JobRetestRunning, JobLock, JobRetrieve, JobPublishJpeg, JobEnsureShm,
         JobWriteShm, JobUncount, JobNotify, JobEnd
    <3> QED
      BY <1>3, <3>2, <3>3, JobFrame
  <2> QED
    BY <2>1, <2>2
<1>4. ASSUME NEW t \in StopThread, StopStep(t) PROVE LifeInv'
  <2>1. alive
    BY <1>4 DEF StopStep, StopProgress, StopGoes, StopCas, StopJoin, StopMark,
       StopTest, StopBlock, StopSpuriousWake, StopDropFrame,
       StopReleaseDecoder, StopCleanShm, StopReset
  <2>2. /\ stop_pc'[t] \in Winning \/ (stop_pc'[t] = "noop" /\ ~running)
        /\ \A s \in StopThread \ {t} : stop_pc'[s] = stop_pc[s]
        /\ stop_pc[t] \notin Winning => stop_pc[t] = "idle"
        /\ stop_pc[t] # "idle" => running' = running /\ stop_pc'[t] \in Winning
    BY <1>4 DEF StopStep, StopProgress, StopGoes, StopCas, StopJoin, StopMark,
       StopTest, StopBlock, StopSpuriousWake, StopDropFrame,
       StopReleaseDecoder, StopCleanShm, StopReset
  <2>3. latest' \in {latest, NoFrame} /\ shm' \in {shm, "none"}
    BY <1>4 DEF StopStep, StopProgress, StopCas, StopJoin, StopMark,
       StopTest, StopBlock, StopSpuriousWake, StopDropFrame,
       StopReleaseDecoder, StopCleanShm, StopReset
  <2> QED
    BY <1>4, <2>1, <2>2, <2>3, StopFrame
<1>5. CASE UpdateStream
  BY <1>5 DEF UpdateStream, updateUrl, switchDecoder
<1>6. CASE Forget
  BY <1>6 DEF Forget
<1>7. CASE Destroy
  BY <1>7 DEF Destroy, HandleInv
<1>8. CASE UNCHANGED vars
  BY <1>8 DEF vars
<1> QED
  BY <1>1, <1>2, <1>3, <1>4, <1>5, <1>6, <1>7, <1>8 DEF Next

-----------------------------------------------------------------------------
(* The abstract phase depends on these variables only. *)
LEMMA SamePhase ==
  ASSUME UNCHANGED <<alive, start_pc, running, stop_pc>>
  PROVE  lifePhase' = lifePhase
BY DEF lifePhase

(* So does the user of the decoder. *)
LEMMA SameUser ==
  ASSUME UNCHANGED <<job_pc, io_pc>>
  PROVE  decoderUser' = decoderUser
BY DEF decoderUser

(* Nobody but the holder of decoder_mutex_ is at the decoder. *)
LEMMA UserHoldsMutex ==
  ASSUME IInv
  PROVE  /\ decoder_mutex = NoThread => decoderUser = "nobody"
         /\ decoder_mutex = IO => decoderUser = "io"
         /\ \A w \in Worker : job_pc[w] = "retrieving" => decoderUser = "job"
BY ThreadAssumption DEF IInv, MutexInv, decoderUser

(* A built stream starts as an abstract stream does. *)
LEMMA InitLife == Init => Life!Init
BY DEF Init, Life!Init, lifePhase, decoderUser

(* The four steps of start(): only the first is visible. *)
LEMMA StartLife == IInv /\ Start => [Life!Next]_(Life!lifeVars)
<1> SUFFICES ASSUME IInv, Start PROVE [Life!Next]_(Life!lifeVars)
  OBVIOUS
<1>0. UNCHANGED <<alive, stop_pc, job_pc, latest, shm>>
  BY StartFrame
<1>1. CASE StartCas
  <2>1. decoderUser' = decoderUser
    BY <1>0, <1>1, SameUser DEF StartCas
  <2>2. lifePhase' = IF alive THEN "running" ELSE "gone"
    BY <1>0, <1>1 DEF StartCas, lifePhase
  <2>3. lifePhase = IF alive THEN "created" ELSE "gone"
    BY <1>1 DEF StartCas, lifePhase
  <2> QED
    BY <1>0, <2>1, <2>2, <2>3 DEF Life!Next, Life!Start, Life!lifeVars
<1>2. CASE StartReset \/ StartSpawn \/ StartAssign
  <2>1. lifePhase' = lifePhase
    BY <1>0, <1>2 DEF StartReset, StartSpawn, StartAssign, lifePhase, flags
  <2>2. decoderUser' = decoderUser
    BY <1>0, <1>2 DEF StartReset, StartSpawn, StartAssign, decoderUser, IInv,
       StartInv
  <2> QED
    BY <1>0, <2>1, <2>2 DEF Life!lifeVars
<1> QED
  BY <1>1, <1>2 DEF Start

(* The IO thread takes the decoder and leaves it; taking it may withdraw. *)
LEMMA IoLife == IInv /\ LifeInv /\ IoStep => [Life!Next]_(Life!lifeVars)
<1> SUFFICES ASSUME IInv, LifeInv, IoStep PROVE [Life!Next]_(Life!lifeVars)
  OBVIOUS
<1>1. /\ UNCHANGED <<alive, start_pc, running, stop_pc, job_pc, shm>>
      /\ latest' = latest \/ latest' = NoFrame
  BY IoFrame
<1>2. lifePhase' = lifePhase
  BY <1>1, SamePhase
<1>3. CASE IoLock
  <2>1. decoder_mutex = NoThread /\ io_pc = "lock" /\ io_pc' = "open"
    BY <1>3 DEF IoLock
  <2>2. decoderUser = "nobody"
    BY <2>1, UserHoldsMutex
  <2>3. decoderUser' = "io"
    BY <1>1, <2>1, ThreadAssumption DEF decoderUser, IInv, MutexInv
  <2>4. lifePhase \in {"running", "stopping", "stopped"}
    BY <2>1 DEF lifePhase, IInv, StartInv, LifeInv
  <2>5. CASE latest' = latest
    BY <1>1, <1>2, <2>2, <2>3, <2>4, <2>5 DEF Life!Next, Life!Use
  <2>6. CASE latest' = NoFrame /\ shm # "mapped"
    BY <1>1, <1>2, <2>2, <2>3, <2>4, <2>6 DEF Life!Next, Life!UseAndWithdraw
  <2>7. CASE shm = "mapped"
    BY <1>1, <1>2, <2>2, <2>3, <2>4, <2>7 DEF Life!Next, Life!Use
  <2> QED
    BY <1>1, <2>5, <2>6, <2>7
<1>4. CASE ~IoLock
  <2>1. latest' = latest
    BY <1>4 DEF IoStep, IoEnter, IoLoop, IoReturn, IoGiveUp, IoOpenSkipped,
       IoOpenGivesUp, IoOpenSucceeds, IoOpenFails, IoGrabSucceeds,
       IoGrabFailsInGrace, IoGrabFails, IoDrop, IoTestRunning, IoDropBusy,
       IoDispatch, IoEnqueue,
       IoStopReturned, output
  <2>2. \/ io_pc' \in {"open", "grab", "dispatch", "claim"} <=>
             io_pc \in {"open", "grab", "dispatch", "claim"}
        \/ io_pc' \notin {"open", "grab", "dispatch", "claim"}
    BY <1>4 DEF IoStep, IoEnter, IoLoop, IoReturn, IoGiveUp, IoOpenSkipped,
       IoOpenGivesUp, IoOpenSucceeds, IoOpenFails, IoGrabSucceeds,
       IoGrabFailsInGrace, IoGrabFails, IoDrop, IoTestRunning, IoDropBusy,
       IoDispatch, IoEnqueue,
       IoStopReturned
  <2>3. decoderUser' = decoderUser \/ decoderUser' = "nobody"
    BY <1>1, <2>2 DEF decoderUser
  <2> QED
    BY <1>1, <1>2, <2>1, <2>3 DEF Life!Next, Life!Leave, Life!lifeVars
<1> QED
  BY <1>3, <1>4

(* A job past its second test of running_ finds a stream not yet stopped. *)
LEMMA TouchingPhase ==
  ASSUME IInv, LifeInv, NEW w \in Worker, job_pc[w] \in Touching
  PROVE  lifePhase \in {"running", "stopping"}
<1>1. alive /\ start_pc # "cas"
  BY DEF LifeInv, Touching, IInv, StartInv
<1>2. \A t \in StopThread : stop_pc[t] \notin {"resetting", "done"}
  BY DEF IInv, StopInv, NoTeardownUnderCompute, Teardown
<1> QED
  BY <1>1, <1>2 DEF lifePhase

(* A job takes the decoder, leaves it, or publishes. *)
LEMMA JobLife ==
  ASSUME IInv, LifeInv, NEW w \in Worker, JobStep(w)
  PROVE  [Life!Next]_(Life!lifeVars)
<1> USE ThreadAssumption
<1>0. job_pc \in [Worker -> Active \cup {"idle"}]
  BY DEF IInv, TypeOK, ThreadTypes
<1>1. UNCHANGED <<alive, start_pc, running, io_pc>>
  BY JobFrame
<1>2. lifePhase' = lifePhase
  <2>1. \A t \in StopThread : stop_pc'[t] \in {"resetting", "done"} <=>
                              stop_pc[t] \in {"resetting", "done"}
    BY DEF JobStep, JobGoes, JobDequeue, JobTestRunning, JobCount,
       JobRetestRunning, JobLock, JobRetrieve, JobPublishJpeg, JobEnsureShm,
       JobWriteShm, JobUncount, JobNotify, JobEnd, threads
  <2> QED
    BY <1>1, <2>1 DEF lifePhase
<1>3. CASE JobLock(w)
  <2>1. /\ decoder_mutex = NoThread /\ job_pc[w] = "locking"
        /\ job_pc'[w] = "retrieving" /\ latest' = latest /\ shm' = shm
    BY <1>0, <1>3 DEF JobLock, JobGoes, output
  <2>2. decoderUser = "nobody" /\ decoderUser' = "job"
    BY <2>1, UserHoldsMutex DEF decoderUser
  <2>3. lifePhase \in {"running", "stopping"}
    BY <2>1, TouchingPhase DEF Touching
  <2> QED
    BY <1>2, <2>1, <2>2, <2>3 DEF Life!Next, Life!Use
<1>4. CASE JobRetrieve(w)
  <2>1. /\ job_pc[w] = "retrieving" /\ job_pc'[w] # "retrieving"
        /\ \A v \in Worker \ {w} : job_pc'[v] = job_pc[v]
        /\ latest' = latest /\ shm' = shm
    BY <1>0, <1>4 DEF JobRetrieve, JobGoes, output
  <2>2. decoder_mutex = w
    BY <2>1 DEF IInv, MutexInv
  <2>3. decoderUser' = "nobody"
    BY <1>1, <2>1, <2>2 DEF decoderUser, IInv, MutexInv
  <2> QED
    BY <1>2, <2>1, <2>3 DEF Life!Next, Life!Leave
<1>5. CASE JobPublishJpeg(w) \/ JobEnsureShm(w)
  <2>1. /\ job_pc[w] = "publishing"
        /\ \A v \in Worker : job_pc'[v] = "retrieving" <=>
                             job_pc[v] = "retrieving"
    BY <1>0, <1>5 DEF JobPublishJpeg, JobEnsureShm, JobGoes
  <2>2. decoderUser' = decoderUser
    BY <1>1, <2>1 DEF decoderUser
  <2>3. lifePhase \in {"running", "stopping"}
    BY <2>1, TouchingPhase DEF Touching
  <2> QED
    BY <1>2, <2>2, <2>3 DEF Life!Next, Life!Publish, Life!Withdraw
<1>6. CASE ~(JobLock(w) \/ JobRetrieve(w) \/ JobPublishJpeg(w) \/ JobEnsureShm(w))
  <2>1. /\ latest' = latest /\ shm' = shm
        /\ \A v \in Worker : job_pc'[v] = "retrieving" <=>
                             job_pc[v] = "retrieving"
    BY <1>0, <1>6 DEF JobStep, JobGoes, JobDequeue, JobTestRunning, JobCount,
       JobRetestRunning, JobWriteShm, JobUncount, JobNotify, JobEnd, output
  <2>2. decoderUser' = decoderUser
    BY <1>1, <2>1 DEF decoderUser
  <2> QED
    BY <1>2, <2>1, <2>2 DEF Life!lifeVars
<1> QED
  BY <1>3, <1>4, <1>5, <1>6

(* stop(): the winner's first step asks for the end, the step that clears  *)
(* the channel is the end; what lies between only withdraws.               *)
LEMMA StopLife ==
  ASSUME IInv, LifeInv, NEW t \in StopThread, StopStep(t)
  PROVE  [Life!Next]_(Life!lifeVars)
<1>0. /\ stop_pc \in [StopThread -> Winning \cup {"idle", "noop"}]
      /\ UNCHANGED <<start_pc, io_pc, job_pc, alive>>
  BY StopFrame DEF IInv, TypeOK, ThreadTypes
<1>1. decoderUser' = decoderUser
  BY <1>0, SameUser
<1>2. alive
  BY DEF LifeInv, StopStep, StopProgress, StopGoes, StopCas, StopJoin,
     StopMark, StopTest, StopBlock, StopSpuriousWake, StopDropFrame,
     StopReleaseDecoder, StopCleanShm, StopReset
<1>3. CASE StopCas(t)
  <2>1. /\ stop_pc[t] = "idle" /\ stop_pc'[t] \in {"joining", "noop"}
        /\ \A s \in StopThread \ {t} : stop_pc'[s] = stop_pc[s]
        /\ running' = FALSE /\ latest' = latest /\ shm' = shm
    BY <1>0, <1>3 DEF StopCas, StopGoes, output
  <2>2. CASE running
    <3>1. start_pc # "cas"
      BY <2>2 DEF IInv, StartInv
    <3>2. \A s \in StopThread : stop_pc[s] \notin {"resetting", "done"}
      BY <2>2 DEF IInv, StopInv, Winning
    <3>3. lifePhase = "running" /\ lifePhase' = "stopping"
      BY <1>0, <1>2, <2>1, <2>2, <3>1, <3>2 DEF lifePhase
    <3> QED
      BY <1>1, <2>1, <3>3 DEF Life!Next, Life!Stop
  <2>3. CASE ~running
    <3>1. lifePhase' = lifePhase
      BY <1>0, <2>1, <2>3 DEF lifePhase
    <3> QED
      BY <1>1, <2>1, <3>1 DEF Life!lifeVars
  <2> QED
    BY <2>2, <2>3
<1>4. CASE StopCleanShm(t)
  <2>1. /\ stop_pc[t] = "cleaning" /\ stop_pc'[t] = "resetting"
        /\ shm' = "none" /\ latest' = latest /\ running' = running
    BY <1>0, <1>4 DEF StopCleanShm, StopGoes, flags
  <2>2. latest = NoFrame /\ ~running /\ start_pc # "cas"
    BY <2>1 DEF IInv, StopInv, Teardown, Winning, StartInv
  <2>3. \A s \in StopThread : stop_pc[s] \notin {"resetting", "done"}
    BY <2>1 DEF IInv, StopInv, Winning
  <2>4. lifePhase = "stopping" /\ lifePhase' = "stopped"
    BY <1>0, <1>2, <2>1, <2>2, <2>3 DEF lifePhase
  <2>5. decoderUser # "job"
    BY <2>1 DEF decoderUser, IInv, StopInv, NoTeardownUnderCompute, Teardown,
       Touching
  <2> QED
    BY <1>1, <2>1, <2>2, <2>4, <2>5 DEF Life!Next, Life!Stopped
<1>5. CASE ~(StopCas(t) \/ StopCleanShm(t))
  <2>1. /\ running' = running /\ shm' = shm
        /\ latest' = latest \/ latest' = NoFrame
        /\ \A s \in StopThread \ {t} : stop_pc'[s] = stop_pc[s]
        /\ stop_pc[t] \in {"resetting", "done"} <=>
             stop_pc'[t] \in {"resetting", "done"}
    BY <1>0, <1>5 DEF StopStep, StopProgress, StopGoes, StopJoin, StopMark,
       StopTest, StopBlock, StopSpuriousWake, StopDropFrame,
       StopReleaseDecoder, StopReset, output, flags
  <2>2. lifePhase' = lifePhase
    BY <1>0, <2>1 DEF lifePhase
  <2> QED
    BY <1>1, <2>1, <2>2 DEF Life!Next, Life!Withdraw, Life!lifeVars
<1> QED
  BY <1>3, <1>4, <1>5

(* An update withdraws the cached frame and nothing else. *)
LEMMA UpdateLife == UpdateStream => [Life!Next]_(Life!lifeVars)
<1> SUFFICES ASSUME UpdateStream PROVE [Life!Next]_(Life!lifeVars)
  OBVIOUS
<1>1. /\ UNCHANGED <<alive, start_pc, running, stop_pc, job_pc, io_pc, shm>>
      /\ latest' = NoFrame
  BY DEF UpdateStream, updateUrl, switchDecoder, flags, threads, pool, life
<1> QED
  BY <1>1, SamePhase, SameUser DEF Life!Next, Life!Withdraw, Life!lifeVars

(* The destructor ends a stream some stop() has ended, or one nobody serves. *)
LEMMA DestroyLife == IInv /\ LifeInv /\ Destroy => [Life!Next]_(Life!lifeVars)
<1> SUFFICES ASSUME IInv, LifeInv, Destroy PROVE [Life!Next]_(Life!lifeVars)
  OBVIOUS
<1> USE ThreadAssumption
<1>1. /\ alive /\ ~alive' /\ start_pc = "done" /\ io_pc \in {"entering", "done"}
      /\ \A w \in Worker : job_pc[w] = "idle"
      /\ \A t \in StopThread : stop_pc[t] \in {"idle", "noop", "done"}
      /\ io_pc' = "done" /\ UNCHANGED job_pc /\ latest' = NoFrame /\ shm' = "none"
  BY DEF Destroy, pool
<1>2. lifePhase' = "gone" /\ decoderUser = "nobody" /\ decoderUser' = "nobody"
  BY <1>1 DEF lifePhase, decoderUser
<1>3. CASE running
  <2>1. io_pc = "entering" /\ latest = NoFrame /\ shm = "none"
    BY <1>1, <1>3 DEF IInv, HandleInv, LifeInv
  <2>2. lifePhase = "running"
    BY <1>1, <1>3 DEF lifePhase
  <2> QED
    BY <1>1, <1>2, <2>1, <2>2 DEF Life!Next, Life!Destroy
<1>4. CASE ~running
  <2>1. \E t \in StopThread : stop_pc[t] = "done"
    BY <1>1, <1>4 DEF LifeInv, Winning
  <2>2. lifePhase = "stopped"
    BY <1>1, <1>4, <2>1 DEF lifePhase
  <2> QED
    BY <1>1, <1>2, <2>2 DEF Life!Next, Life!Destroy
<1> QED
  BY <1>3, <1>4

-----------------------------------------------------------------------------
(***************************************************************************)
(* The detailed stream implements the abstract one: Implements.            *)
(***************************************************************************)
THEOREM Refinement == Spec => Implements
<1>1. Spec => []LifeInv
  <2>1. Init /\ []IInv /\ [][Next]_vars => []LifeInv
    BY LifeInit, LifeStep, PTL
  <2> QED
    BY <2>1, Invariance, PTL DEF Spec
<1>2. IInv /\ LifeInv /\ [Next]_vars => [Life!Next]_(Life!lifeVars)
  <2>1. ASSUME UNCHANGED vars PROVE UNCHANGED Life!lifeVars
    BY <2>1, SamePhase, SameUser DEF vars, flags, threads, pool, output, life,
       Life!lifeVars
  <2>2. ASSUME Forget PROVE UNCHANGED Life!lifeVars
    BY <2>2, SamePhase, SameUser DEF Forget, flags, threads, pool, output,
       Life!lifeVars
  <2> QED
    BY <2>1, <2>2, StartLife, IoLife, JobLife, StopLife, UpdateLife,
       DestroyLife DEF Next
<1> QED
  BY InitLife, <1>1, <1>2, Invariance, PTL DEF Spec, Implements, Life!Spec

=============================================================================
