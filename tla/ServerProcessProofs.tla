------------------------ MODULE ServerProcessProofs ------------------------
(***************************************************************************)
(* Theorems about ServerProcess, and with it about ThreadPool, proved for  *)
(* any number of streams, GPUs and workers.                                *)
(*                                                                         *)
(* The invariant has three parts: ShutdownInv is the order in which main() *)
(* takes the process apart, StreamsInv is who stops a stream and how far   *)
(* that has come, and JobsInv is where the one job of a stream is.         *)
(* GoingInv, built on it, says of each thread that waits what it waits for.*)
(***************************************************************************)
EXTENDS ServerProcess, FiniteSetTheorems, SequenceTheorems, TLAPS

-----------------------------------------------------------------------------
(* The pools are being destroyed, or may be. *)
Closing == main_pc \in {"clear", "notify", "join", "returned", "crashed"}

(* GPU pools are destroyed from the first to the last, then the CPU's. *)
RemainingFrom(k) == {Cpu} \cup k .. GpuCount - 1

PoolsInv ==
  /\ ~Closing => exists = Pool /\ \A p \in Pool : pool_running[p]
  /\ main_pc \in {"clear", "notify", "join"} =>
       \E k \in 0 .. GpuCount : exists = RemainingFrom(k)
  /\ main_pc = "returned" => exists = {}

WorkersInv ==
  \A w \in Worker :
    /\ PoolOfWorker[w] \notin exists => worker_pc[w] = "ended"
    /\ worker_pc[w] = "ended" =>
         ~pool_running[PoolOfWorker[w]] /\ tasks[PoolOfWorker[w]] = <<>>
    /\ worker_task[w] # NoTask <=> worker_pc[w] \in {"run", "compute", "tell"}

(* No call is open once the server has drained, no clean-up thread runs    *)
(* once it is joined, no stream is listed once all are stopped.            *)
ShutdownInv ==
  /\ main_pc \notin {"serving", "drain"} => NoCallOpen
  /\ main_pc \notin {"serving", "drain", "clean"} => janitor_pc = "ended"
  /\ Closing => streams = {}
  /\ janitor_pc # "stopping" => janitor_todo = {}

-----------------------------------------------------------------------------
(* A stream lives only from its start() on, io_thread_ stands for its      *)
(* thread from the end of start() to its join, and it is torn down by the  *)
(* one thread that cleared running_.                                       *)
LifeInv(s) ==
  /\ starting[s] \in {"none", "start"} => ~running[s] /\ stop_by[s] = NoThread
  /\ io_pc[s] # "none" => starting[s] \in {"assign", "done"}
  /\ joinable[s] => starting[s] = "done"
  /\ starting[s] = "done" /\ stop_pc[s] \in {"none", "join"} => joinable[s]
  /\ running[s] => stop_by[s] = NoThread
  /\ stop_by[s] = NoThread <=> stop_pc[s] = "none"

(* That thread sees to it until it is done: the handler keeps its call     *)
(* open, the clean-up thread keeps the stream to do, main() keeps it       *)
(* listed.                                                                 *)
StopperInv(s) ==
  /\ stop_by[s] = "handler" /\ stop_pc[s] # "done" => call[s] = "stop"
  /\ stop_by[s] = "janitor" /\ stop_pc[s] # "done" => s \in janitor_todo
  /\ stop_by[s] = "main" /\ stop_pc[s] # "done" => s \in streams /\ main_pc = "stop"

(* It joins the IO thread first, unless io_thread_ does not stand for it   *)
(* yet, and releases the decoder last.                                     *)
TeardownInv(s) ==
  /\ stop_pc[s] \notin {"none", "join"} /\ stop_by[s] # "self" =>
       io_pc[s] = "ended" \/ Unjoined(s)
  /\ stop_pc[s] = "done" => released[s]

StreamsInv == \A s \in Stream : LifeInv(s) /\ StopperInv(s) /\ TeardownInv(s)

-----------------------------------------------------------------------------
(* Where the job of a stream is: with the IO thread, queued, or taken. *)
Offered(s)  == io_pc[s] \in {"lookup", "push"}
IsIn(s, q)  == \E i \in 1 .. Len(q) : q[i] = s
Waiting(s)  == IsIn(s, tasks[ComputePool(s)])
Taken(s)    == \E w \in Worker : worker_task[w] = s

(* It is in one place at most, ... *)
Once(q) == \A i, j \in 1 .. Len(q) : q[i] = q[j] => i = j
OncePerQueue == \A p \in Pool : Once(tasks[p])
OncePerWorkers ==
  \A v, w \in Worker : worker_task[v] = worker_task[w] /\ worker_task[w] # NoTask => v = w

(* ... in the hands of the pool the stream asks for, ... *)
RightPool ==
  /\ \A p \in Pool : \A s \in Stream : IsIn(s, tasks[p]) => p = ComputePool(s)
  /\ \A w \in Worker : \A s \in Stream :
       worker_task[w] = s => PoolOfWorker[w] = ComputePool(s)

(* ... and there is one while compute_scheduled_ is set. *)
JobInv(s) ==
  /\ ~(Offered(s) /\ Waiting(s)) /\ ~(Offered(s) /\ Taken(s)) /\ ~(Waiting(s) /\ Taken(s))
  /\ Offered(s) \/ Waiting(s) \/ Taken(s) => compute_scheduled[s]
  /\ compute_scheduled[s] /\ ~Unattended(s) => Offered(s) \/ Waiting(s) \/ Taken(s)

InFlightInv ==
  \A s \in Stream :
    compute_in_flight[s] =
      IF \E w \in Worker : worker_task[w] = s /\ worker_pc[w] = "compute" THEN 1 ELSE 0

JobsInv ==
  /\ OncePerQueue /\ OncePerWorkers /\ RightPool /\ InFlightInv
  /\ \A s \in Stream : JobInv(s)

IInv == TypeOK /\ PoolsInv /\ WorkersInv /\ ShutdownInv /\ StreamsInv /\ JobsInv

-----------------------------------------------------------------------------
(* The types, in the parts the threads disturb one by one. *)
WorkerPc == {"loop", "blocks", "asleep", "run", "compute", "tell", "ended"}

PoolTypes ==
  /\ exists \subseteq Pool /\ pool_running \in [Pool -> BOOLEAN]
  /\ tasks \in [Pool -> Seq(Stream)]
  /\ mtx \in [Pool -> Worker \cup {NoWorker}]
  /\ worker_pc \in [Worker -> WorkerPc]
  /\ worker_task \in [Worker -> Stream \cup {NoTask}]

Starting == {"none", "start", "reset", "spawn", "assign", "done"}

CallTypes ==
  /\ main_pc \in {"serving", "drain", "clean", "stop", "clear", "notify", "join", "returned", "crashed"}
  /\ manager_running \in BOOLEAN
  /\ janitor_pc \in {"loop", "stopping", "ended"} /\ janitor_todo \subseteq Stream
  /\ streams \subseteq Stream /\ eventful \subseteq Stream
  /\ starting \in [Stream -> Starting]
  /\ call \in [Stream -> {"none", "stop", "watch"}]

Stopper == {NoThread, "self", "handler", "janitor", "main"}
StopPc  == {"none", "join", "test", "drowse", "asleep", "release", "done"}
IoPc    == {"none", "loop", "dispatch", "lookup", "push", "notify", "stopping", "ended"}

LifeTypes ==
  /\ running \in [Stream -> BOOLEAN] /\ stopped \in [Stream -> BOOLEAN]
  /\ io_pc \in [Stream -> IoPc] /\ joinable \in [Stream -> BOOLEAN]
  /\ stop_by \in [Stream -> Stopper] /\ stop_pc \in [Stream -> StopPc]
  /\ released \in [Stream -> BOOLEAN]

JobTypes ==
  /\ gpu_id \in Asked
  /\ compute_scheduled \in [Stream -> BOOLEAN]
  /\ compute_in_flight \in [Stream -> 0 .. 1]

LEMMA TypeParts == TypeOK <=> PoolTypes /\ CallTypes /\ LifeTypes /\ JobTypes
BY DEF TypeOK, PoolTypes, CallTypes, LifeTypes, JobTypes, WorkerPc, Starting, Stopper, StopPc, IoPc

LEMMA PoolOfStream ==
  ASSUME gpu_id \in Asked, NEW s \in Stream
  PROVE  ComputePool(s) \in Pool
BY PoolAssumption, ProcessAssumption DEF ComputePool, PoolFor, Pool, Cpu

LEMMA PoolOf == ASSUME NEW w \in Worker PROVE PoolOfWorker[w] \in Pool
BY PoolAssumption

-----------------------------------------------------------------------------
(***************************************************************************)
(* What the operations of a pool do: PoolTypes and WorkersInv.             *)
(***************************************************************************)
LEMMA PopsStep ==
  ASSUME PoolTypes, WorkersInv, NEW w \in Worker, Pops(w)
  PROVE  PoolTypes' /\ WorkersInv'
<1> DEFINE p == PoolOfWorker[w]
<1>1. p \in Pool /\ tasks[p] \in Seq(Stream) /\ tasks[p] # <<>>
  BY PoolOf DEF PoolTypes, Pops
<1>2. Head(tasks[p]) \in Stream /\ Tail(tasks[p]) \in Seq(Stream)
  BY <1>1, HeadTailProperties
<1>3. /\ worker_pc[w] = "loop"
      /\ worker_task' = [worker_task EXCEPT ![w] = Head(tasks[p])]
      /\ tasks' = [tasks EXCEPT ![p] = Tail(tasks[p])]
      /\ worker_pc' = [worker_pc EXCEPT ![w] = "run"]
      /\ UNCHANGED <<exists, pool_running, mtx>>
  BY DEF Pops
<1> HIDE DEF p
<1>4. PoolTypes'
  BY <1>1, <1>2, <1>3 DEF PoolTypes, WorkerPc
<1>5. ASSUME NEW v \in Worker
      PROVE  /\ PoolOfWorker[v] \notin exists => worker_pc'[v] = "ended"
             /\ worker_pc'[v] = "ended" =>
                  ~pool_running[PoolOfWorker[v]] /\ tasks'[PoolOfWorker[v]] = <<>>
             /\ worker_task'[v] # NoTask <=> worker_pc'[v] \in {"run", "compute", "tell"}
  <2>1. CASE v = w
    BY <1>1, <1>2, <1>3, <2>1, ProcessAssumption DEF PoolTypes, WorkersInv, p
  <2>2. CASE v # w
    <3>1. worker_pc'[v] = worker_pc[v] /\ worker_task'[v] = worker_task[v]
      BY <1>3, <2>2 DEF PoolTypes
    <3>2. tasks[PoolOfWorker[v]] = <<>> => tasks'[PoolOfWorker[v]] = <<>>
      BY <1>1, <1>3, PoolOf DEF PoolTypes
    <3> QED
      BY <3>1, <3>2 DEF WorkersInv
  <2> QED
    BY <2>1, <2>2
<1>6. WorkersInv'
  BY <1>3, <1>5 DEF WorkersInv
<1> QED
  BY <1>4, <1>6

LEMMA EndsStep ==
  ASSUME PoolTypes, WorkersInv, NEW w \in Worker, Ends(w)
  PROVE  PoolTypes' /\ WorkersInv'
<1>1. PoolTypes'
  BY DEF Ends, PoolTypes, WorkerPc
<1>2. WorkersInv'
  BY DEF Ends, PoolTypes, WorkersInv
<1> QED
  BY <1>1, <1>2

LEMMA SleepStep ==
  ASSUME PoolTypes, WorkersInv, NEW w \in Worker, FindsNothing(w) \/ Blocks(w)
  PROVE  PoolTypes' /\ WorkersInv'
<1>1. UNCHANGED <<exists, pool_running, tasks, worker_task>>
  BY DEF FindsNothing, Blocks
<1>2. \E m \in Worker \cup {NoWorker} : mtx' = [mtx EXCEPT ![PoolOfWorker[w]] = m]
  BY DEF FindsNothing, Blocks
<1>3. \E c \in WorkerPc : worker_pc' = [worker_pc EXCEPT ![w] = c]
  BY DEF FindsNothing, Blocks, WorkerPc
<1>4. PoolTypes'
  BY <1>1, <1>2, <1>3 DEF PoolTypes
<1>5. WorkersInv'
  BY ZenonT(60) DEF FindsNothing, Blocks, PoolTypes, WorkersInv
<1> QED
  BY <1>4, <1>5

LEMMA MovesStep ==
  ASSUME PoolTypes, WorkersInv, NEW w \in Worker,
         Moves(w, "run", "compute") \/ Moves(w, "compute", "tell")
  PROVE  PoolTypes' /\ WorkersInv'
<1>1. PoolTypes'
  BY DEF Moves, PoolTypes, WorkerPc
<1>2. WorkersInv'
  BY DEF Moves, PoolTypes, WorkersInv
<1> QED
  BY <1>1, <1>2

LEMMA ReturnsStep ==
  ASSUME PoolTypes, WorkersInv, NEW w \in Worker, Returns(w, "run") \/ Returns(w, "tell")
  PROVE  PoolTypes' /\ WorkersInv'
<1>1. PoolTypes'
  BY DEF Returns, PoolTypes, WorkerPc
<1>2. WorkersInv'
  BY DEF Returns, PoolTypes, WorkersInv
<1> QED
  BY <1>1, <1>2

LEMMA PushStep ==
  ASSUME PoolTypes, WorkersInv, NEW p \in Pool, NEW s \in Stream, Push(p, s)
  PROVE  PoolTypes' /\ WorkersInv'
<1>1. UNCHANGED <<exists, pool_running, mtx, worker_pc, worker_task>>
  BY DEF Push
<1>2. CASE tasks' = tasks
  BY <1>1, <1>2 DEF PoolTypes, WorkersInv
<1>3. CASE Accepts(p) /\ tasks' = [tasks EXCEPT ![p] = Append(tasks[p], s)]
  <2>1. tasks' \in [Pool -> Seq(Stream)]
    BY <1>3 DEF PoolTypes
  <2>2. \A q \in Pool \ {p} : tasks'[q] = tasks[q]
    BY <1>3 DEF PoolTypes
  <2>3. PoolTypes'
    BY <1>1, <2>1 DEF PoolTypes
  <2>4. WorkersInv'
    BY <1>1, <1>3, <2>2, PoolOf DEF WorkersInv, Accepts
  <2> QED
    BY <2>3, <2>4
<1> QED
  BY <1>2, <1>3 DEF Push

LEMMA NotifyStep ==
  ASSUME PoolTypes, WorkersInv, NEW p, NotifyOne(p) \/ NotifyAll(p)
  PROVE  PoolTypes' /\ WorkersInv'
<1>1. UNCHANGED <<exists, pool_running, tasks, mtx, worker_task>>
  BY DEF NotifyOne, NotifyAll
<1>2. /\ worker_pc' \in [Worker -> WorkerPc]
      /\ \A w \in Worker : \/ worker_pc'[w] = worker_pc[w]
                           \/ worker_pc[w] = "asleep" /\ worker_pc'[w] = "loop"
  <2>1. CASE NotifyAll(p)
    BY <2>1 DEF NotifyAll, PoolTypes, WorkerPc
  <2>2. CASE NotifyOne(p)
    <3>1. \/ worker_pc' = worker_pc
          \/ \E w \in Worker : /\ worker_pc[w] = "asleep"
                               /\ worker_pc' = [worker_pc EXCEPT ![w] = "loop"]
      BY <2>2 DEF NotifyOne, WorkersOf
    <3> QED
      BY <3>1 DEF PoolTypes, WorkerPc
  <2> QED
    BY <2>1, <2>2
<1>3. PoolTypes'
  BY <1>1, <1>2 DEF PoolTypes
<1>4. WorkersInv'
  BY <1>1, <1>2 DEF WorkersInv
<1> QED
  BY <1>3, <1>4

LEMMA ClearRunningStep ==
  ASSUME PoolTypes, WorkersInv, NEW p, ClearRunning(p)
  PROVE  PoolTypes' /\ WorkersInv'
<1>1. PoolTypes'
  BY DEF ClearRunning, PoolTypes
<1>2. WorkersInv'
  BY PoolOf DEF ClearRunning, PoolTypes, WorkersInv
<1> QED
  BY <1>1, <1>2

LEMMA JoinedStep ==
  ASSUME PoolTypes, WorkersInv, NEW p, Joined(p)
  PROVE  PoolTypes' /\ WorkersInv'
<1>1. PoolTypes'
  BY DEF Joined, PoolTypes
<1>2. WorkersInv'
  BY DEF Joined, WorkersOf, WorkersInv
<1> QED
  BY <1>1, <1>2

-----------------------------------------------------------------------------
(* The pools that are left, and the one that is destroyed next. *)
LEMMA AllRemain == RemainingFrom(0) = Pool
BY PoolAssumption DEF RemainingFrom, Pool, Cpu

LEMMA OnlyTheLast ==
  ASSUME NEW k \in 0 .. GpuCount
  PROVE  RemainingFrom(k) = {Cpu} <=> k = GpuCount
BY PoolAssumption DEF RemainingFrom, Cpu

LEMMA DyingFacts ==
  ASSUME NEW k \in 0 .. GpuCount, exists = RemainingFrom(k)
  PROVE  /\ exists = {Cpu} => Dying = Cpu
         /\ exists # {Cpu} =>
              Dying = k /\ k + 1 \in 0 .. GpuCount /\ exists \ {Dying} = RemainingFrom(k + 1)
<1>1. exists = {Cpu} => Dying = Cpu
  BY DEF Dying
<1>2. ASSUME exists # {Cpu}
      PROVE  Dying = k /\ k + 1 \in 0 .. GpuCount /\ exists \ {Dying} = RemainingFrom(k + 1)
  <2>1. k \in Int /\ k < GpuCount /\ GpuCount \in Nat
    BY <1>2, OnlyTheLast, PoolAssumption
  <2>2. exists \ {Cpu} = k .. GpuCount - 1
    BY <2>1 DEF RemainingFrom, Cpu
  <2>3. k \in exists \ {Cpu} /\ \A q \in exists \ {Cpu} : k <= q
    BY <2>1, <2>2
  <2>4. \A p \in exists \ {Cpu} : (\A q \in exists \ {Cpu} : p <= q) => p = k
    BY <2>1, <2>2
  <2>5. Dying = k
    <3>1. Dying = CHOOSE p \in exists \ {Cpu} : \A q \in exists \ {Cpu} : p <= q
      BY <1>2 DEF Dying
    <3> QED
      BY <2>3, <2>4, <3>1
  <2>6. exists \ {k} = RemainingFrom(k + 1)
    BY <2>1 DEF RemainingFrom, Cpu
  <2> QED
    BY <2>1, <2>5, <2>6
<1> QED
  BY <1>1, <1>2

-----------------------------------------------------------------------------
(***************************************************************************)
(* The pools and their workers, step by step.                              *)
(***************************************************************************)
LEMMA PoolFrame ==
  ASSUME PoolTypes, WorkersInv, PoolsInv, UNCHANGED <<poolVars, main_pc>>
  PROVE  PoolTypes' /\ WorkersInv' /\ PoolsInv'
BY DEF PoolTypes, WorkersInv, PoolsInv, Closing, RemainingFrom, poolVars

LEMMA PoolUntilClosing ==
  ASSUME PoolTypes, WorkersInv, PoolsInv, UNCHANGED poolVars,
         ~Closing, ~Closing' \/ main_pc' = "clear"
  PROVE  PoolTypes' /\ WorkersInv' /\ PoolsInv'
<1>1. UNCHANGED <<exists, pool_running, tasks, mtx, worker_pc, worker_task>>
  BY DEF poolVars
<1>2. exists' = RemainingFrom(0) /\ 0 \in 0 .. GpuCount
  BY <1>1, AllRemain, PoolAssumption DEF PoolsInv
<1>3. PoolsInv'
  BY <1>1, <1>2 DEF PoolsInv, Closing, RemainingFrom
<1> QED
  BY <1>1, <1>3 DEF PoolTypes, WorkersInv

LEMMA WorkerPoolStep ==
  ASSUME PoolTypes, WorkersInv, PoolsInv, NEW w \in Worker, WorkerStep(w)
  PROVE  PoolTypes' /\ WorkersInv' /\ PoolsInv'
<1>1. UNCHANGED <<exists, pool_running, main_pc>>
  BY DEF WorkerStep, Pops, Ends, FindsNothing, Blocks, JobSkips, JobBegins, JobUncounts,
         JobTells, Moves, Returns, mainVars
<1>2. PoolsInv'
  BY <1>1 DEF PoolsInv, Closing, RemainingFrom
<1>3. \/ Pops(w) \/ Ends(w) \/ FindsNothing(w) \/ Blocks(w)
      \/ Moves(w, "run", "compute") \/ Moves(w, "compute", "tell")
      \/ Returns(w, "run") \/ Returns(w, "tell")
  BY Zenon DEF WorkerStep, JobSkips, JobBegins, JobUncounts, JobTells
<1> QED
  BY <1>2, <1>3, PopsStep, EndsStep, SleepStep, MovesStep, ReturnsStep

LEMMA IoPoolStep ==
  ASSUME TypeOK, WorkersInv, PoolsInv, NEW s \in Stream, IoStep(s)
  PROVE  PoolTypes' /\ WorkersInv' /\ PoolsInv'
<1>1. PoolTypes /\ ComputePool(s) \in Pool
  BY TypeParts, PoolOfStream DEF TypeOK
<1>2. CASE IoTestRunning(s) \/ IoDispatch(s) \/ IoLookup(s) \/ IoGivesUp(s) \/ IoEnds(s)
  <2>1. UNCHANGED <<poolVars, main_pc>>
    BY <1>2, Zenon DEF IoTestRunning, IoDispatch, IoLookup, IoGivesUp, IoEnds, mainVars
  <2> QED
    BY <1>1, <2>1, PoolFrame
<1>3. CASE IoPush(s)
  <2>1. Push(ComputePool(s), s) /\ main_pc' = main_pc
    BY <1>3 DEF IoPush, mainVars
  <2>2. UNCHANGED <<exists, pool_running, main_pc>>
    BY <2>1 DEF Push
  <2>3. PoolsInv'
    BY <2>2 DEF PoolsInv, Closing, RemainingFrom
  <2> QED
    BY <1>1, <2>1, <2>3, PushStep
<1>4. CASE IoPushTooLate(s)
  <2>1. UNCHANGED poolVars /\ main_pc' \in {main_pc, "crashed"}
    BY <1>4 DEF IoPushTooLate
  <2>2. UNCHANGED <<exists, pool_running, tasks, mtx, worker_pc, worker_task>>
    BY <2>1 DEF poolVars
  <2>3. PoolsInv'
    BY <2>1, <2>2 DEF PoolsInv, Closing, RemainingFrom
  <2> QED
    BY <1>1, <2>2, <2>3 DEF PoolTypes, WorkersInv
<1>5. CASE IoNotify(s)
  <2>1. NotifyOne(ComputePool(s)) /\ main_pc' = main_pc
    BY <1>5 DEF IoNotify, mainVars
  <2>2. UNCHANGED <<exists, pool_running, main_pc>>
    BY <2>1 DEF NotifyOne
  <2>3. PoolsInv'
    BY <2>2 DEF PoolsInv, Closing, RemainingFrom
  <2> QED
    BY <1>1, <2>1, <2>3, NotifyStep
<1> QED
  BY <1>2, <1>3, <1>4, <1>5 DEF IoStep

LEMMA MainPoolStep ==
  ASSUME PoolTypes, WorkersInv, PoolsInv, MainSignalled \/ MainStep
  PROVE  PoolTypes' /\ WorkersInv' /\ PoolsInv'
<1>1. CASE MainSignalled \/ MainDrains \/ MainJoinsJanitor \/ MainStopsNoMore
  <2>1. UNCHANGED poolVars /\ ~Closing /\ (~Closing' \/ main_pc' = "clear")
    BY <1>1 DEF MainSignalled, MainDrains, MainJoinsJanitor, MainStopsNoMore, MainPasses, Closing
  <2> QED
    BY <2>1, PoolUntilClosing
<1>2. CASE \E s \in Stream : MainStops(s)
  BY <1>2, PoolFrame DEF MainStops, mainVars
<1>3. CASE MainClears
  <2>1. ClearRunning(Dying) /\ main_pc = "clear" /\ main_pc' = "notify"
    BY <1>3 DEF MainClears, MainPasses
  <2>2. PoolsInv'
    BY <2>1 DEF PoolsInv, Closing, RemainingFrom, ClearRunning
  <2> QED
    BY <2>1, <2>2, ClearRunningStep
<1>4. CASE MainNotifies
  <2>1. NotifyAll(Dying) /\ main_pc = "notify" /\ main_pc' = "join"
    BY <1>4 DEF MainNotifies, MainPasses
  <2>2. PoolsInv'
    BY <2>1 DEF PoolsInv, Closing, RemainingFrom, NotifyAll
  <2> QED
    BY <2>1, <2>2, NotifyStep
<1>5. CASE MainJoins
  <2>1. /\ Joined(Dying) /\ main_pc = "join"
        /\ main_pc' = IF exists = {Cpu} THEN "returned" ELSE "clear"
    BY <1>5 DEF MainJoins, MainPasses
  <2>2. exists' = exists \ {Dying}
    BY <2>1 DEF Joined
  <2>3. PICK k \in 0 .. GpuCount : exists = RemainingFrom(k)
    BY <2>1 DEF PoolsInv
  <2>4. CASE exists = {Cpu}
    <3>1. Dying = Cpu
      BY <2>3, <2>4, DyingFacts
    <3>2. exists' = {} /\ main_pc' = "returned"
      BY <2>1, <2>2, <2>4, <3>1
    <3>3. PoolsInv'
      BY <3>2 DEF PoolsInv, Closing
    <3> QED
      BY <2>1, <3>3, JoinedStep
  <2>5. CASE exists # {Cpu}
    <3>1. k + 1 \in 0 .. GpuCount /\ exists' = RemainingFrom(k + 1)
      BY <2>2, <2>3, <2>5, DyingFacts
    <3> QED
      BY <2>1, <2>5, <3>1, JoinedStep DEF PoolsInv, Closing, RemainingFrom
  <2> QED
    BY <2>1, <2>4, <2>5, JoinedStep
<1> QED
  BY <1>1, <1>2, <1>3, <1>4, <1>5 DEF MainStep

(* start() moves on, and leaves to others all but the stream's own flags   *)
(* and thread.                                                             *)
LEMMA StartFrame ==
  ASSUME NEW s \in Stream, Start(s)
  PROVE  /\ UNCHANGED <<poolVars, mainVars, janitorVars, streams, eventful, call, gpu_id,
                        jobVars, stopVars>>
         /\ starting[s] \in {"start", "reset", "spawn", "assign"}
         /\ \E c \in {"reset", "spawn", "assign", "done"} :
              /\ starting' = [starting EXCEPT ![s] = c]
              /\ c = "done" => starting[s] = "assign"
BY DEF Start, StartCas, StartReset, StartSpawn, StartAssign, Starts, Turns

(* All threads but main(), the workers and the IO threads leave pools,     *)
(* queues and workers alone, and of the IO threads start() creates one.    *)
LEMMA OthersAtPools ==
  ASSUME JanitorStep \/ \E s \in Stream : StopGoes(s) \/ HandlerStep(s) \/ ClientStep(s)
  PROVE  /\ UNCHANGED <<exists, pool_running, tasks, mtx, worker_pc, worker_task,
                        main_pc, manager_running, gpu_id, jobVars>>
         /\ UNCHANGED io_pc \/ \E s \in Stream : StartSpawn(s)
<1>1. CASE \E s \in Stream : Start(s)
  <2>1. PICK s \in Stream : Start(s)
    BY <1>1
  <2>2. UNCHANGED io_pc \/ StartSpawn(s)
    BY <2>1 DEF Start, StartCas, StartReset, StartAssign
  <2> QED
    BY <2>1, <2>2, StartFrame DEF poolVars, mainVars
<1>2. CASE ~ \E s \in Stream : Start(s)
  BY <1>2
  DEF JanitorStep, JanitorGoes, JanitorCollects, JanitorStops, StopGoes, HandlerStep,
      HandlerStops, WatchEnds, WatcherLeaves, ClientStep, CallStart, CallStop, CallWatch,
      StopBegins, StopReturns, mainVars, poolVars, flagVars
<1> QED
  BY <1>1, <1>2

LEMMA PoolStep ==
  ASSUME IInv, [Next]_vars
  PROVE  PoolTypes' /\ WorkersInv' /\ PoolsInv'
<1>1. PoolTypes /\ WorkersInv /\ PoolsInv /\ TypeOK
  BY TypeParts DEF IInv
<1>2. CASE MainSignalled \/ MainStep
  BY <1>1, <1>2, MainPoolStep
<1>3. CASE JanitorStep \/ \E s \in Stream : StopGoes(s) \/ HandlerStep(s) \/ ClientStep(s)
  <2>1. UNCHANGED <<poolVars, main_pc>>
    BY <1>3, OthersAtPools DEF poolVars
  <2> QED
    BY <1>1, <2>1, PoolFrame
<1>4. CASE \E w \in Worker : WorkerStep(w)
  BY <1>1, <1>4, WorkerPoolStep
<1>5. CASE \E s \in Stream : IoStep(s)
  BY <1>1, <1>5, IoPoolStep
<1>6. CASE UNCHANGED vars
  BY <1>1, <1>6, PoolFrame DEF vars, mainVars
<1> QED
  BY <1>2, <1>3, <1>4, <1>5, <1>6 DEF Next

-----------------------------------------------------------------------------
(***************************************************************************)
(* The life of a stream and the order of the shutdown, thread by thread.   *)
(***************************************************************************)
LivesInv == CallTypes /\ LifeTypes /\ ShutdownInv /\ StreamsInv

LEMMA LivesFrame ==
  ASSUME LivesInv, UNCHANGED <<mainVars, janitorVars, callVars, flagVars, stopVars>>
  PROVE  LivesInv'
BY DEF LivesInv, CallTypes, LifeTypes, ShutdownInv, Closing, NoCallOpen, StreamsInv, LifeInv,
       StopperInv, TeardownInv, Unjoined, mainVars, janitorVars, callVars, flagVars, stopVars

(* The IO thread between two frames, and its end. *)
LEMMA IoTurns ==
  ASSUME LivesInv, NEW s \in Stream, NEW c \in IoPc \ {"none", "stopping", "ended"},
         io_pc[s] \in {"loop", "dispatch", "lookup", "push", "notify"},
         io_pc' = [io_pc EXCEPT ![s] = c],
         UNCHANGED <<mainVars, janitorVars, callVars, running, stopped, joinable, gpu_id, stopVars>>
  PROVE  LivesInv'
<1> USE DEF LivesInv, CallTypes, LifeTypes, mainVars, janitorVars, callVars,
     stopVars, IoPc
<1>1. CallTypes' /\ LifeTypes'
  BY DEF Stopper, StopPc, IoPc
<1>2. ShutdownInv'
  BY DEF ShutdownInv, Closing, NoCallOpen
<1>3. ASSUME NEW r \in Stream
      PROVE  LifeInv(r)' /\ StopperInv(r)' /\ TeardownInv(r)'
  <2>1. LifeInv(r) /\ StopperInv(r) /\ TeardownInv(r)
    BY DEF StreamsInv
  <2>2. LifeInv(r)'
    BY <2>1, ProcessAssumption DEF LifeInv
  <2>3. StopperInv(r)'
    BY <2>1 DEF LifeInv, StopperInv, ShutdownInv, Closing
  <2>4. TeardownInv(r)'
    BY <2>1 DEF LifeInv, TeardownInv, Unjoined
  <2> QED
    BY <2>2, <2>3, <2>4
<1> QED
  BY <1>1, <1>2, <1>3 DEF StreamsInv

LEMMA IoLeaves ==
  ASSUME LivesInv, NEW s \in Stream, IoGivesUp(s) \/ IoEnds(s)
  PROVE  LivesInv'
<1> USE DEF LivesInv, CallTypes, LifeTypes, IoGivesUp, IoEnds, Turns,
     mainVars, janitorVars, callVars, stopVars
<1>1. CallTypes' /\ LifeTypes'
  <2>1. eventful' \subseteq Stream
    BY DEF Befalls
  <2>2. CASE IoGivesUp(s)
    BY <2>1, <2>2, ZenonT(60) DEF Stopper, StopPc, IoPc
  <2>3. CASE IoEnds(s)
    BY <2>1, <2>3, ZenonT(60) DEF Stopper, StopPc, IoPc
  <2> QED
    BY <2>2, <2>3
<1>2. ShutdownInv'
  BY DEF ShutdownInv, Closing, NoCallOpen
<1>3. ASSUME NEW r \in Stream
      PROVE  LifeInv(r)' /\ StopperInv(r)' /\ TeardownInv(r)'
  <2>1. LifeInv(r) /\ StopperInv(r) /\ TeardownInv(r)
    BY DEF StreamsInv
  <2>2. LifeInv(r)'
    BY <2>1, ProcessAssumption DEF LifeInv
  <2>3. StopperInv(r)'
    BY <2>1 DEF LifeInv, StopperInv, ShutdownInv, Closing
  <2>4. TeardownInv(r)'
    BY <2>1 DEF LifeInv, TeardownInv, Unjoined
  <2> QED
    BY <2>2, <2>3, <2>4
<1> QED
  BY <1>1, <1>2, <1>3 DEF StreamsInv

(* A push that comes too late finds main() destroying the pools. *)
LEMMA IoTooLate ==
  ASSUME LivesInv, NEW s \in Stream, Closing, IoPushTooLate(s)
  PROVE  LivesInv'
<1> USE DEF LivesInv, CallTypes, LifeTypes, IoPushTooLate, Turns, janitorVars,
     callVars, stopVars
<1>1. CallTypes' /\ LifeTypes'
  BY DEF Stopper, StopPc, IoPc
<1>2. ShutdownInv'
  BY DEF ShutdownInv, Closing, NoCallOpen
<1>3. ASSUME NEW r \in Stream
      PROVE  LifeInv(r)' /\ StopperInv(r)' /\ TeardownInv(r)'
  <2>1. LifeInv(r) /\ StopperInv(r) /\ TeardownInv(r)
    BY DEF StreamsInv
  <2>2. LifeInv(r)'
    BY <2>1, ProcessAssumption DEF LifeInv
  <2>3. StopperInv(r)'
    BY <2>1 DEF LifeInv, StopperInv, ShutdownInv, Closing
  <2>4. TeardownInv(r)'
    BY <2>1 DEF LifeInv, TeardownInv, Unjoined
  <2> QED
    BY <2>2, <2>3, <2>4
<1> QED
  BY <1>1, <1>2, <1>3 DEF StreamsInv

(* A job that ends wakes the thread that waits for it. *)
LEMMA JobTellsLives ==
  ASSUME LivesInv, NEW w \in Worker, worker_task[w] \in Stream, JobTells(w)
  PROVE  LivesInv'
<1> USE DEF LivesInv, CallTypes, LifeTypes, JobTells, mainVars, janitorVars,
     callVars, flagVars
<1>1. CallTypes' /\ LifeTypes'
  BY DEF Stopper, StopPc, IoPc
<1>2. ShutdownInv'
  BY DEF ShutdownInv, Closing, NoCallOpen
<1>3. ASSUME NEW r \in Stream
      PROVE  LifeInv(r)' /\ StopperInv(r)' /\ TeardownInv(r)'
  <2>1. LifeInv(r) /\ StopperInv(r) /\ TeardownInv(r)
    BY DEF StreamsInv
  <2>2. LifeInv(r)'
    BY <2>1, ProcessAssumption DEF LifeInv
  <2>3. StopperInv(r)'
    BY <2>1 DEF LifeInv, StopperInv, ShutdownInv, Closing
  <2>4. TeardownInv(r)'
    BY <2>1 DEF LifeInv, TeardownInv, Unjoined
  <2> QED
    BY <2>2, <2>3, <2>4
<1> QED
  BY <1>1, <1>2, <1>3 DEF StreamsInv

(* The thread that tears a stream down. *)
LEMMA StopLives ==
  ASSUME LivesInv, NEW s \in Stream, StopGoes(s)
  PROVE  LivesInv'
<1> USE DEF LivesInv, CallTypes, LifeTypes, StopGoes, StopJoins, StopReleases, Turns, mainVars,
     janitorVars, callVars
<1>1. CallTypes' /\ LifeTypes'
  BY ZenonT(60) DEF Stopper, StopPc, IoPc
<1>2. ShutdownInv'
  BY DEF ShutdownInv, Closing, NoCallOpen
<1>3. ASSUME NEW r \in Stream
      PROVE  LifeInv(r)' /\ StopperInv(r)' /\ TeardownInv(r)'
  <2>1. LifeInv(r) /\ StopperInv(r) /\ TeardownInv(r)
    BY DEF StreamsInv
  <2>2. LifeInv(r)'
    BY <2>1, ProcessAssumption DEF LifeInv
  <2>3. StopperInv(r)'
    BY <2>1 DEF LifeInv, StopperInv, ShutdownInv, Closing
  <2>4. TeardownInv(r)'
    BY <2>1 DEF LifeInv, TeardownInv, Unjoined
  <2> QED
    BY <2>2, <2>3, <2>4
<1> QED
  BY <1>1, <1>2, <1>3 DEF StreamsInv

(* The handlers and their clients. *)
LEMMA CallStartLives ==
  ASSUME LivesInv, NEW s \in Stream, CallStart(s)
  PROVE  LivesInv'
<1> USE DEF LivesInv, CallTypes, LifeTypes, CallStart, Turns,
     mainVars, janitorVars, flagVars, stopVars
<1>1. CallTypes' /\ LifeTypes'
  BY DEF Starting, Stopper, StopPc, IoPc
<1>2. ShutdownInv'
  BY DEF ShutdownInv, Closing, NoCallOpen
<1>3. ASSUME NEW r \in Stream
      PROVE  LifeInv(r)' /\ StopperInv(r)' /\ TeardownInv(r)'
  <2>1. LifeInv(r) /\ StopperInv(r) /\ TeardownInv(r)
    BY DEF StreamsInv
  <2>2. LifeInv(r)'
    BY <2>1, ProcessAssumption DEF LifeInv
  <2>3. StopperInv(r)'
    BY <2>1 DEF LifeInv, StopperInv, ShutdownInv, Closing
  <2>4. TeardownInv(r)'
    BY <2>1 DEF LifeInv, TeardownInv, Unjoined
  <2> QED
    BY <2>2, <2>3, <2>4
<1> QED
  BY <1>1, <1>2, <1>3 DEF StreamsInv

LEMMA StartLives ==
  ASSUME LivesInv, NEW s \in Stream, Start(s)
  PROVE  LivesInv'
<1> USE DEF LivesInv, CallTypes, LifeTypes, Start, StartCas, StartReset,
     StartSpawn, StartAssign, Starts, Turns, mainVars, janitorVars, stopVars
<1>1. CallTypes' /\ LifeTypes'
  BY DEF Starting, Stopper, StopPc, IoPc
<1>2. ShutdownInv'
  BY DEF ShutdownInv, Closing, NoCallOpen
<1>3. ASSUME NEW r \in Stream
      PROVE  LifeInv(r)' /\ StopperInv(r)' /\ TeardownInv(r)'
  <2>1. LifeInv(r) /\ StopperInv(r) /\ TeardownInv(r)
    BY DEF StreamsInv
  <2>2. LifeInv(r)'
    BY <2>1, ProcessAssumption DEF LifeInv
  <2>3. StopperInv(r)'
    BY <2>1 DEF LifeInv, StopperInv, ShutdownInv, Closing
  <2>4. TeardownInv(r)'
    BY <2>1 DEF LifeInv, TeardownInv, Unjoined
  <2> QED
    BY <2>2, <2>3, <2>4
<1> QED
  BY <1>1, <1>2, <1>3 DEF StreamsInv

LEMMA CallLives ==
  ASSUME LivesInv, NEW s \in Stream, CallStop(s) \/ CallWatch(s) \/ WatcherLeaves(s)
  PROVE  LivesInv'
<1> USE DEF LivesInv, CallTypes, LifeTypes, CallStop, CallWatch,
     WatcherLeaves, Turns, mainVars, janitorVars, flagVars, stopVars
<1>1. CallTypes' /\ LifeTypes'
  BY DEF Befalls, Stopper, StopPc, IoPc
<1>2. ShutdownInv'
  BY DEF ShutdownInv, Closing, NoCallOpen
<1>3. ASSUME NEW r \in Stream
      PROVE  LifeInv(r)' /\ StopperInv(r)' /\ TeardownInv(r)'
  <2>1. LifeInv(r) /\ StopperInv(r) /\ TeardownInv(r)
    BY DEF StreamsInv
  <2>2. LifeInv(r)'
    BY <2>1, ProcessAssumption DEF LifeInv
  <2>3. StopperInv(r)'
    BY <2>1 DEF LifeInv, StopperInv, ShutdownInv, Closing
  <2>4. TeardownInv(r)'
    BY <2>1 DEF LifeInv, TeardownInv, Unjoined
  <2> QED
    BY <2>2, <2>3, <2>4
<1> QED
  BY <1>1, <1>2, <1>3 DEF StreamsInv

LEMMA HandlerStopsLives ==
  ASSUME LivesInv, NEW s \in Stream, HandlerStops(s)
  PROVE  LivesInv'
<1> USE DEF LivesInv, CallTypes, LifeTypes, HandlerStops, StopBegins,
     StopReturns, mainVars, janitorVars, flagVars, stopVars
<1>1. CallTypes' /\ LifeTypes'
  BY DEF Stopper, StopPc, IoPc
<1>2. ShutdownInv'
  BY DEF ShutdownInv, Closing, NoCallOpen
<1>3. ASSUME NEW r \in Stream
      PROVE  LifeInv(r)' /\ StopperInv(r)' /\ TeardownInv(r)'
  <2>1. LifeInv(r) /\ StopperInv(r) /\ TeardownInv(r)
    BY DEF StreamsInv
  <2>2. LifeInv(r)'
    BY <2>1, ProcessAssumption DEF LifeInv
  <2>3. StopperInv(r)'
    BY <2>1 DEF LifeInv, StopperInv, ShutdownInv, Closing
  <2>4. TeardownInv(r)'
    BY <2>1 DEF LifeInv, TeardownInv, Unjoined
  <2> QED
    BY <2>2, <2>3, <2>4
<1> QED
  BY <1>1, <1>2, <1>3 DEF StreamsInv

(* The clean-up thread. *)
LEMMA JanitorGoesLives ==
  ASSUME LivesInv, JanitorGoes
  PROVE  LivesInv'
<1> USE DEF LivesInv, CallTypes, LifeTypes, JanitorGoes, mainVars, callVars,
     flagVars, stopVars
<1>1. CallTypes' /\ LifeTypes'
  BY DEF Stopper, StopPc, IoPc
<1>2. ShutdownInv'
  BY DEF ShutdownInv, Closing, NoCallOpen
<1>3. ASSUME NEW r \in Stream
      PROVE  LifeInv(r)' /\ StopperInv(r)' /\ TeardownInv(r)'
  <2>1. LifeInv(r) /\ StopperInv(r) /\ TeardownInv(r)
    BY DEF StreamsInv
  <2>2. LifeInv(r)'
    BY <2>1, ProcessAssumption DEF LifeInv
  <2>3. StopperInv(r)'
    BY <2>1 DEF LifeInv, StopperInv, ShutdownInv, Closing
  <2>4. TeardownInv(r)'
    BY <2>1 DEF LifeInv, TeardownInv, Unjoined
  <2> QED
    BY <2>2, <2>3, <2>4
<1> QED
  BY <1>1, <1>2, <1>3 DEF StreamsInv

LEMMA JanitorCollectsLives ==
  ASSUME LivesInv, JanitorCollects
  PROVE  LivesInv'
<1> USE DEF LivesInv, CallTypes, LifeTypes, JanitorCollects, mainVars,
     flagVars, stopVars
<1>1. CallTypes' /\ LifeTypes'
  BY DEF Befalls, Stopper, StopPc, IoPc
<1>2. ShutdownInv'
  BY DEF ShutdownInv, Closing, NoCallOpen
<1>3. ASSUME NEW r \in Stream
      PROVE  LifeInv(r)' /\ StopperInv(r)' /\ TeardownInv(r)'
  <2>1. LifeInv(r) /\ StopperInv(r) /\ TeardownInv(r)
    BY DEF StreamsInv
  <2>2. LifeInv(r)'
    BY <2>1, ProcessAssumption DEF LifeInv
  <2>3. StopperInv(r)'
    BY <2>1 DEF LifeInv, StopperInv, ShutdownInv, Closing
  <2>4. TeardownInv(r)'
    BY <2>1 DEF LifeInv, TeardownInv, Unjoined
  <2> QED
    BY <2>2, <2>3, <2>4
<1> QED
  BY <1>1, <1>2, <1>3 DEF StreamsInv

LEMMA JanitorStopsLives ==
  ASSUME LivesInv, NEW s \in Stream, JanitorStops(s)
  PROVE  LivesInv'
<1> USE DEF LivesInv, CallTypes, LifeTypes, JanitorStops, StopBegins,
     StopReturns, mainVars, callVars, flagVars, stopVars
<1>1. CallTypes' /\ LifeTypes'
  BY ZenonT(60) DEF Stopper, StopPc, IoPc
<1>2. ShutdownInv'
  BY DEF ShutdownInv, Closing, NoCallOpen
<1>3. ASSUME NEW r \in Stream
      PROVE  LifeInv(r)' /\ StopperInv(r)' /\ TeardownInv(r)'
  <2>1. LifeInv(r) /\ StopperInv(r) /\ TeardownInv(r)
    BY DEF StreamsInv
  <2>2. LifeInv(r)'
    BY <2>1, ProcessAssumption DEF LifeInv
  <2>3. StopperInv(r)'
    BY <2>1 DEF LifeInv, StopperInv, ShutdownInv, Closing
  <2>4. TeardownInv(r)'
    BY <2>1 DEF LifeInv, TeardownInv, Unjoined
  <2> QED
    BY <2>2, <2>3, <2>4
<1> QED
  BY <1>1, <1>2, <1>3 DEF StreamsInv

(* main(). *)
LEMMA MainPassesLives ==
  ASSUME LivesInv, MainSignalled \/ MainDrains \/ MainJoinsJanitor \/ MainStopsNoMore
  PROVE  LivesInv'
<1> USE DEF LivesInv, CallTypes, LifeTypes, MainSignalled, MainDrains,
     MainJoinsJanitor, MainStopsNoMore, MainPasses, janitorVars, callVars,
     flagVars, stopVars
<1>1. CallTypes' /\ LifeTypes'
  BY DEF Stopper, StopPc, IoPc
<1>2. ShutdownInv'
  BY DEF ShutdownInv, Closing, NoCallOpen
<1>3. ASSUME NEW r \in Stream
      PROVE  LifeInv(r)' /\ StopperInv(r)' /\ TeardownInv(r)'
  <2>1. LifeInv(r) /\ StopperInv(r) /\ TeardownInv(r)
    BY DEF StreamsInv
  <2>2. LifeInv(r)'
    BY <2>1, ProcessAssumption DEF LifeInv
  <2>3. StopperInv(r)'
    BY <2>1 DEF LifeInv, StopperInv, ShutdownInv, Closing
  <2>4. TeardownInv(r)'
    BY <2>1 DEF LifeInv, TeardownInv, Unjoined
  <2> QED
    BY <2>2, <2>3, <2>4
<1> QED
  BY <1>1, <1>2, <1>3 DEF StreamsInv

LEMMA MainStopsLives ==
  ASSUME LivesInv, NEW s \in Stream, MainStops(s)
  PROVE  LivesInv'
<1> USE DEF LivesInv, CallTypes, LifeTypes, MainStops, StopBegins,
     StopReturns, mainVars, janitorVars, flagVars, stopVars
<1>1. CallTypes' /\ LifeTypes'
  BY ZenonT(60) DEF Stopper, StopPc, IoPc
<1>2. ShutdownInv'
  BY DEF ShutdownInv, Closing, NoCallOpen
<1>3. ASSUME NEW r \in Stream
      PROVE  LifeInv(r)' /\ StopperInv(r)' /\ TeardownInv(r)'
  <2>1. LifeInv(r) /\ StopperInv(r) /\ TeardownInv(r)
    BY DEF StreamsInv
  <2>2. LifeInv(r)'
    BY <2>1, ProcessAssumption DEF LifeInv
  <2>3. StopperInv(r)'
    BY <2>1 DEF LifeInv, StopperInv, ShutdownInv, Closing
  <2>4. TeardownInv(r)'
    BY <2>1 DEF LifeInv, TeardownInv, Unjoined
  <2> QED
    BY <2>2, <2>3, <2>4
<1> QED
  BY <1>1, <1>2, <1>3 DEF StreamsInv

LEMMA MainClosesLives ==
  ASSUME LivesInv, MainClears \/ MainNotifies \/ MainJoins
  PROVE  LivesInv'
<1> USE DEF LivesInv, CallTypes, LifeTypes, MainClears, MainNotifies,
     MainJoins, MainPasses, janitorVars, callVars, flagVars, stopVars
<1>1. CallTypes' /\ LifeTypes'
  BY DEF Stopper, StopPc, IoPc
<1>2. ShutdownInv'
  BY DEF ShutdownInv, Closing, NoCallOpen
<1>3. ASSUME NEW r \in Stream
      PROVE  LifeInv(r)' /\ StopperInv(r)' /\ TeardownInv(r)'
  <2>1. LifeInv(r) /\ StopperInv(r) /\ TeardownInv(r)
    BY DEF StreamsInv
  <2>2. LifeInv(r)'
    BY <2>1, ProcessAssumption DEF LifeInv
  <2>3. StopperInv(r)'
    BY <2>1 DEF LifeInv, StopperInv, ShutdownInv, Closing
  <2>4. TeardownInv(r)'
    BY <2>1 DEF LifeInv, TeardownInv, Unjoined
  <2> QED
    BY <2>2, <2>3, <2>4
<1> QED
  BY <1>1, <1>2, <1>3 DEF StreamsInv

LEMMA LivesStep ==
  ASSUME IInv, [Next]_vars
  PROVE  LivesInv'
<1>1. LivesInv /\ PoolTypes /\ WorkersInv /\ PoolsInv
  BY TypeParts DEF IInv, LivesInv
<1>2. CASE MainSignalled \/ MainStep
  BY <1>1, <1>2, MainPassesLives, MainStopsLives, MainClosesLives DEF MainStep
<1>3. CASE JanitorStep
  BY <1>1, <1>3, JanitorGoesLives, JanitorCollectsLives, JanitorStopsLives DEF JanitorStep
<1>4. ASSUME NEW w \in Worker, WorkerStep(w)
      PROVE  LivesInv'
  <2>1. CASE JobTells(w)
    <3>1. worker_task[w] \in Stream
      BY <1>1, <2>1 DEF JobTells, Returns, WorkersInv, PoolTypes
    <3> QED
      BY <1>1, <2>1, <3>1, JobTellsLives
  <2>2. CASE ~JobTells(w)
    <3>1. UNCHANGED <<mainVars, janitorVars, callVars, flagVars, stopVars>>
      BY <1>4, <2>2, Zenon DEF WorkerStep, JobSkips, JobBegins, JobUncounts
    <3> QED
      BY <1>1, <3>1, LivesFrame
  <2> QED
    BY <2>1, <2>2
<1>5. ASSUME NEW s \in Stream, IoStep(s)
      PROVE  LivesInv'
  <2>1. CASE IoGivesUp(s) \/ IoEnds(s)
    BY <1>1, <2>1, IoLeaves
  <2>2. CASE IoPushTooLate(s)
    <3>1. ComputePool(s) \notin exists /\ ComputePool(s) \in Pool
      BY <2>2, PoolOfStream DEF IoPushTooLate, IInv, TypeOK
    <3>2. Closing
      BY <1>1, <3>1 DEF PoolsInv
    <3> QED
      BY <1>1, <2>2, <3>2, IoTooLate
  <2>3. CASE IoTestRunning(s) \/ IoDispatch(s) \/ IoLookup(s) \/ IoPush(s) \/ IoNotify(s)
    <3>1. io_pc[s] \in {"loop", "dispatch", "lookup", "push", "notify"}
      BY <2>3 DEF IoTestRunning, IoDispatch, IoLookup, IoPush, IoNotify, Turns
    <3>2. \E c \in IoPc \ {"none", "stopping", "ended"} : io_pc' = [io_pc EXCEPT ![s] = c]
      BY <2>3 DEF IoTestRunning, IoDispatch, IoLookup, IoPush, IoNotify, Turns, IoPc
    <3>3. UNCHANGED <<mainVars, janitorVars, callVars, running, stopped, joinable, gpu_id, stopVars>>
      BY <2>3, Zenon DEF IoTestRunning, IoDispatch, IoLookup, IoPush, IoNotify
    <3> QED
      BY <1>1, <3>1, <3>2, <3>3, IoTurns
  <2> QED
    BY <1>5, <2>1, <2>2, <2>3 DEF IoStep
<1>6. ASSUME NEW s \in Stream, StopGoes(s) \/ HandlerStep(s) \/ ClientStep(s)
      PROVE  LivesInv'
  BY <1>1, <1>6, StopLives, CallStartLives, StartLives, CallLives, HandlerStopsLives
  DEF HandlerStep, ClientStep, WatchEnds
<1>7. CASE UNCHANGED vars
  BY <1>1, <1>7, LivesFrame DEF vars
<1> QED
  BY <1>2, <1>3, <1>4, <1>5, <1>6, <1>7 DEF Next

-----------------------------------------------------------------------------
(***************************************************************************)
(* While a thread has a job to hand over, its pool is there.  Once main()  *)
(* destroys pools nothing is listed, open or to do, so that whoever had a  *)
(* stream to stop has stopped it, and joined its IO thread if it could.    *)
(***************************************************************************)
LEMMA PoolIsThere == IInv => PoolOutlivesStreams
<1> SUFFICES ASSUME IInv, NEW s \in Stream,
                    io_pc[s] \in {"lookup", "push", "notify"}, ~Unattended(s)
             PROVE  Accepts(ComputePool(s))
  BY DEF PoolOutlivesStreams
<1>1. TypeOK /\ PoolsInv /\ ShutdownInv /\ LifeInv(s) /\ StopperInv(s) /\ TeardownInv(s)
  BY DEF IInv, StreamsInv
<1>2. CASE ~Closing
  BY <1>1, <1>2, PoolOfStream DEF TypeOK, PoolsInv, Accepts
<1>3. CASE Closing
  <2>1. streams = {} /\ janitor_todo = {} /\ call[s] = "none"
    BY <1>1, <1>3 DEF ShutdownInv, Closing, NoCallOpen
  <2>2. starting[s] = "done"
    BY <1>1, <1>3 DEF LifeInv, ShutdownInv, Closing, NoCallOpen
  <2>3. stop_by[s] \in {"handler", "janitor", "main"}
    BY <1>1, <2>1, <2>2 DEF TypeOK, Orphan, Unattended
  <2>4. stop_pc[s] = "done"
    BY <1>1, <2>1, <2>3 DEF StopperInv
  <2>5. io_pc[s] = "ended"
    BY <1>1, <2>3, <2>4 DEF TeardownInv, Unattended
  <2> QED
    BY <2>5
<1> QED
  BY <1>2, <1>3

(* Nobody takes an orphan up again. *)
LEMMA OrphanStays ==
  ASSUME TypeOK, [Next]_vars, NEW s \in Stream, Orphan(s)
  PROVE  Orphan(s)'
<1>1. starting[s] = "done" /\ s \notin streams /\ s \notin janitor_todo
      /\ call[s] # "stop" /\ stop_by[s] \in {NoThread, "self"}
  BY DEF Orphan
<1>2. CASE UNCHANGED <<streams, starting, call, janitor_todo, stop_by>>
  BY <1>1, <1>2 DEF Orphan
<1>3. CASE \E r \in Stream : MainStops(r) \/ HandlerStops(r) \/ JanitorStops(r)
  BY <1>1, <1>3
  DEF MainStops, HandlerStops, JanitorStops, StopBegins, StopReturns, callVars, stopVars, Orphan,
      TypeOK, janitorVars
<1>4. CASE \E r \in Stream : HandlerStep(r) \/ ClientStep(r)
  <2>1. PICK r \in Stream : HandlerStep(r) \/ ClientStep(r)
    BY <1>4
  <2>2. CASE HandlerStops(r)
    BY <1>3, <2>2
  <2>3. CASE Start(r)
    <3>1. UNCHANGED <<streams, janitor_todo, call, stop_by>> /\ r # s
      BY <1>1, <2>3, StartFrame DEF janitorVars, stopVars
    <3>2. starting'[s] = starting[s]
      BY <2>3, <3>1, StartFrame DEF TypeOK
    <3> QED
      BY <1>1, <3>1, <3>2 DEF Orphan
  <2>4. CASE CallStart(r) \/ CallStop(r) \/ CallWatch(r) \/ WatcherLeaves(r)
    BY <1>1, <2>4
    DEF CallStart, CallStop, CallWatch, WatcherLeaves, Turns, janitorVars, stopVars, Orphan, TypeOK
  <2> QED
    BY <2>1, <2>2, <2>3, <2>4 DEF HandlerStep, ClientStep, WatchEnds
<1>5. CASE JanitorCollects
  BY <1>1, <1>5 DEF JanitorCollects, stopVars, Orphan
<1>6. CASE \E r \in Stream : IoGivesUp(r)
  BY <1>1, <1>6 DEF IoGivesUp, callVars, janitorVars, Orphan, TypeOK
<1>7. CASE \E r \in Stream : IoStep(r) \/ StopGoes(r)
  <2>1. PICK r \in Stream : IoStep(r) \/ StopGoes(r)
    BY <1>7
  <2>2. \/ IoGivesUp(r)
        \/ UNCHANGED <<streams, starting, call, janitor_todo, stop_by>>
    BY <2>1
    DEF IoStep, IoTestRunning, IoDispatch, IoLookup, IoPush, IoPushTooLate, IoNotify, IoEnds,
        StopGoes,
        callVars, janitorVars, stopVars
  <2> QED
    BY <1>2, <1>6, <2>2
<1>8. CASE \E w \in Worker : WorkerStep(w)
  <2>1. UNCHANGED <<streams, starting, call, janitor_todo, stop_by>>
    BY <1>8
    DEF WorkerStep, JobSkips, JobBegins, JobUncounts, JobTells, callVars, janitorVars, stopVars
  <2> QED
    BY <1>2, <2>1
<1>9. CASE MainSignalled \/ MainStep
  <2>1. \/ \E r \in Stream : MainStops(r)
        \/ UNCHANGED <<streams, starting, call, janitor_todo, stop_by>>
    BY <1>9
    DEF MainSignalled, MainStep, MainDrains, MainJoinsJanitor, MainStopsNoMore, MainClears,
        MainNotifies, MainJoins, MainPasses, callVars, janitorVars, stopVars
  <2> QED
    BY <1>2, <1>3, <2>1
<1>10. CASE JanitorStep
  <2>1. \/ JanitorCollects \/ \E r \in Stream : JanitorStops(r)
        \/ UNCHANGED <<streams, starting, call, janitor_todo, stop_by>>
    BY <1>10 DEF JanitorStep, JanitorGoes, callVars, stopVars
  <2> QED
    BY <1>2, <1>3, <1>5, <2>1
<1>11. CASE UNCHANGED vars
  BY <1>2, <1>11 DEF vars, callVars, janitorVars, stopVars
<1> QED
  BY <1>4, <1>7, <1>8, <1>9, <1>10, <1>11 DEF Next

(* What a step does to the fate of a stream: who stops it, how far that    *)
(* is, and the handle of its IO thread.                                    *)
FateOn(s) ==
  /\ stop_by[s] # NoThread => stop_by'[s] = stop_by[s]
  /\ stop_pc[s] \notin {"none", "join"} => stop_pc'[s] \notin {"none", "join"}
  /\ starting'[s] = "done" => starting[s] = "done" \/ joinable'[s]
  /\ joinable[s] /\ stop_pc[s] # "join" => joinable'[s]

LEMMA StopBeginsFate ==
  ASSUME LifeTypes, StreamsInv, NEW r \in Stream, NEW t, StopBegins(r, t),
         UNCHANGED starting, NEW s \in Stream
  PROVE  FateOn(s)
<1>1. stop_by[r] = NoThread /\ stop_pc[r] = "none"
  BY DEF StopBegins, StreamsInv, LifeInv
<1> QED
  BY <1>1 DEF StopBegins, FateOn, LifeTypes

LEMMA EveryFate ==
  ASSUME IInv, [Next]_vars, NEW s \in Stream
  PROVE  FateOn(s)
<1>1. LifeTypes /\ CallTypes /\ PoolTypes /\ WorkersInv /\ StreamsInv
  BY TypeParts DEF IInv
<1>2. CASE UNCHANGED <<starting, joinable, stop_by, stop_pc>>
  BY <1>2 DEF FateOn
<1>3. ASSUME NEW w \in Worker, WorkerStep(w)
      PROVE  FateOn(s)
  <2>1. CASE JobTells(w)
    <3>1. /\ worker_task[w] \in Stream /\ UNCHANGED <<starting, joinable, stop_by>>
          /\ stop_pc' = [stop_pc EXCEPT ![worker_task[w]] = IF @ = "asleep" THEN "test" ELSE @]
      BY <1>1, <2>1 DEF JobTells, Returns, WorkersInv, PoolTypes, callVars, flagVars
    <3> QED
      BY <1>1, <3>1 DEF FateOn, LifeTypes
  <2>2. CASE ~JobTells(w)
    <3>1. UNCHANGED <<callVars, flagVars, stopVars>>
      BY <1>3, <2>2, Zenon DEF WorkerStep, JobSkips, JobBegins, JobUncounts
    <3> QED
      BY <1>2, <3>1 DEF callVars, flagVars, stopVars
  <2> QED
    BY <2>1, <2>2
<1>4. ASSUME NEW r \in Stream, IoStep(r)
      PROVE  FateOn(s)
  <2>1. CASE IoGivesUp(r)
    <3>1. stop_by[r] = NoThread /\ stop_pc[r] = "none"
      BY <1>1, <2>1 DEF IoGivesUp, StreamsInv, LifeInv
    <3> QED
      BY <1>1, <2>1, <3>1 DEF IoGivesUp, FateOn, LifeTypes, callVars
  <2>2. CASE ~IoGivesUp(r)
    <3>1. UNCHANGED <<starting, joinable, stop_by, stop_pc>>
      BY <1>4, <2>2
      DEF IoStep, IoTestRunning, IoDispatch, IoLookup, IoPush, IoPushTooLate, IoNotify, IoEnds,
          callVars, stopVars
    <3> QED
      BY <1>2, <3>1
  <2> QED
    BY <2>1, <2>2
<1>5. ASSUME NEW r \in Stream, StopGoes(r)
      PROVE  FateOn(s)
  <2>1. /\ UNCHANGED <<starting, stop_by>>
        /\ \E c \in StopPc \ {"none", "join"} : stop_pc' = [stop_pc EXCEPT ![r] = c]
        /\ \/ UNCHANGED joinable
           \/ stop_pc[r] = "join" /\ joinable' = [joinable EXCEPT ![r] = FALSE]
    BY <1>5 DEF StopGoes, StopJoins, StopReleases, Turns, StopPc, callVars
  <2> QED
    BY <1>1, <2>1 DEF FateOn, LifeTypes
<1>6. ASSUME NEW r \in Stream, HandlerStep(r) \/ ClientStep(r)
      PROVE  FateOn(s)
  <2>1. CASE StartAssign(r)
    BY <1>1, <2>1 DEF StartAssign, Starts, Turns, stopVars, FateOn, LifeTypes, CallTypes
  <2>2. CASE StartCas(r) \/ StartReset(r) \/ StartSpawn(r) \/ CallStart(r)
    BY <1>1, <2>2
    DEF StartCas, StartReset, StartSpawn, Starts, CallStart, Turns, flagVars, stopVars, FateOn,
        CallTypes
  <2>3. CASE HandlerStops(r) /\ StopBegins(r, "handler")
    BY <1>1, <2>3, StopBeginsFate DEF HandlerStops
  <2>4. CASE \/ HandlerStops(r) /\ StopReturns(r, "handler")
             \/ WatchEnds(r) \/ WatcherLeaves(r) \/ CallStop(r) \/ CallWatch(r)
    BY <1>2, <2>4
    DEF HandlerStops, StopReturns, WatchEnds, WatcherLeaves, CallStop, CallWatch, flagVars, stopVars
  <2> QED
    BY <1>6, <2>1, <2>2, <2>3, <2>4 DEF HandlerStep, HandlerStops, ClientStep, Start
<1>7. CASE JanitorStep
  <2>1. UNCHANGED starting
    BY <1>7 DEF JanitorStep, JanitorGoes, JanitorCollects, JanitorStops, callVars
  <2>2. CASE \E r \in Stream : StopBegins(r, "janitor")
    BY <1>1, <2>1, <2>2, StopBeginsFate
  <2>3. CASE ~ \E r \in Stream : StopBegins(r, "janitor")
    BY <1>2, <1>7, <2>1, <2>3
    DEF JanitorStep, JanitorGoes, JanitorCollects, JanitorStops, StopReturns, flagVars, stopVars
  <2> QED
    BY <2>2, <2>3
<1>8. CASE MainSignalled \/ MainStep
  <2>1. UNCHANGED starting
    BY <1>8
    DEF MainSignalled, MainStep, MainDrains, MainJoinsJanitor, MainStops, MainStopsNoMore,
        MainClears, MainNotifies, MainJoins, MainPasses, callVars
  <2>2. CASE \E r \in Stream : StopBegins(r, "main")
    BY <1>1, <2>1, <2>2, StopBeginsFate
  <2>3. CASE ~ \E r \in Stream : StopBegins(r, "main")
    BY <1>2, <1>8, <2>1, <2>3
    DEF MainSignalled, MainStep, MainDrains, MainJoinsJanitor, MainStops, MainStopsNoMore,
        MainClears, MainNotifies, MainJoins, StopReturns, flagVars, stopVars
  <2> QED
    BY <2>2, <2>3
<1>9. CASE UNCHANGED vars
  BY <1>2, <1>9 DEF vars, callVars, flagVars, stopVars
<1> QED
  BY <1>3, <1>4, <1>5, <1>6, <1>7, <1>8, <1>9 DEF Next

(* Nor does anybody join later what stop() could not join. *)
LEMMA UnattendedStays ==
  ASSUME IInv, [Next]_vars, NEW s \in Stream, Unattended(s)
  PROVE  Unattended(s)'
<1>1. CASE Orphan(s)
  BY <1>1, OrphanStays DEF IInv, Unattended
<1>2. CASE Unjoined(s)
  <2>1. FateOn(s)
    BY EveryFate
  <2>2. starting[s] = "done" /\ starting'[s] = "done" => joinable'[s]
    BY <1>2, <2>1 DEF Unjoined, FateOn
  <2>3. Unjoined(s)'
    BY <1>2, <2>1, <2>2 DEF Unjoined, FateOn
  <2> QED
    BY <2>3 DEF Unattended
<1> QED
  BY <1>1, <1>2 DEF Unattended

-----------------------------------------------------------------------------
(***************************************************************************)
(* Queues: what pushing and popping do to the streams that wait in one.    *)
(***************************************************************************)
LEMMA TailKeeps ==
  ASSUME NEW q \in Seq(Stream), q # <<>>
  PROVE  /\ Head(q) \in Stream /\ Tail(q) \in Seq(Stream)
         /\ \A s \in Stream : IsIn(s, q) <=> s = Head(q) \/ IsIn(s, Tail(q))
         /\ Once(q) => Once(Tail(q)) /\ ~IsIn(Head(q), Tail(q))
<1>1. /\ Head(q) \in Stream /\ Tail(q) \in Seq(Stream)
      /\ Len(q) \in Nat \ {0} /\ Head(q) = q[1] /\ Len(Tail(q)) = Len(q) - 1
      /\ \A i \in 1 .. Len(Tail(q)) : Tail(q)[i] = q[i + 1]
  BY HeadTailProperties, EmptySeq, LenProperties
<1>2. \A s \in Stream : IsIn(s, q) <=> s = Head(q) \/ IsIn(s, Tail(q))
  <2> SUFFICES ASSUME NEW s \in Stream
               PROVE  IsIn(s, q) <=> s = Head(q) \/ IsIn(s, Tail(q))
    OBVIOUS
  <2>1. ASSUME NEW i \in 1 .. Len(q), q[i] = s, s # Head(q)
        PROVE  IsIn(s, Tail(q))
    <3>1. i - 1 \in 1 .. Len(Tail(q)) /\ Tail(q)[i - 1] = s
      BY <1>1, <2>1
    <3> QED
      BY <3>1 DEF IsIn
  <2>2. ASSUME NEW i \in 1 .. Len(Tail(q)), Tail(q)[i] = s
        PROVE  IsIn(s, q)
    <3>1. i + 1 \in 1 .. Len(q) /\ q[i + 1] = s
      BY <1>1, <2>2
    <3> QED
      BY <3>1 DEF IsIn
  <2>3. s = Head(q) => IsIn(s, q)
    BY <1>1 DEF IsIn
  <2> QED
    BY <2>1, <2>2, <2>3 DEF IsIn
<1>3. ASSUME Once(q)
      PROVE  Once(Tail(q)) /\ ~IsIn(Head(q), Tail(q))
  <2>1. ASSUME NEW i \in 1 .. Len(Tail(q)), NEW j \in 1 .. Len(Tail(q)), Tail(q)[i] = Tail(q)[j]
        PROVE  i = j
    <3>1. i + 1 \in 1 .. Len(q) /\ j + 1 \in 1 .. Len(q) /\ q[i + 1] = q[j + 1]
      BY <1>1, <2>1
    <3>2. i + 1 = j + 1
      BY <1>3, <3>1 DEF Once
    <3> QED
      BY <3>2
  <2>2. ASSUME NEW i \in 1 .. Len(Tail(q)), Tail(q)[i] = Head(q)
        PROVE  FALSE
    <3>1. i + 1 \in 1 .. Len(q) /\ 1 \in 1 .. Len(q) /\ q[i + 1] = q[1]
      BY <1>1, <2>2
    <3>2. i + 1 = 1
      BY <1>3, <3>1 DEF Once
    <3> QED
      BY <3>2
  <2> QED
    BY <2>1, <2>2 DEF Once, IsIn
<1> QED
  BY <1>1, <1>2, <1>3

LEMMA AppendKeeps ==
  ASSUME NEW q \in Seq(Stream), NEW t \in Stream
  PROVE  /\ \A s \in Stream : IsIn(s, Append(q, t)) <=> s = t \/ IsIn(s, q)
         /\ Once(q) /\ ~IsIn(t, q) => Once(Append(q, t))
<1>1. /\ Len(q) \in Nat /\ Len(Append(q, t)) = Len(q) + 1
      /\ \A i \in 1 .. Len(q) : Append(q, t)[i] = q[i]
      /\ Append(q, t)[Len(q) + 1] = t
  BY AppendProperties, LenProperties
<1>2. \A s \in Stream : IsIn(s, Append(q, t)) <=> s = t \/ IsIn(s, q)
  <2> SUFFICES ASSUME NEW s \in Stream
               PROVE  IsIn(s, Append(q, t)) <=> s = t \/ IsIn(s, q)
    OBVIOUS
  <2>1. ASSUME NEW i \in 1 .. Len(Append(q, t)), Append(q, t)[i] = s, s # t
        PROVE  IsIn(s, q)
    <3>1. i \in 1 .. Len(q) /\ q[i] = s
      BY <1>1, <2>1
    <3> QED
      BY <3>1 DEF IsIn
  <2>2. ASSUME NEW i \in 1 .. Len(q), q[i] = s
        PROVE  IsIn(s, Append(q, t))
    <3>1. i \in 1 .. Len(Append(q, t)) /\ Append(q, t)[i] = s
      BY <1>1, <2>2
    <3> QED
      BY <3>1 DEF IsIn
  <2>3. s = t => IsIn(s, Append(q, t))
    <3>1. Len(q) + 1 \in 1 .. Len(Append(q, t)) /\ Append(q, t)[Len(q) + 1] = t
      BY <1>1
    <3> QED
      BY <3>1 DEF IsIn
  <2> QED
    BY <2>1, <2>2, <2>3 DEF IsIn
<1>3. ASSUME Once(q), ~IsIn(t, q),
             NEW i \in 1 .. Len(Append(q, t)), NEW j \in 1 .. Len(Append(q, t)),
             Append(q, t)[i] = Append(q, t)[j]
      PROVE  i = j
  <2>1. CASE i \in 1 .. Len(q) /\ j \in 1 .. Len(q)
    BY <1>1, <1>3, <2>1 DEF Once
  <2>2. CASE i \in 1 .. Len(q) /\ j = Len(q) + 1
    BY <1>1, <1>3, <2>2 DEF IsIn
  <2>3. CASE j \in 1 .. Len(q) /\ i = Len(q) + 1
    BY <1>1, <1>3, <2>3 DEF IsIn
  <2>4. CASE i = Len(q) + 1 /\ j = Len(q) + 1
    BY <2>4
  <2> QED
    BY <1>1, <2>1, <2>2, <2>3, <2>4
<1>4. Once(q) /\ ~IsIn(t, q) => Once(Append(q, t))
  BY <1>3 DEF Once
<1> QED
  BY <1>2, <1>4

-----------------------------------------------------------------------------
(***************************************************************************)
(* Where the job of a stream is, step by step.                             *)
(***************************************************************************)
JobTypesAndInv == JobTypes /\ JobsInv
UnattendedStay == \A s \in Stream : Unattended(s) => Unattended(s)'

LEMMA SamePool == UNCHANGED gpu_id => \A s \in Stream : ComputePool(s)' = ComputePool(s)
BY DEF ComputePool

LEMMA JobFrame ==
  ASSUME JobTypesAndInv, UnattendedStay, UNCHANGED <<tasks, worker_task, gpu_id, jobVars>>,
         \A w \in Worker : worker_pc'[w] = "compute" <=> worker_pc[w] = "compute",
         \A s \in Stream : Offered(s)' <=> Offered(s)
  PROVE  JobTypesAndInv'
<1>1. \A s \in Stream : ComputePool(s)' = ComputePool(s)
  BY SamePool
<1>2. \A s \in Stream : (Waiting(s)' <=> Waiting(s)) /\ (Taken(s)' <=> Taken(s))
  BY <1>1 DEF Waiting, Taken, IsIn
<1>3. JobTypes'
  BY DEF JobTypesAndInv, JobTypes, jobVars
<1>4. OncePerQueue' /\ OncePerWorkers'
  BY DEF JobTypesAndInv, JobsInv, OncePerQueue, Once, OncePerWorkers
<1>5. RightPool'
  BY <1>1 DEF JobTypesAndInv, JobsInv, RightPool, IsIn
<1>6. InFlightInv'
  BY DEF JobTypesAndInv, JobsInv, InFlightInv, jobVars
<1>7. \A s \in Stream : JobInv(s)'
  BY <1>2 DEF JobTypesAndInv, JobsInv, JobInv, UnattendedStay, jobVars
<1> QED
  BY <1>3, <1>4, <1>5, <1>6, <1>7 DEF JobTypesAndInv, JobsInv

(* The IO thread takes up a job, and sets the flag that was clear. *)
LEMMA DispatchJob ==
  ASSUME JobTypesAndInv, LifeTypes, UnattendedStay, NEW s \in Stream, IoDispatch(s),
         ~compute_scheduled[s]
  PROVE  JobTypesAndInv'
<1>1. /\ UNCHANGED <<tasks, worker_task, worker_pc, gpu_id, compute_in_flight>>
      /\ ~compute_scheduled[s] /\ compute_scheduled' = [compute_scheduled EXCEPT ![s] = TRUE]
      /\ io_pc[s] = "dispatch" /\ io_pc' = [io_pc EXCEPT ![s] = "lookup"]
  BY DEF IoDispatch, Turns, poolVars
<1>2. \A r \in Stream : ComputePool(r)' = ComputePool(r)
  BY <1>1, SamePool
<1>3. \A r \in Stream : (Waiting(r)' <=> Waiting(r)) /\ (Taken(r)' <=> Taken(r))
  BY <1>1, <1>2 DEF Waiting, Taken, IsIn
<1>4. JobTypes'
  BY <1>1 DEF JobTypesAndInv, JobTypes
<1>5. OncePerQueue' /\ OncePerWorkers'
  BY <1>1 DEF JobTypesAndInv, JobsInv, OncePerQueue, Once, OncePerWorkers
<1>6. RightPool'
  BY <1>1, <1>2 DEF JobTypesAndInv, JobsInv, RightPool, IsIn
<1>7. InFlightInv'
  BY <1>1 DEF JobTypesAndInv, JobsInv, InFlightInv
<1>8. ASSUME NEW r \in Stream
      PROVE  JobInv(r)'
  <2>1. JobInv(r) /\ JobInv(s)
    BY DEF JobTypesAndInv, JobsInv
  <2>2. CASE r = s
    BY <1>1, <1>3, <2>1, <2>2 DEF JobInv, JobTypesAndInv, JobTypes, LifeTypes, Offered
  <2>3. CASE r # s
    <3>1. (Offered(r)' <=> Offered(r)) /\ compute_scheduled'[r] = compute_scheduled[r]
      BY <1>1, <2>3 DEF JobTypesAndInv, JobTypes, LifeTypes, Offered
    <3> QED
      BY <1>3, <2>1, <3>1 DEF JobInv, UnattendedStay
  <2> QED
    BY <2>2, <2>3
<1> QED
  BY <1>4, <1>5, <1>6, <1>7, <1>8 DEF JobTypesAndInv, JobsInv

(* A job that cannot be handed over is lost, and with it the flag; only a  *)
(* stream that is left to itself meets that.                               *)
LEMMA LostJob ==
  ASSUME JobTypesAndInv, LifeTypes, UnattendedStay, NEW s \in Stream, Unattended(s),
         Offered(s), io_pc' = [io_pc EXCEPT ![s] = "loop"],
         UNCHANGED <<tasks, worker_task, worker_pc, gpu_id, jobVars>>
  PROVE  JobTypesAndInv'
<1>1. \A r \in Stream : ComputePool(r)' = ComputePool(r)
  BY SamePool
<1>2. \A r \in Stream : (Waiting(r)' <=> Waiting(r)) /\ (Taken(r)' <=> Taken(r))
  BY <1>1 DEF Waiting, Taken, IsIn
<1>3. JobTypes'
  BY DEF JobTypesAndInv, JobTypes, jobVars
<1>4. OncePerQueue' /\ OncePerWorkers'
  BY DEF JobTypesAndInv, JobsInv, OncePerQueue, Once, OncePerWorkers
<1>5. RightPool'
  BY <1>1 DEF JobTypesAndInv, JobsInv, RightPool, IsIn
<1>6. InFlightInv'
  BY DEF JobTypesAndInv, JobsInv, InFlightInv, jobVars
<1>7. ASSUME NEW r \in Stream
      PROVE  JobInv(r)'
  <2>1. JobInv(r) /\ compute_scheduled'[r] = compute_scheduled[r]
    BY DEF JobTypesAndInv, JobsInv, jobVars
  <2>2. Offered(r)' => Offered(r)
    BY DEF Offered, LifeTypes
  <2>3. CASE r = s
    BY <1>2, <2>1, <2>2, <2>3 DEF JobInv, UnattendedStay
  <2>4. CASE r # s
    <3>1. Offered(r)' <=> Offered(r)
      BY <2>4 DEF Offered, LifeTypes
    <3> QED
      BY <1>2, <2>1, <3>1 DEF JobInv, UnattendedStay
  <2> QED
    BY <2>3, <2>4
<1> QED
  BY <1>3, <1>4, <1>5, <1>6, <1>7 DEF JobTypesAndInv, JobsInv

(* The pool takes the job. *)
LEMMA PushedJob ==
  ASSUME JobTypesAndInv, LifeTypes, PoolTypes, UnattendedStay, NEW s \in Stream,
         IoPush(s), Accepts(ComputePool(s))
  PROVE  JobTypesAndInv'
<1> DEFINE p == ComputePool(s)
<1>1. p \in Pool /\ tasks[p] \in Seq(Stream)
  BY PoolOfStream DEF JobTypesAndInv, JobTypes, PoolTypes
<1>2. /\ UNCHANGED <<worker_task, worker_pc, gpu_id, jobVars>>
      /\ tasks' = [tasks EXCEPT ![p] = Append(tasks[p], s)]
      /\ io_pc[s] = "push" /\ io_pc' = [io_pc EXCEPT ![s] = "notify"]
  BY DEF IoPush, Push, Turns
<1>3. Offered(s) /\ ~IsIn(s, tasks[p])
  BY <1>2 DEF JobTypesAndInv, JobsInv, JobInv, Offered, Waiting
<1> HIDE DEF p
<1>4. \A r \in Stream : ComputePool(r)' = ComputePool(r)
  BY <1>2, SamePool
<1>5. tasks'[p] = Append(tasks[p], s) /\ \A q \in Pool \ {p} : tasks'[q] = tasks[q]
  BY <1>1, <1>2 DEF PoolTypes
<1>6. \A r \in Stream : IsIn(r, tasks'[p]) <=> r = s \/ IsIn(r, tasks[p])
  BY <1>1, <1>5, AppendKeeps
<1>7. JobTypes'
  BY <1>2 DEF JobTypesAndInv, JobTypes, jobVars
<1>8. OncePerQueue'
  <2>1. Once(tasks[p])
    BY <1>1 DEF JobTypesAndInv, JobsInv, OncePerQueue
  <2>2. Once(tasks'[p])
    BY <1>1, <1>3, <1>5, <2>1, AppendKeeps
  <2>3. ASSUME NEW q \in Pool PROVE Once(tasks'[q])
    BY <1>5, <2>2 DEF JobTypesAndInv, JobsInv, OncePerQueue
  <2> QED
    BY <2>3 DEF OncePerQueue, Once
<1>9. OncePerWorkers' /\ InFlightInv'
  BY <1>2 DEF JobTypesAndInv, JobsInv, OncePerWorkers, InFlightInv, jobVars
<1>10. RightPool'
  <2>1. ASSUME NEW q \in Pool, NEW r \in Stream, IsIn(r, tasks'[q])
        PROVE  q = ComputePool(r)
    BY <1>5, <1>6, <2>1 DEF JobTypesAndInv, JobsInv, RightPool, p
  <2>2. \A w \in Worker : \A r \in Stream :
          worker_task'[w] = r => PoolOfWorker[w] = ComputePool(r)
    BY <1>2 DEF JobTypesAndInv, JobsInv, RightPool
  <2> QED
    BY <1>4, <2>1, <2>2 DEF RightPool, IsIn
<1>11. ASSUME NEW r \in Stream
       PROVE  JobInv(r)'
  <2>1. JobInv(r) /\ compute_scheduled'[r] = compute_scheduled[r] /\ (Taken(r)' <=> Taken(r))
    BY <1>2 DEF JobTypesAndInv, JobsInv, jobVars, Taken
  <2>2. Waiting(r)' <=> IsIn(r, tasks'[ComputePool(r)])
    BY <1>4 DEF Waiting, IsIn
  <2>3. CASE r = s
    <3>1. Waiting(s)' /\ ~Offered(s)'
      BY <1>2, <1>6, <2>2, <2>3 DEF p, Offered, LifeTypes
    <3> QED
      BY <1>3, <2>1, <2>3, <3>1 DEF JobInv
  <2>4. CASE r # s
    <3>1. (Offered(r)' <=> Offered(r)) /\ (Waiting(r)' <=> Waiting(r))
      <4>1. ComputePool(r) \in Pool
        BY PoolOfStream DEF JobTypesAndInv, JobTypes
      <4> QED
        BY <1>2, <1>5, <1>6, <2>2, <2>4, <4>1 DEF Offered, LifeTypes, Waiting
    <3> QED
      BY <2>1, <3>1 DEF JobInv, UnattendedStay
  <2> QED
    BY <2>3, <2>4
<1> QED
  BY <1>7, <1>8, <1>9, <1>10, <1>11 DEF JobTypesAndInv, JobsInv

(* A worker takes the job out of the queue. *)
LEMMA PoppedJob ==
  ASSUME JobTypesAndInv, PoolTypes, WorkersInv, UnattendedStay, NEW w \in Worker, Pops(w),
         UNCHANGED <<io_pc, gpu_id, jobVars>>
  PROVE  JobTypesAndInv'
<1> DEFINE p == PoolOfWorker[w]
           h == Head(tasks[p])
<1>1. p \in Pool /\ tasks[p] \in Seq(Stream) /\ tasks[p] # <<>>
  BY PoolOf DEF PoolTypes, Pops
<1>2. /\ worker_pc[w] = "loop"
      /\ worker_task' = [worker_task EXCEPT ![w] = h]
      /\ tasks' = [tasks EXCEPT ![p] = Tail(tasks[p])]
      /\ worker_pc' = [worker_pc EXCEPT ![w] = "run"]
  BY DEF Pops
<1> HIDE DEF p, h
<1>3. Once(tasks[p])
  BY <1>1 DEF JobTypesAndInv, JobsInv, OncePerQueue
<1>4. /\ h \in Stream /\ Once(Tail(tasks[p])) /\ ~IsIn(h, Tail(tasks[p]))
      /\ \A r \in Stream : IsIn(r, tasks[p]) <=> r = h \/ IsIn(r, Tail(tasks[p]))
  BY <1>1, <1>3, TailKeeps DEF h
<1>5. p = ComputePool(h)
  BY <1>1, <1>4 DEF JobTypesAndInv, JobsInv, RightPool
<1>6. worker_task[w] = NoTask /\ h # NoTask
  BY <1>2, <1>4, ProcessAssumption DEF WorkersInv
<1>7. Waiting(h) /\ ~Offered(h) /\ ~Taken(h)
  BY <1>4, <1>5 DEF JobTypesAndInv, JobsInv, JobInv, Waiting
<1>8. \A r \in Stream : ComputePool(r)' = ComputePool(r) /\ ComputePool(r) \in Pool
  BY SamePool, PoolOfStream DEF JobTypesAndInv, JobTypes
<1>9. /\ tasks'[p] = Tail(tasks[p]) /\ \A q \in Pool \ {p} : tasks'[q] = tasks[q]
      /\ worker_task'[w] = h /\ worker_pc'[w] = "run"
      /\ \A v \in Worker \ {w} : worker_task'[v] = worker_task[v] /\ worker_pc'[v] = worker_pc[v]
  BY <1>1, <1>2 DEF PoolTypes
<1>10. JobTypes'
  BY DEF JobTypesAndInv, JobTypes, jobVars
<1>11. OncePerQueue'
  <2>1. ASSUME NEW q \in Pool PROVE Once(tasks'[q])
    BY <1>4, <1>9 DEF JobTypesAndInv, JobsInv, OncePerQueue
  <2> QED
    BY <2>1 DEF OncePerQueue, Once
<1>12. OncePerWorkers'
  <2>1. \A v \in Worker : worker_task[v] # h
    BY <1>7 DEF Taken
  <2> QED
    BY <1>9, <2>1 DEF JobTypesAndInv, JobsInv, OncePerWorkers
<1>13. RightPool'
  <2>1. ASSUME NEW q \in Pool, NEW r \in Stream, IsIn(r, tasks'[q])
        PROVE  q = ComputePool(r)
    BY <1>4, <1>9, <2>1 DEF JobTypesAndInv, JobsInv, RightPool
  <2>2. ASSUME NEW v \in Worker, NEW r \in Stream, worker_task'[v] = r
        PROVE  PoolOfWorker[v] = ComputePool(r)
    BY <1>5, <1>9, <2>2 DEF JobTypesAndInv, JobsInv, RightPool, p
  <2> QED
    BY <1>8, <2>1, <2>2 DEF RightPool, IsIn
<1>14. InFlightInv'
  <2>1. ASSUME NEW r \in Stream
        PROVE  (\E v \in Worker : worker_task'[v] = r /\ worker_pc'[v] = "compute")
               <=> \E v \in Worker : worker_task[v] = r /\ worker_pc[v] = "compute"
    BY <1>2, <1>9
  <2> QED
    BY <2>1 DEF JobTypesAndInv, JobsInv, InFlightInv, jobVars
<1>15. ASSUME NEW r \in Stream
       PROVE  JobInv(r)'
  <2>1. JobInv(r) /\ compute_scheduled'[r] = compute_scheduled[r] /\ (Offered(r)' <=> Offered(r))
    BY DEF JobTypesAndInv, JobsInv, jobVars, Offered
  <2>2. Waiting(r)' <=> IsIn(r, tasks'[ComputePool(r)])
    BY <1>8 DEF Waiting, IsIn
  <2>3. CASE r = h
    <3>1. Taken(r)' /\ ~Waiting(r)'
      BY <1>4, <1>5, <1>9, <2>2, <2>3 DEF Taken
    <3>2. compute_scheduled[r] /\ ~Offered(r)
      BY <1>7, <2>1, <2>3 DEF JobInv
    <3> QED
      BY <2>1, <3>1, <3>2 DEF JobInv
  <2>4. CASE r # h
    <3>1. Waiting(r)' <=> Waiting(r)
      BY <1>4, <1>8, <1>9, <2>2, <2>4 DEF Waiting
    <3>2. Taken(r)' <=> Taken(r)
      BY <1>6, <1>9, <2>4, ProcessAssumption DEF Taken
    <3> QED
      BY <2>1, <3>1, <3>2 DEF JobInv, UnattendedStay
  <2> QED
    BY <2>3, <2>4
<1> QED
  BY <1>10, <1>11, <1>12, <1>13, <1>14, <1>15 DEF JobTypesAndInv, JobsInv

(* The job is over, and its flag cleared. *)
LEMMA DoneJob ==
  ASSUME JobTypesAndInv, PoolTypes, WorkersInv, UnattendedStay, NEW w \in Worker,
         worker_pc[w] \in {"run", "tell"}, Returns(w, worker_pc[w]),
         compute_scheduled' = [compute_scheduled EXCEPT ![worker_task[w]] = FALSE],
         UNCHANGED <<io_pc, gpu_id, compute_in_flight>>
  PROVE  JobTypesAndInv'
<1> DEFINE s == worker_task[w]
<1>1. s \in Stream
  BY DEF WorkersInv, PoolTypes
<1>2. /\ UNCHANGED tasks /\ worker_task'[w] = NoTask /\ worker_pc'[w] = "loop"
      /\ \A v \in Worker \ {w} : worker_task'[v] = worker_task[v] /\ worker_pc'[v] = worker_pc[v]
  BY DEF Returns, PoolTypes
<1>3. ~compute_scheduled'[s] /\ \A r \in Stream \ {s} : compute_scheduled'[r] = compute_scheduled[r]
  BY <1>1 DEF JobTypesAndInv, JobTypes
<1> HIDE DEF s
<1>4. \A v \in Worker \ {w} : worker_task[v] # s
  BY <1>1, ProcessAssumption DEF JobTypesAndInv, JobsInv, OncePerWorkers, s
<1>5. Taken(s)
  BY DEF Taken, s
<1>6. ~Offered(s) /\ ~Waiting(s)
  BY <1>1, <1>5 DEF JobTypesAndInv, JobsInv, JobInv
<1>7. \A r \in Stream : ComputePool(r)' = ComputePool(r)
  BY SamePool
<1>8. \A r \in Stream : (Waiting(r)' <=> Waiting(r)) /\ (Offered(r)' <=> Offered(r))
  BY <1>2, <1>7 DEF Waiting, IsIn, Offered
<1>9. JobTypes'
  BY DEF JobTypesAndInv, JobTypes
<1>10. OncePerQueue' /\ OncePerWorkers'
  BY <1>2 DEF JobTypesAndInv, JobsInv, OncePerQueue, Once, OncePerWorkers
<1>11. RightPool'
  BY <1>2, <1>7, ProcessAssumption DEF JobTypesAndInv, JobsInv, RightPool, IsIn
<1>12. InFlightInv'
  <2>1. ASSUME NEW r \in Stream
        PROVE  (\E v \in Worker : worker_task'[v] = r /\ worker_pc'[v] = "compute")
               <=> \E v \in Worker : worker_task[v] = r /\ worker_pc[v] = "compute"
    BY <1>2
  <2> QED
    BY <2>1 DEF JobTypesAndInv, JobsInv, InFlightInv
<1>13. ASSUME NEW r \in Stream
       PROVE  JobInv(r)'
  <2>1. JobInv(r)
    BY DEF JobTypesAndInv, JobsInv
  <2>2. CASE r = s
    <3>1. ~Taken(r)'
      BY <2>2, <1>1, <1>2, <1>4, ProcessAssumption DEF Taken
    <3> QED
      BY <1>1, <1>3, <1>6, <1>8, <2>2, <3>1 DEF JobInv
  <2>3. CASE r # s
    <3>1. Taken(r)' <=> Taken(r)
      BY <1>2, <2>3, ProcessAssumption DEF Taken, s
    <3> QED
      BY <1>3, <1>8, <2>1, <2>3, <3>1 DEF JobInv, UnattendedStay
  <2> QED
    BY <2>2, <2>3
<1> QED
  BY <1>9, <1>10, <1>11, <1>12, <1>13 DEF JobTypesAndInv, JobsInv

(* stepCompute() is counted while it runs. *)
LEMMA CountedJob ==
  ASSUME JobTypesAndInv, PoolTypes, WorkersInv, UnattendedStay, NEW w \in Worker,
         NEW delta \in {1, -1},
         IF delta = 1 THEN Moves(w, "run", "compute") ELSE Moves(w, "compute", "tell"),
         compute_in_flight' = [compute_in_flight EXCEPT ![worker_task[w]] =
                                 compute_in_flight[worker_task[w]] + delta],
         UNCHANGED <<io_pc, gpu_id, compute_scheduled>>
  PROVE  JobTypesAndInv'
<1> DEFINE s == worker_task[w]
<1>1. /\ UNCHANGED <<tasks, worker_task>>
      /\ worker_pc[w] = IF delta = 1 THEN "run" ELSE "compute"
      /\ worker_pc'[w] = IF delta = 1 THEN "compute" ELSE "tell"
      /\ \A v \in Worker \ {w} : worker_pc'[v] = worker_pc[v]
  BY DEF Moves, PoolTypes
<1>2. s \in Stream
  BY <1>1 DEF WorkersInv, PoolTypes
<1>3. /\ compute_in_flight'[s] = compute_in_flight[s] + delta
      /\ \A r \in Stream \ {s} : compute_in_flight'[r] = compute_in_flight[r]
      /\ DOMAIN compute_in_flight' = Stream
      /\ compute_in_flight' = [r \in Stream |-> compute_in_flight'[r]]
  BY <1>2 DEF JobTypesAndInv, JobTypes
<1> HIDE DEF s
<1>4. \A v \in Worker \ {w} : worker_task[v] # s
  BY <1>2, ProcessAssumption DEF JobTypesAndInv, JobsInv, OncePerWorkers, s
<1>5. InFlightInv'
  <2>1. compute_in_flight[s] = IF worker_pc[w] = "compute" THEN 1 ELSE 0
    BY <1>2, <1>4 DEF JobTypesAndInv, JobsInv, InFlightInv, s
  <2>2. compute_in_flight'[s] = IF worker_pc'[w] = "compute" THEN 1 ELSE 0
    BY <1>1, <1>3, <2>1
  <2>3. ASSUME NEW r \in Stream
        PROVE  compute_in_flight'[r] =
                 IF \E v \in Worker : worker_task'[v] = r /\ worker_pc'[v] = "compute" THEN 1 ELSE 0
    <3>1. CASE r = s
      BY <1>1, <1>4, <2>2, <3>1 DEF s
    <3>2. CASE r # s
      <4>1. (\E v \in Worker : worker_task'[v] = r /\ worker_pc'[v] = "compute")
            <=> \E v \in Worker : worker_task[v] = r /\ worker_pc[v] = "compute"
        BY <1>1, <3>2 DEF s
      <4> QED
        BY <1>3, <3>2, <4>1 DEF JobTypesAndInv, JobsInv, InFlightInv
    <3> QED
      BY <3>1, <3>2
  <2> QED
    BY <2>3 DEF InFlightInv
<1>6. JobTypes'
  <2>1. \A r \in Stream : compute_in_flight'[r] \in 0 .. 1
    BY <1>5 DEF InFlightInv
  <2> QED
    BY <1>3, <2>1 DEF JobTypesAndInv, JobTypes
<1>7. \A r \in Stream : ComputePool(r)' = ComputePool(r)
  BY SamePool
<1>8. \A r \in Stream : /\ Waiting(r)' <=> Waiting(r)
                        /\ Taken(r)' <=> Taken(r)
                        /\ Offered(r)' <=> Offered(r)
  BY <1>1, <1>7 DEF Waiting, Taken, Offered, IsIn
<1>9. OncePerQueue' /\ OncePerWorkers'
  BY <1>1 DEF JobTypesAndInv, JobsInv, OncePerQueue, Once, OncePerWorkers
<1>10. RightPool'
  BY <1>1, <1>7 DEF JobTypesAndInv, JobsInv, RightPool, IsIn
<1>11. \A r \in Stream : JobInv(r)'
  BY <1>8 DEF JobTypesAndInv, JobsInv, JobInv, UnattendedStay
<1> QED
  BY <1>5, <1>6, <1>9, <1>10, <1>11 DEF JobTypesAndInv, JobsInv

LEMMA WorkerJobStep ==
  ASSUME JobTypesAndInv, PoolTypes, WorkersInv, UnattendedStay, NEW w \in Worker, WorkerStep(w)
  PROVE  JobTypesAndInv'
<1>1. CASE /\ Pops(w) \/ Ends(w) \/ FindsNothing(w) \/ Blocks(w)
           /\ UNCHANGED <<mainVars, janitorVars, callVars, flagVars, jobVars, stopVars>>
  <2>1. UNCHANGED <<io_pc, gpu_id, jobVars>>
    BY <1>1 DEF flagVars
  <2>2. CASE Pops(w)
    BY <2>1, <2>2, PoppedJob
  <2>3. CASE Ends(w) \/ FindsNothing(w) \/ Blocks(w)
    <3>1. UNCHANGED <<tasks, worker_task>>
      BY <2>3 DEF Ends, FindsNothing, Blocks
    <3>2. \A v \in Worker : worker_pc'[v] = "compute" <=> worker_pc[v] = "compute"
      BY <2>3 DEF Ends, FindsNothing, Blocks, PoolTypes
    <3> QED
      BY <2>1, <3>1, <3>2, JobFrame DEF Offered
  <2> QED
    BY <1>1, <2>2, <2>3
<1>2. CASE JobSkips(w)
  <2>1. worker_pc[w] = "run" /\ Returns(w, worker_pc[w])
    BY <1>2 DEF JobSkips
  <2>2. /\ compute_scheduled' = [compute_scheduled EXCEPT ![worker_task[w]] = FALSE]
        /\ UNCHANGED <<io_pc, gpu_id, compute_in_flight>>
    BY <1>2 DEF JobSkips, flagVars
  <2> QED
    BY <2>1, <2>2, DoneJob
<1>3. CASE JobTells(w)
  <2>1. worker_pc[w] = "tell" /\ Returns(w, worker_pc[w])
    BY <1>3 DEF JobTells, Returns
  <2>2. /\ compute_scheduled' = [compute_scheduled EXCEPT ![worker_task[w]] = FALSE]
        /\ UNCHANGED <<io_pc, gpu_id, compute_in_flight>>
    BY <1>3 DEF JobTells, flagVars
  <2> QED
    BY <2>1, <2>2, DoneJob
<1>4. CASE JobBegins(w)
  <2>1. /\ Moves(w, "run", "compute")
        /\ compute_in_flight' = [compute_in_flight EXCEPT ![worker_task[w]] =
                                   compute_in_flight[worker_task[w]] + 1]
        /\ UNCHANGED <<io_pc, gpu_id, compute_scheduled>>
    BY <1>4 DEF JobBegins, flagVars
  <2> QED
    BY <2>1, CountedJob
<1>5. CASE JobUncounts(w)
  <2>1. worker_task[w] \in Stream
    BY <1>5 DEF JobUncounts, Moves, WorkersInv, PoolTypes
  <2>2. compute_in_flight[worker_task[w]] - 1 = compute_in_flight[worker_task[w]] + -1
    BY <2>1 DEF JobTypesAndInv, JobTypes
  <2>3. /\ Moves(w, "compute", "tell")
        /\ compute_in_flight' = [compute_in_flight EXCEPT ![worker_task[w]] =
                                   compute_in_flight[worker_task[w]] + -1]
        /\ UNCHANGED <<io_pc, gpu_id, compute_scheduled>>
    BY <1>5, <2>2 DEF JobUncounts, flagVars
  <2>4. -1 \in {1, -1} /\ ~(-1 = 1)
    OBVIOUS
  <2> QED
    BY <1>5, <2>3, <2>4, CountedJob, Zenon
<1> QED
  BY <1>1, <1>2, <1>3, <1>4, <1>5 DEF WorkerStep

LEMMA IoJobStep ==
  ASSUME IInv, UnattendedStay, NEW s \in Stream, IoStep(s)
  PROVE  JobTypesAndInv'
<1>1. JobTypesAndInv /\ PoolTypes /\ LifeTypes /\ PoolsInv
  BY TypeParts DEF IInv, JobTypesAndInv
<1>2. CASE IoDispatch(s) /\ ~compute_scheduled[s]
  BY <1>1, <1>2, DispatchJob
<1>3. CASE IoLookup(s)
  <2>1. /\ UNCHANGED <<tasks, worker_task, worker_pc, gpu_id, jobVars>>
        /\ io_pc[s] = "lookup"
        /\ io_pc' = [io_pc EXCEPT ![s] = IF ComputePool(s) \in exists THEN "push" ELSE "loop"]
    BY <1>3 DEF IoLookup, Turns, poolVars
  <2>2. CASE ComputePool(s) \in exists
    BY <1>1, <2>1, <2>2, JobFrame DEF Offered, LifeTypes
  <2>3. CASE ComputePool(s) \notin exists
    <3>1. Unattended(s)
      BY <2>1, <2>3, PoolIsThere DEF PoolOutlivesStreams, Accepts
    <3> QED
      BY <1>1, <2>1, <2>3, <3>1, LostJob DEF Offered
  <2> QED
    BY <2>2, <2>3
<1>4. CASE IoPush(s)
  <2>1. CASE Accepts(ComputePool(s))
    BY <1>1, <1>4, <2>1, PushedJob
  <2>2. CASE ~Accepts(ComputePool(s))
    <3>1. /\ UNCHANGED <<tasks, worker_task, worker_pc, gpu_id, jobVars>>
          /\ io_pc[s] = "push" /\ io_pc' = [io_pc EXCEPT ![s] = "loop"]
      BY <1>4, <2>2 DEF IoPush, Push, Turns
    <3>2. Unattended(s)
      BY <2>2, <3>1, PoolIsThere DEF PoolOutlivesStreams
    <3> QED
      BY <1>1, <3>1, <3>2, LostJob DEF Offered
  <2> QED
    BY <2>1, <2>2
<1>5. CASE IoPushTooLate(s)
  <2>1. /\ UNCHANGED <<tasks, worker_task, worker_pc, gpu_id, jobVars>>
        /\ io_pc[s] = "push" /\ io_pc' = [io_pc EXCEPT ![s] = "loop"]
        /\ ComputePool(s) \notin exists
    BY <1>5 DEF IoPushTooLate, Turns, poolVars
  <2>2. Unattended(s)
    BY <2>1, PoolIsThere DEF PoolOutlivesStreams, Accepts
  <2> QED
    BY <1>1, <2>1, <2>2, LostJob DEF Offered
<1>6. CASE IoNotify(s)
  <2>1. UNCHANGED <<tasks, worker_task, gpu_id, jobVars>>
    BY <1>6 DEF IoNotify, NotifyOne
  <2>2. \A w \in Worker : worker_pc'[w] = "compute" <=> worker_pc[w] = "compute"
    <3>1. \/ worker_pc' = worker_pc
          \/ \E w \in Worker : /\ worker_pc[w] = "asleep"
                               /\ worker_pc' = [worker_pc EXCEPT ![w] = "loop"]
      BY <1>6 DEF IoNotify, NotifyOne, WorkersOf
    <3> QED
      BY <1>1, <3>1 DEF PoolTypes
  <2>3. \A r \in Stream : Offered(r)' <=> Offered(r)
    BY <1>1, <1>6 DEF IoNotify, Turns, Offered, LifeTypes
  <2> QED
    BY <1>1, <2>1, <2>2, <2>3, JobFrame
<1>7. CASE IoGivesUp(s) \/ IoEnds(s)
  <2>1. UNCHANGED <<tasks, worker_task, worker_pc, gpu_id, jobVars>>
    BY <1>7 DEF IoGivesUp, IoEnds, poolVars
  <2>2. \A r \in Stream : Offered(r)' <=> Offered(r)
    BY <1>1, <1>7 DEF IoGivesUp, IoEnds, Turns, Offered, LifeTypes
  <2> QED
    BY <1>1, <2>1, <2>2, JobFrame
<1>8. CASE IoTestRunning(s) \/ (IoDispatch(s) /\ compute_scheduled[s])
  <2>1. /\ UNCHANGED <<tasks, worker_task, worker_pc, gpu_id, compute_in_flight>>
        /\ compute_scheduled' = compute_scheduled
        /\ io_pc[s] \in {"loop", "dispatch"}
        /\ \E c \in {"loop", "dispatch"} : io_pc' = [io_pc EXCEPT ![s] = c]
    BY <1>1, <1>8
    DEF IoTestRunning, IoDispatch, Turns, poolVars, jobVars, JobTypesAndInv, JobTypes
  <2>2. \A r \in Stream : Offered(r)' <=> Offered(r)
    BY <1>1, <2>1 DEF Offered, LifeTypes
  <2> QED
    BY <1>1, <2>1, <2>2, JobFrame DEF jobVars
<1> QED
  BY <1>2, <1>3, <1>4, <1>5, <1>6, <1>7, <1>8 DEF IoStep

LEMMA JobStep ==
  ASSUME IInv, [Next]_vars
  PROVE  JobTypesAndInv'
<1>1. JobTypesAndInv /\ PoolTypes /\ LifeTypes /\ WorkersInv /\ StreamsInv /\ TypeOK
  BY TypeParts DEF IInv, JobTypesAndInv
<1>2. UnattendedStay
  BY UnattendedStays DEF UnattendedStay
<1>3. CASE \E w \in Worker : WorkerStep(w)
  BY <1>1, <1>2, <1>3, WorkerJobStep
<1>4. CASE \E s \in Stream : IoStep(s)
  BY <1>2, <1>4, IoJobStep
<1>5. CASE MainSignalled \/ MainStep
  <2>1. UNCHANGED <<tasks, worker_task, gpu_id, io_pc, jobVars>>
    BY <1>5
    DEF MainSignalled, MainStep, MainDrains, MainJoinsJanitor, MainStops, MainStopsNoMore,
        MainClears, MainNotifies, MainJoins, MainPasses, ClearRunning, NotifyAll, Joined,
        StopBegins, StopReturns, flagVars, poolVars
  <2>2. \A w \in Worker : worker_pc'[w] = "compute" <=> worker_pc[w] = "compute"
    <3>1. UNCHANGED worker_pc \/ NotifyAll(Dying)
      BY <1>5
      DEF MainSignalled, MainStep, MainDrains, MainJoinsJanitor, MainStops, MainStopsNoMore,
          MainClears, MainNotifies, MainJoins, ClearRunning, Joined, poolVars
    <3> QED
      BY <1>1, <3>1 DEF NotifyAll, PoolTypes
  <2> QED
    BY <1>1, <1>2, <2>1, <2>2, JobFrame DEF Offered
<1>6. CASE JanitorStep \/ \E s \in Stream : StopGoes(s) \/ HandlerStep(s) \/ ClientStep(s)
  <2>1. UNCHANGED <<tasks, worker_task, worker_pc, gpu_id, jobVars>>
    BY <1>6, OthersAtPools
  <2>2. \A s \in Stream : Offered(s)' <=> Offered(s)
    <3>1. CASE \E s \in Stream : StartSpawn(s)
      <4>1. PICK s \in Stream : io_pc[s] = "none" /\ io_pc' = [io_pc EXCEPT ![s] = "loop"]
        BY <1>1, <3>1 DEF StartSpawn, Starts, Turns, StreamsInv, LifeInv
      <4> QED
        BY <1>1, <4>1 DEF Offered, LifeTypes
    <3>2. CASE UNCHANGED io_pc
      BY <3>2 DEF Offered
    <3> QED
      BY <1>6, <3>1, <3>2, OthersAtPools
  <2> QED
    BY <1>1, <1>2, <2>1, <2>2, JobFrame
<1>7. CASE UNCHANGED vars
  <2>1. UNCHANGED <<tasks, worker_task, worker_pc, gpu_id, jobVars, io_pc>>
    BY <1>7 DEF vars, poolVars, flagVars
  <2> QED
    BY <1>1, <1>2, <2>1, JobFrame DEF Offered
<1> QED
  BY <1>3, <1>4, <1>5, <1>6, <1>7 DEF Next

-----------------------------------------------------------------------------
LEMMA InitIInv == Init => IInv
<1> SUFFICES ASSUME Init PROVE IInv
  OBVIOUS
<1> USE DEF Init, PoolInit
<1>1. TypeOK
  BY ProcessAssumption DEF TypeOK
<1>2. PoolsInv /\ WorkersInv /\ ShutdownInv
  BY PoolOf DEF PoolsInv, Closing, WorkersInv, ShutdownInv, NoCallOpen
<1>3. StreamsInv
  BY ProcessAssumption DEF StreamsInv, LifeInv, StopperInv, TeardownInv, Unjoined
<1>4. JobsInv
  <2>1. \A p \in Pool : Len(tasks[p]) = 0
    BY EmptySeq
  <2>2. OncePerQueue /\ \A p \in Pool : \A s \in Stream : ~IsIn(s, tasks[p])
    BY <2>1 DEF OncePerQueue, Once, IsIn
  <2>3. \A s \in Stream : ~Offered(s) /\ ~Taken(s) /\ ~Waiting(s)
    BY <2>2, ProcessAssumption, PoolOfStream DEF Offered, Taken, Waiting
  <2> QED
    BY <2>2, <2>3, ProcessAssumption
    DEF JobsInv, OncePerWorkers, RightPool, InFlightInv, JobInv
<1> QED
  BY <1>1, <1>2, <1>3, <1>4 DEF IInv

LEMMA NextIInv == IInv /\ [Next]_vars => IInv'
<1> SUFFICES ASSUME IInv, [Next]_vars PROVE IInv'
  OBVIOUS
<1>1. PoolTypes' /\ WorkersInv' /\ PoolsInv' /\ LivesInv' /\ JobTypesAndInv'
  BY PoolStep, LivesStep, JobStep
<1>2. TypeOK'
  BY <1>1
  DEF LivesInv, JobTypesAndInv, TypeOK, PoolTypes, CallTypes, LifeTypes, JobTypes, WorkerPc,
      Starting, Stopper, StopPc, IoPc
<1> QED
  BY <1>1, <1>2 DEF IInv, LivesInv, JobTypesAndInv

(* The invariant is inductive: it holds in every state of the server. *)
THEOREM Invariance == Spec => []IInv
BY InitIInv, NextIInv, PTL DEF Spec

(***************************************************************************)
(* Every variable has its type: no pool gets a job that is not a stream's, *)
(* and the count of a stream's running jobs is zero or one.                *)
(***************************************************************************)
THEOREM TypeCorrect == Spec => []TypeOK
<1>1. IInv => TypeOK
  BY DEF IInv
<1> QED
  BY <1>1, Invariance, PTL

(***************************************************************************)
(* A thread that looks up its pool, pushes a job or notifies finds the     *)
(* pool there and taking jobs, however far main() is with the shutdown;    *)
(* only a stream that nobody stops may come too late, or one whose stop()  *)
(* came before start() had stored io_thread_ (stream_task.cpp:306).        *)
(***************************************************************************)
THEOREM PoolIsThereInTime == Spec => []PoolOutlivesStreams
BY PoolIsThere, Invariance, PTL

-----------------------------------------------------------------------------
(* A set with at most one member, counted. *)
LEMMA CountOfOne ==
  ASSUME NEW S, \A x, y \in S : x = y
  PROVE  Cardinality(S) = IF S = {} THEN 0 ELSE 1
<1>1. CASE S = {}
  BY <1>1, FS_EmptySet
<1>2. CASE S # {}
  <2>1. PICK x \in S : S = {x}
    BY <1>2
  <2> QED
    BY <1>2, <2>1, FS_Singleton
<1> QED
  BY <1>1, <1>2

LEMMA OneJob == IInv => FlagStandsForOneJob
<1> SUFFICES ASSUME IInv, NEW s \in Stream
             PROVE  /\ Holding(s) \subseteq WorkersOf(ComputePool(s))
                    /\ ~Unattended(s) =>
                         (IF io_pc[s] \in {"lookup", "push"} THEN 1 ELSE 0)
                         + Cardinality(Queued(s)) + Cardinality(Holding(s))
                         = (IF compute_scheduled[s] THEN 1 ELSE 0)
  BY DEF FlagStandsForOneJob
<1>1. JobInv(s) /\ OncePerQueue /\ OncePerWorkers /\ RightPool /\ TypeOK
  BY DEF IInv, JobsInv
<1>2. Holding(s) \subseteq WorkersOf(ComputePool(s))
  BY <1>1 DEF RightPool, Holding, WorkersOf
<1>3. Cardinality(Queued(s)) = IF Waiting(s) THEN 1 ELSE 0
  <2>1. Once(tasks[ComputePool(s)])
    BY <1>1, PoolOfStream DEF OncePerQueue, TypeOK
  <2>2. \A i, j \in Queued(s) : i = j
    BY <2>1 DEF Once, Queued
  <2>3. Queued(s) = {} <=> ~Waiting(s)
    BY DEF Queued, Waiting, IsIn
  <2> QED
    BY <2>2, <2>3, CountOfOne
<1>4. Cardinality(Holding(s)) = IF Taken(s) THEN 1 ELSE 0
  <2>1. \A v, w \in Holding(s) : v = w
    BY <1>1, ProcessAssumption DEF OncePerWorkers, Holding
  <2>2. Holding(s) = {} <=> ~Taken(s)
    BY DEF Holding, Taken
  <2> QED
    BY <2>1, <2>2, CountOfOne
<1>5. io_pc[s] \in {"lookup", "push"} <=> Offered(s)
  BY DEF Offered
<1> QED
  BY <1>1, <1>2, <1>3, <1>4, <1>5 DEF JobInv

(***************************************************************************)
(* compute_scheduled_ is set exactly while the stream has one job: with    *)
(* its IO thread, in the queue of its own pool, or with a worker of that   *)
(* pool.  No stream has two jobs, and the flag stays behind alone only     *)
(* with a stream that is left to itself in the same two ways.              *)
(***************************************************************************)
THEOREM FlagIsOneJob == Spec => []FlagStandsForOneJob
BY OneJob, Invariance, PTL

LEMMA NothingLeft == IInv => NothingOutlivesMain
<1>1. ASSUME IInv, Closing, NEW s \in Stream, starting[s] = "done", stop_by[s] # "self",
             ~Orphan(s)
      PROVE  released[s] /\ (io_pc[s] = "ended" \/ Unjoined(s))
  <2>1. streams = {} /\ janitor_todo = {} /\ call[s] = "none" /\ main_pc # "stop"
    BY <1>1 DEF IInv, ShutdownInv, Closing, NoCallOpen
  <2>2. stop_by[s] \in {"handler", "janitor", "main"}
    BY <1>1, <2>1 DEF IInv, TypeOK, Orphan
  <2>3. StopperInv(s) /\ TeardownInv(s)
    BY <1>1 DEF IInv, StreamsInv
  <2>4. stop_pc[s] = "done"
    BY <2>1, <2>2, <2>3 DEF StopperInv
  <2> QED
    BY <2>2, <2>3, <2>4 DEF TeardownInv
<1>2. ASSUME IInv, main_pc = "returned"
      PROVE  /\ \A p \in Pool : tasks[p] = <<>>
             /\ \A w \in Worker : worker_pc[w] = "ended"
  <2>1. exists = {}
    BY <1>2 DEF IInv, PoolsInv
  <2>2. \A w \in Worker : worker_pc[w] = "ended" /\ tasks[PoolOfWorker[w]] = <<>>
    BY <1>2, <2>1 DEF IInv, WorkersInv
  <2> QED
    BY <2>2, PoolAssumption
<1> QED
  BY <1>1, <1>2 DEF NothingOutlivesMain, Closing

(***************************************************************************)
(* Once main() has destroyed the service (src/main.cpp:255) the decoder of *)
(* every stream somebody stopped has been released, and its IO thread is   *)
(* joined unless that stop() came in the middle of start() and found no    *)
(* thread to join; when main() returns no job is left in a queue and no    *)
(* worker runs.                                                            *)
(***************************************************************************)
THEOREM MainLeavesNothing == Spec => []NothingOutlivesMain
BY NothingLeft, Invariance, PTL

-----------------------------------------------------------------------------
(***************************************************************************)
(* Who can go on.  The mutex of a pool is held by the worker that is about *)
(* to sleep and by nobody else, and such a worker sleeps for a reason: its *)
(* pool runs and has nothing to do.                                        *)
(***************************************************************************)
MutexInv ==
  /\ \A w \in Worker : worker_pc[w] = "blocks" =>
       /\ mtx[PoolOfWorker[w]] = w
       /\ pool_running[PoolOfWorker[w]] /\ tasks[PoolOfWorker[w]] = <<>>
  /\ \A p \in Pool : mtx[p] # NoWorker =>
       worker_pc[mtx[p]] = "blocks" /\ PoolOfWorker[mtx[p]] = p

(* The pools die one by one, and who sleeps in the one that is joined has  *)
(* been woken.                                                             *)
ClosingInv ==
  /\ main_pc = "clear" => \A p \in exists : pool_running[p]
  /\ main_pc \in {"notify", "join"} => \A p \in exists : pool_running[p] <=> p # Dying
  /\ main_pc = "join" => \A w \in WorkersOf(Dying) : worker_pc[w] # "asleep"

(* What the thread that stops a stream waits for comes.                    *)
WaitInv(s) ==
  /\ io_pc[s] = "stopping" => stop_by[s] = "self"
  /\ starting[s] \in {"assign", "done"} => io_pc[s] # "none"
  /\ stop_pc[s] \in {"release", "done"} => compute_in_flight[s] = 0

(* The clean-up thread is told to end before it is joined.                 *)
ManagerInv == main_pc = "clean" => ~manager_running

WaitsInv == \A s \in Stream : WaitInv(s)

LEMMA MutexFrame ==
  ASSUME MutexInv, UNCHANGED <<pool_running, tasks, mtx, worker_pc>>
  PROVE  MutexInv'
BY DEF MutexInv

(* A worker that neither takes nor leaves the mutex. *)
LEMMA MutexApart ==
  ASSUME MutexInv, PoolTypes, NEW w \in Worker, NEW c \in WorkerPc,
         worker_pc[w] # "blocks", c # "blocks",
         worker_pc' = [worker_pc EXCEPT ![w] = c],
         UNCHANGED <<pool_running, mtx>>,
         \A p \in Pool : tasks[p] = <<>> => tasks'[p] = <<>>
  PROVE  MutexInv'
<1>1. ASSUME NEW v \in Worker
      PROVE  worker_pc'[v] = "blocks" <=> worker_pc[v] = "blocks"
  BY DEF PoolTypes
<1>2. \A p \in Pool : mtx[p] # NoWorker => mtx[p] \in Worker
  BY DEF PoolTypes
<1> QED
  BY <1>1, <1>2, PoolOf DEF MutexInv

LEMMA MutexWorker ==
  ASSUME MutexInv, PoolTypes, NEW w \in Worker, WorkerStep(w)
  PROVE  MutexInv'
<1> DEFINE p == PoolOfWorker[w]
<1>1. p \in Pool
  BY PoolOf
<1>2. CASE Pops(w)
  <2>1. tasks[p] \in Seq(Stream) /\ tasks[p] # <<>>
    BY <1>1, <1>2 DEF Pops, PoolTypes
  <2>2. /\ worker_pc[w] = "loop" /\ worker_pc' = [worker_pc EXCEPT ![w] = "run"]
        /\ UNCHANGED <<pool_running, mtx>>
        /\ tasks' = [tasks EXCEPT ![p] = Tail(tasks[p])]
    BY <1>2 DEF Pops
  <2>3. \A q \in Pool : tasks[q] = <<>> => tasks'[q] = <<>>
    BY <2>1, <2>2 DEF PoolTypes
  <2> QED
    BY <2>2, <2>3, MutexApart DEF WorkerPc
<1>3. CASE Ends(w)
  BY <1>3, MutexApart DEF Ends, WorkerPc
<1>4. CASE FindsNothing(w)
  <2>1. /\ worker_pc[w] = "loop" /\ mtx[p] = NoWorker
        /\ tasks[p] = <<>> /\ pool_running[p]
        /\ mtx' = [mtx EXCEPT ![p] = w] /\ worker_pc' = [worker_pc EXCEPT ![w] = "blocks"]
        /\ UNCHANGED <<pool_running, tasks>>
    BY <1>4 DEF FindsNothing
  <2>2. ASSUME NEW v \in Worker, worker_pc'[v] = "blocks"
        PROVE  /\ mtx'[PoolOfWorker[v]] = v
               /\ pool_running'[PoolOfWorker[v]] /\ tasks'[PoolOfWorker[v]] = <<>>
    <3>1. CASE v = w
      BY <1>1, <2>1, <3>1 DEF PoolTypes
    <3>2. CASE v # w
      <4>1. worker_pc[v] = "blocks"
        BY <2>1, <2>2, <3>2 DEF PoolTypes
      <4>2. mtx[PoolOfWorker[v]] = v
        BY <4>1 DEF MutexInv
      <4>3. PoolOfWorker[v] # p
        BY <2>1, <4>2, PoolAssumption
      <4> QED
        BY <2>1, <4>1, <4>3, PoolOf DEF MutexInv, PoolTypes
    <3> QED
      BY <3>1, <3>2
  <2>3. ASSUME NEW q \in Pool, mtx'[q] # NoWorker
        PROVE  worker_pc'[mtx'[q]] = "blocks" /\ PoolOfWorker[mtx'[q]] = q
    <3>1. CASE q = p
      BY <1>1, <2>1, <3>1 DEF PoolTypes
    <3>2. CASE q # p
      <4>1. /\ mtx'[q] = mtx[q] /\ mtx[q] \in Worker
            /\ worker_pc[mtx[q]] = "blocks" /\ PoolOfWorker[mtx[q]] = q
        BY <2>1, <2>3, <3>2 DEF PoolTypes, MutexInv
      <4> QED
        BY <2>1, <4>1 DEF PoolTypes
    <3> QED
      BY <3>1, <3>2
  <2> QED
    BY <2>2, <2>3 DEF MutexInv
<1>5. CASE Blocks(w)
  <2>1. /\ worker_pc[w] = "blocks"
        /\ mtx' = [mtx EXCEPT ![p] = NoWorker] /\ worker_pc' = [worker_pc EXCEPT ![w] = "asleep"]
        /\ UNCHANGED <<pool_running, tasks>>
    BY <1>5 DEF Blocks
  <2>2. mtx[p] = w
    BY <2>1 DEF MutexInv
  <2>3. ASSUME NEW v \in Worker, worker_pc'[v] = "blocks"
        PROVE  /\ mtx'[PoolOfWorker[v]] = v
               /\ pool_running'[PoolOfWorker[v]] /\ tasks'[PoolOfWorker[v]] = <<>>
    <3>1. v # w /\ worker_pc[v] = "blocks"
      BY <2>1, <2>3 DEF PoolTypes
    <3>2. mtx[PoolOfWorker[v]] = v
      BY <3>1 DEF MutexInv
    <3>3. PoolOfWorker[v] # p
      BY <2>2, <3>1, <3>2
    <3> QED
      BY <2>1, <3>1, <3>3, PoolOf DEF MutexInv, PoolTypes
  <2>4. ASSUME NEW q \in Pool, mtx'[q] # NoWorker
        PROVE  worker_pc'[mtx'[q]] = "blocks" /\ PoolOfWorker[mtx'[q]] = q
    <3>1. q # p /\ mtx'[q] = mtx[q]
      BY <1>1, <2>1, <2>4 DEF PoolTypes
    <3>2. mtx[q] \in Worker /\ worker_pc[mtx[q]] = "blocks" /\ PoolOfWorker[mtx[q]] = q
      BY <2>4, <3>1 DEF PoolTypes, MutexInv
    <3>3. mtx[q] # w
      BY <2>4, <3>1 DEF MutexInv
    <3> QED
      BY <2>1, <3>1, <3>2, <3>3 DEF PoolTypes
  <2> QED
    BY <2>3, <2>4 DEF MutexInv
<1>6. CASE Moves(w, "run", "compute") \/ Moves(w, "compute", "tell")
  BY <1>6, MutexApart DEF Moves, WorkerPc
<1>7. CASE Returns(w, "run") \/ Returns(w, "tell")
  BY <1>7, MutexApart DEF Returns, WorkerPc
<1> QED
  BY <1>2, <1>3, <1>4, <1>5, <1>6, <1>7, Zenon
  DEF WorkerStep, JobSkips, JobBegins, JobUncounts, JobTells

LEMMA MutexWakes ==
  ASSUME MutexInv, PoolTypes, NEW p, NotifyOne(p) \/ NotifyAll(p)
  PROVE  MutexInv'
<1>1. UNCHANGED <<pool_running, tasks, mtx>>
  BY DEF NotifyOne, NotifyAll
<1>2. \A w \in Worker : worker_pc'[w] = "blocks" <=> worker_pc[w] = "blocks"
  <2>1. CASE NotifyAll(p)
    BY <2>1 DEF NotifyAll
  <2>2. CASE NotifyOne(p)
    <3>1. \/ worker_pc' = worker_pc
          \/ \E w \in Worker : /\ worker_pc[w] = "asleep"
                               /\ worker_pc' = [worker_pc EXCEPT ![w] = "loop"]
      BY <2>2 DEF NotifyOne, WorkersOf
    <3> QED
      BY <3>1 DEF PoolTypes
  <2> QED
    BY <2>1, <2>2
<1>3. \A p_1 \in Pool : mtx[p_1] # NoWorker => mtx[p_1] \in Worker
  BY DEF PoolTypes
<1> QED
  BY <1>1, <1>2, <1>3 DEF MutexInv

LEMMA MutexPush ==
  ASSUME MutexInv, PoolTypes, NEW p \in Pool, NEW s \in Stream, Push(p, s)
  PROVE  MutexInv'
<1>1. mtx[p] = NoWorker /\ UNCHANGED <<pool_running, mtx, worker_pc>>
  BY DEF Push
<1>2. \A q \in Pool \ {p} : tasks'[q] = tasks[q]
  BY DEF Push, PoolTypes
<1>3. ASSUME NEW w \in Worker, worker_pc[w] = "blocks"
      PROVE  tasks'[PoolOfWorker[w]] = <<>>
  <2>1. mtx[PoolOfWorker[w]] = w /\ tasks[PoolOfWorker[w]] = <<>>
    BY <1>3 DEF MutexInv
  <2>2. PoolOfWorker[w] # p
    BY <1>1, <2>1, PoolAssumption
  <2> QED
    BY <1>2, <2>1, <2>2, PoolOf
<1> QED
  BY <1>1, <1>3 DEF MutexInv

LEMMA MutexClears ==
  ASSUME MutexInv, PoolTypes, NEW p, ClearRunning(p)
  PROVE  MutexInv'
<1>1. /\ mtx[p] = NoWorker /\ pool_running' = [pool_running EXCEPT ![p] = FALSE]
      /\ UNCHANGED <<tasks, mtx, worker_pc>>
  BY DEF ClearRunning
<1>2. ASSUME NEW w \in Worker, worker_pc[w] = "blocks"
      PROVE  pool_running'[PoolOfWorker[w]]
  <2>1. mtx[PoolOfWorker[w]] = w /\ pool_running[PoolOfWorker[w]]
    BY <1>2 DEF MutexInv
  <2>2. PoolOfWorker[w] # p
    BY <1>1, <2>1, PoolAssumption
  <2> QED
    BY <1>1, <2>1, <2>2, PoolOf DEF PoolTypes
<1> QED
  BY <1>1, <1>2 DEF MutexInv

LEMMA MutexStep ==
  ASSUME MutexInv, IInv, [Next]_vars
  PROVE  MutexInv'
<1>1. PoolTypes /\ TypeOK
  BY TypeParts DEF IInv
<1>2. CASE \E w \in Worker : WorkerStep(w)
  BY <1>1, <1>2, MutexWorker
<1>3. ASSUME NEW s \in Stream, IoStep(s)
      PROVE  MutexInv'
  <2>1. CASE IoPush(s)
    BY <1>1, <2>1, MutexPush, PoolOfStream DEF IoPush, TypeOK
  <2>2. CASE IoNotify(s)
    BY <1>1, <2>2, MutexWakes DEF IoNotify
  <2>3. CASE \/ IoTestRunning(s) \/ IoDispatch(s) \/ IoLookup(s)
             \/ IoPushTooLate(s) \/ IoGivesUp(s) \/ IoEnds(s)
    <3>1. UNCHANGED poolVars
      BY <2>3, Zenon DEF IoTestRunning, IoDispatch, IoLookup, IoPushTooLate, IoGivesUp, IoEnds
    <3> QED
      BY <3>1, MutexFrame DEF poolVars
  <2> QED
    BY <1>3, <2>1, <2>2, <2>3 DEF IoStep
<1>4. CASE MainSignalled \/ MainStep
  <2>1. CASE MainClears \/ MainNotifies
    BY <1>1, <2>1, MutexClears, MutexWakes DEF MainClears, MainNotifies
  <2>2. CASE ~(MainClears \/ MainNotifies)
    <3>1. UNCHANGED <<pool_running, tasks, mtx, worker_pc>>
      BY <1>4, <2>2
      DEF MainSignalled, MainStep, MainDrains, MainJoinsJanitor, MainStops, MainStopsNoMore,
          MainJoins, Joined, poolVars
    <3> QED
      BY <3>1, MutexFrame
  <2> QED
    BY <2>1, <2>2
<1>5. CASE JanitorStep \/ \E s \in Stream : StopGoes(s) \/ HandlerStep(s) \/ ClientStep(s)
  BY <1>5, OthersAtPools, MutexFrame
<1>6. CASE UNCHANGED vars
  BY <1>6, MutexFrame DEF vars, poolVars
<1> QED
  BY <1>2, <1>3, <1>4, <1>5, <1>6 DEF Next

-----------------------------------------------------------------------------
LEMMA DyingExists ==
  ASSUME PoolsInv, main_pc \in {"clear", "notify", "join"}
  PROVE  Dying \in exists /\ exists \subseteq Pool
<1>1. PICK k \in 0 .. GpuCount : exists = RemainingFrom(k)
  BY DEF PoolsInv
<1>2. Cpu \in exists /\ exists \subseteq Pool
  BY <1>1, PoolAssumption DEF RemainingFrom, Pool, Cpu
<1>3. CASE exists = {Cpu}
  BY <1>2, <1>3 DEF Dying
<1>4. CASE exists # {Cpu}
  <2>1. Dying = k /\ k + 1 \in 0 .. GpuCount
    BY <1>1, <1>4, DyingFacts
  <2>2. k \in k .. GpuCount - 1
    BY <2>1, PoolAssumption
  <2> QED
    BY <1>1, <1>2, <2>1, <2>2 DEF RemainingFrom
<1> QED
  BY <1>3, <1>4

LEMMA ClosingFrame ==
  ASSUME ClosingInv, UNCHANGED <<exists, pool_running>>, main_pc' \in {main_pc, "crashed"},
         \A w \in Worker : worker_pc'[w] = "asleep" =>
                             worker_pc[w] = "asleep" \/ pool_running[PoolOfWorker[w]],
         main_pc = "join" => ~pool_running[Dying]
  PROVE  ClosingInv'
<1>1. Dying' = Dying /\ \A p : WorkersOf(p)' = WorkersOf(p)
  BY DEF Dying, WorkersOf
<1> QED
  BY <1>1 DEF ClosingInv, WorkersOf

LEMMA ClosingMain ==
  ASSUME ClosingInv, MutexInv, PoolTypes, PoolsInv, MainSignalled \/ MainStep
  PROVE  ClosingInv'
<1>1. CASE MainSignalled \/ MainDrains \/ MainJoinsJanitor \/ \E s \in Stream : MainStops(s)
  <2>1. main_pc' \notin {"clear", "notify", "join"}
    BY <1>1 DEF MainSignalled, MainDrains, MainJoinsJanitor, MainStops, MainPasses, mainVars
  <2> QED
    BY <2>1 DEF ClosingInv
<1>2. CASE MainStopsNoMore
  <2>1. ~Closing /\ main_pc' = "clear" /\ UNCHANGED <<exists, pool_running>>
    BY <1>2 DEF MainStopsNoMore, MainPasses, poolVars, Closing
  <2> QED
    BY <2>1 DEF PoolsInv, ClosingInv
<1>3. CASE MainClears
  <2>1. /\ main_pc = "clear" /\ main_pc' = "notify" /\ UNCHANGED exists
        /\ pool_running' = [pool_running EXCEPT ![Dying] = FALSE]
    BY <1>3 DEF MainClears, MainPasses, ClearRunning
  <2>2. Dying' = Dying
    BY <2>1 DEF Dying
  <2>3. exists \subseteq Pool
    BY <2>1, DyingExists
  <2>4. \A p \in exists : pool_running'[p] <=> p # Dying
    BY <2>1, <2>3 DEF ClosingInv, PoolTypes
  <2> QED
    BY <2>1, <2>2, <2>4 DEF ClosingInv
<1>4. CASE MainNotifies
  <2>1. /\ main_pc = "notify" /\ main_pc' = "join" /\ UNCHANGED <<exists, pool_running>>
        /\ NotifyAll(Dying)
    BY <1>4 DEF MainNotifies, MainPasses, NotifyAll
  <2>2. Dying' = Dying /\ WorkersOf(Dying') = WorkersOf(Dying)
    BY <2>1 DEF Dying
  <2>3. \A w \in WorkersOf(Dying) : worker_pc'[w] # "asleep"
    BY <2>1 DEF NotifyAll, WorkersOf
  <2> QED
    BY <2>1, <2>2, <2>3 DEF ClosingInv, WorkersOf
<1>5. CASE MainJoins
  <2>1. /\ main_pc = "join" /\ main_pc' \in {"clear", "returned"}
        /\ exists' = exists \ {Dying} /\ UNCHANGED pool_running
    BY <1>5 DEF MainJoins, MainPasses, Joined
  <2> QED
    BY <2>1 DEF ClosingInv
<1> QED
  BY <1>1, <1>2, <1>3, <1>4, <1>5 DEF MainStep

LEMMA ClosingStep ==
  ASSUME ClosingInv, MutexInv, IInv, [Next]_vars
  PROVE  ClosingInv'
<1>1. PoolTypes /\ PoolsInv
  BY TypeParts DEF IInv
<1>2. main_pc = "join" => ~pool_running[Dying]
  BY <1>1, DyingExists DEF ClosingInv
<1>3. ASSUME NEW w \in Worker, WorkerStep(w)
      PROVE  ClosingInv'
  <2>1. UNCHANGED <<exists, pool_running, main_pc>>
    BY <1>3 DEF WorkerStep, Pops, Ends, FindsNothing, Blocks, JobSkips, JobBegins, JobUncounts,
         JobTells, Moves, Returns, mainVars
  <2>2. CASE Blocks(w)
    <3>1. worker_pc[w] = "blocks" /\ \A v \in Worker \ {w} : worker_pc'[v] = worker_pc[v]
      BY <1>1, <2>2 DEF Blocks, PoolTypes
    <3>2. pool_running[PoolOfWorker[w]]
      BY <3>1 DEF MutexInv
    <3> QED
      BY <1>2, <2>1, <3>1, <3>2, ClosingFrame
  <2>3. CASE ~Blocks(w)
    <3>1. \E c \in WorkerPc \ {"asleep"} : worker_pc' = [worker_pc EXCEPT ![w] = c]
      BY <1>3, <2>3
      DEF WorkerStep, Pops, Ends, FindsNothing, JobSkips, JobBegins, JobUncounts,
          JobTells, Moves, Returns, WorkerPc
    <3>2. \A v \in Worker : worker_pc'[v] = "asleep" => worker_pc[v] = "asleep"
      BY <1>1, <3>1 DEF PoolTypes
    <3> QED
      BY <1>2, <2>1, <3>2, ClosingFrame
  <2> QED
    BY <2>2, <2>3
<1>4. ASSUME NEW s \in Stream, IoStep(s)
      PROVE  ClosingInv'
  <2>1. UNCHANGED <<exists, pool_running>> /\ main_pc' \in {main_pc, "crashed"}
    BY <1>4
    DEF IoStep, IoTestRunning, IoDispatch, IoLookup, IoPush, Push, IoPushTooLate, IoNotify,
        NotifyOne,
        IoGivesUp, IoEnds, poolVars, mainVars
  <2>2. \A w \in Worker : worker_pc'[w] = "asleep" => worker_pc[w] = "asleep"
    <3>1. CASE IoNotify(s)
      <4>1. \/ worker_pc' = worker_pc
            \/ \E w \in Worker : worker_pc' = [worker_pc EXCEPT ![w] = "loop"]
        BY <3>1 DEF IoNotify, NotifyOne, WorkersOf
      <4> QED
        BY <1>1, <4>1 DEF PoolTypes
    <3>2. CASE ~IoNotify(s)
      BY <1>4, <3>2
      DEF IoStep, IoTestRunning, IoDispatch, IoLookup, IoPush, Push, IoPushTooLate, IoGivesUp,
          IoEnds, poolVars
    <3> QED
      BY <3>1, <3>2
  <2> QED
    BY <1>2, <2>1, <2>2, ClosingFrame
<1>5. CASE MainSignalled \/ MainStep
  BY <1>1, <1>5, ClosingMain
<1>6. CASE JanitorStep \/ \E s \in Stream : StopGoes(s) \/ HandlerStep(s) \/ ClientStep(s)
  BY <1>2, <1>6, OthersAtPools, ClosingFrame
<1>7. CASE UNCHANGED vars
  BY <1>2, <1>7, ClosingFrame DEF vars, poolVars, mainVars
<1> QED
  BY <1>3, <1>4, <1>5, <1>6, <1>7 DEF Next

-----------------------------------------------------------------------------
LEMMA WaitFrame ==
  ASSUME WaitsInv, UNCHANGED <<starting, io_pc, compute_in_flight, stop_by, stop_pc>>
  PROVE  WaitsInv'
BY DEF WaitsInv, WaitInv

LEMMA StopBeginsWait ==
  ASSUME WaitsInv, LifeTypes, StreamsInv, NEW s \in Stream, NEW t, StopBegins(s, t),
         UNCHANGED <<starting, compute_in_flight>>
  PROVE  WaitsInv'
<1>1. /\ running[s] /\ UNCHANGED io_pc
      /\ stop_by' = [stop_by EXCEPT ![s] = t]
      /\ stop_pc' = [stop_pc EXCEPT ![s] = "join"]
  BY DEF StopBegins
<1>2. io_pc[s] # "stopping"
  BY <1>1, ProcessAssumption DEF WaitsInv, WaitInv, StreamsInv, LifeInv
<1> QED
  BY <1>1, <1>2 DEF WaitsInv, WaitInv, LifeTypes

LEMMA WorkerWait ==
  ASSUME WaitsInv, IInv, NEW w \in Worker, WorkerStep(w)
  PROVE  WaitsInv'
<1> DEFINE s == worker_task[w]
<1>1. WorkersInv /\ LifeTypes /\ JobTypes /\ PoolTypes /\ InFlightInv /\ StreamsInv
  BY TypeParts DEF IInv, JobsInv
<1>2. UNCHANGED <<starting, io_pc, stop_by>>
  BY DEF WorkerStep, JobSkips, JobBegins, JobUncounts, JobTells, callVars, flagVars, stopVars
<1>3. worker_pc[w] \in {"run", "compute", "tell"} => s \in Stream
  BY <1>1 DEF WorkersInv, PoolTypes
<1>4. CASE JobBegins(w)
  <2>1. /\ running[s] /\ UNCHANGED stop_pc
        /\ compute_in_flight' = [compute_in_flight EXCEPT ![s] = @ + 1]
        /\ s \in Stream
    BY <1>3, <1>4 DEF JobBegins, Moves, stopVars
  <2>2. stop_pc[s] = "none"
    BY <1>1, <2>1 DEF StreamsInv, LifeInv
  <2> QED
    BY <1>1, <1>2, <2>1, <2>2 DEF WaitsInv, WaitInv, JobTypes
<1>5. CASE JobUncounts(w)
  <2>1. /\ worker_pc[w] = "compute" /\ UNCHANGED stop_pc
        /\ compute_in_flight' = [compute_in_flight EXCEPT ![s] = @ - 1]
        /\ s \in Stream
    BY <1>3, <1>5 DEF JobUncounts, Moves, stopVars
  <2>2. compute_in_flight[s] = 1
    BY <1>1, <2>1 DEF InFlightInv
  <2>3. stop_pc[s] \notin {"release", "done"}
    BY <2>1, <2>2 DEF WaitsInv, WaitInv
  <2> QED
    BY <1>1, <1>2, <2>1, <2>3 DEF WaitsInv, WaitInv, JobTypes
<1>6. CASE JobTells(w)
  <2>1. /\ stop_pc' = [stop_pc EXCEPT ![s] = IF @ = "asleep" THEN "test" ELSE @]
        /\ UNCHANGED compute_in_flight
    BY <1>6 DEF JobTells
  <2> QED
    BY <1>1, <1>2, <2>1 DEF WaitsInv, WaitInv, LifeTypes
<1>7. CASE ~(JobBegins(w) \/ JobUncounts(w) \/ JobTells(w))
  <2>1. UNCHANGED <<compute_in_flight, stop_pc>>
    BY <1>7 DEF WorkerStep, JobSkips, jobVars, stopVars
  <2> QED
    BY <1>2, <2>1, WaitFrame
<1> QED
  BY <1>4, <1>5, <1>6, <1>7

LEMMA IoWait ==
  ASSUME WaitsInv, LifeTypes, StreamsInv, NEW s \in Stream, IoStep(s)
  PROVE  WaitsInv'
<1>1. UNCHANGED <<starting, compute_in_flight>>
  BY DEF IoStep, IoTestRunning, IoDispatch, IoLookup, IoPush, IoPushTooLate, IoNotify, IoGivesUp,
         IoEnds,
         callVars, jobVars
<1>2. CASE IoGivesUp(s)
  BY <1>1, <1>2 DEF IoGivesUp, Turns, WaitsInv, WaitInv, LifeTypes
<1>3. CASE ~IoGivesUp(s)
  <2>1. UNCHANGED <<stop_by, stop_pc>>
    BY <1>3 DEF IoStep, IoTestRunning, IoDispatch, IoLookup, IoPush, IoPushTooLate, IoNotify,
        IoEnds, stopVars
  <2>2. \E c \in {"loop", "dispatch", "lookup", "push", "notify", "ended"} :
          io_pc' = [io_pc EXCEPT ![s] = c]
    BY <1>3 DEF IoStep, IoTestRunning, IoDispatch, IoLookup, IoPush, IoPushTooLate, IoNotify,
        IoEnds, Turns
  <2> QED
    BY <1>1, <2>1, <2>2 DEF WaitsInv, WaitInv, LifeTypes
<1> QED
  BY <1>2, <1>3

LEMMA StopGoesWait ==
  ASSUME WaitsInv, LifeTypes, NEW s \in Stream, StopGoes(s)
  PROVE  WaitsInv'
<1>1. UNCHANGED <<starting, io_pc, compute_in_flight, stop_by>>
  BY DEF StopGoes, callVars, jobVars
<1>2. \E c \in StopPc : /\ stop_pc' = [stop_pc EXCEPT ![s] = c]
                        /\ c = "release" => compute_in_flight[s] = 0
                        /\ c = "done" => stop_pc[s] = "release"
  BY DEF StopGoes, StopJoins, StopReleases, Turns, StopPc
<1> QED
  BY <1>1, <1>2 DEF WaitsInv, WaitInv, LifeTypes

LEMMA HandlerWait ==
  ASSUME WaitsInv, LifeTypes, CallTypes, StreamsInv, NEW s \in Stream,
         HandlerStep(s) \/ ClientStep(s)
  PROVE  WaitsInv'
<1>1. UNCHANGED compute_in_flight
  BY StartFrame
  DEF HandlerStep, HandlerStops, WatchEnds, WatcherLeaves, ClientStep, CallStart, CallStop,
      CallWatch, jobVars
<1>2. CASE Start(s)
  <2>1. CASE StartSpawn(s)
    BY <1>1, <2>1
    DEF StartSpawn, Starts, Turns, stopVars, WaitsInv, WaitInv, LifeTypes, CallTypes
  <2>2. CASE StartCas(s) \/ StartReset(s) \/ StartAssign(s)
    BY <1>1, <2>2
    DEF StartCas, StartReset, StartAssign, Starts, Turns, stopVars, WaitsInv, WaitInv, CallTypes
  <2> QED
    BY <1>2, <2>1, <2>2 DEF Start
<1>3. CASE CallStart(s)
  BY <1>1, <1>3 DEF CallStart, Turns, flagVars, stopVars, WaitsInv, WaitInv, CallTypes
<1>4. CASE HandlerStops(s)
  <2>1. CASE StopBegins(s, "handler")
    BY <1>1, <1>4, <2>1, StopBeginsWait DEF HandlerStops
  <2>2. CASE StopReturns(s, "handler")
    BY <1>1, <1>4, <2>2, WaitFrame DEF HandlerStops, StopReturns, flagVars, stopVars
  <2> QED
    BY <1>4, <2>1, <2>2 DEF HandlerStops
<1>5. CASE WatchEnds(s) \/ WatcherLeaves(s) \/ CallStop(s) \/ CallWatch(s)
  BY <1>1, <1>5, WaitFrame DEF WatchEnds, WatcherLeaves, CallStop, CallWatch, flagVars, stopVars
<1> QED
  BY <1>2, <1>3, <1>4, <1>5 DEF HandlerStep, ClientStep

LEMMA WaitsStep ==
  ASSUME WaitsInv, IInv, [Next]_vars
  PROVE  WaitsInv'
<1>1. LifeTypes /\ CallTypes /\ StreamsInv
  BY TypeParts DEF IInv
<1>2. CASE \E w \in Worker : WorkerStep(w)
  BY <1>2, WorkerWait
<1>3. CASE \E s \in Stream : IoStep(s) \/ StopGoes(s) \/ HandlerStep(s) \/ ClientStep(s)
  BY <1>1, <1>3, IoWait, StopGoesWait, HandlerWait
<1>4. CASE JanitorStep
  <2>1. CASE \E s \in Stream : JanitorStops(s) /\ StopBegins(s, "janitor")
    BY <1>1, <2>1, StopBeginsWait DEF JanitorStops, callVars, jobVars
  <2>2. CASE ~ \E s \in Stream : JanitorStops(s) /\ StopBegins(s, "janitor")
    BY <1>4, <2>2, WaitFrame
    DEF JanitorStep, JanitorGoes, JanitorCollects, JanitorStops, StopReturns,
        callVars, flagVars, jobVars, stopVars
  <2> QED
    BY <2>1, <2>2
<1>5. CASE MainSignalled \/ MainStep
  <2>1. CASE \E s \in Stream : MainStops(s) /\ StopBegins(s, "main")
    BY <1>1, <2>1, StopBeginsWait DEF MainStops, jobVars
  <2>2. CASE ~ \E s \in Stream : MainStops(s) /\ StopBegins(s, "main")
    BY <1>5, <2>2, WaitFrame
    DEF MainSignalled, MainStep, MainDrains, MainJoinsJanitor, MainStops, MainStopsNoMore,
        MainClears, MainNotifies, MainJoins, MainPasses, StopReturns,
        callVars, flagVars, jobVars, stopVars
  <2> QED
    BY <2>1, <2>2
<1>6. CASE UNCHANGED vars
  BY <1>6, WaitFrame DEF vars, callVars, flagVars, jobVars, stopVars
<1> QED
  BY <1>2, <1>3, <1>4, <1>5, <1>6 DEF Next

-----------------------------------------------------------------------------
LEMMA ManagerStep ==
  ASSUME ManagerInv, [Next]_vars
  PROVE  ManagerInv'
<1>1. CASE MainSignalled \/ MainStep
  BY <1>1
  DEF MainSignalled, MainStep, MainDrains, MainJoinsJanitor, MainStops, MainStopsNoMore,
      MainClears, MainNotifies, MainJoins, MainPasses, mainVars, ManagerInv
<1>2. CASE \E w \in Worker : WorkerStep(w)
  BY <1>2 DEF WorkerStep, JobSkips, JobBegins, JobUncounts, JobTells, mainVars, ManagerInv
<1>3. CASE \E s \in Stream : IoStep(s)
  BY <1>3
  DEF IoStep, IoTestRunning, IoDispatch, IoLookup, IoPush, IoPushTooLate, IoNotify, IoGivesUp,
      IoEnds,
      mainVars, ManagerInv
<1>4. CASE JanitorStep \/ \E s \in Stream : StopGoes(s) \/ HandlerStep(s) \/ ClientStep(s)
  BY <1>4, OthersAtPools DEF ManagerInv
<1>5. CASE UNCHANGED vars
  BY <1>5 DEF vars, mainVars, ManagerInv
<1> QED
  BY <1>1, <1>2, <1>3, <1>4, <1>5 DEF Next

GoingInv == MutexInv /\ ClosingInv /\ WaitsInv /\ ManagerInv

THEOREM GoingInvariance == Spec => []GoingInv
<1>1. Init => GoingInv
  BY ProcessAssumption
  DEF Init, PoolInit, GoingInv, MutexInv, ClosingInv, WaitsInv, WaitInv, ManagerInv
<1>2. IInv /\ GoingInv /\ [Next]_vars => GoingInv'
  BY MutexStep, ClosingStep, WaitsStep, ManagerStep DEF GoingInv
<1> QED
  BY <1>1, <1>2, Invariance, PTL DEF Spec

(* A pool's mutex is free, or its holder can go on. *)
LEMMA MutexIsFreed ==
  ASSUME MutexInv, PoolTypes, NEW p \in Pool
  PROVE  mtx[p] = NoWorker \/ CanGoOn
BY DEF MutexInv, PoolTypes, CanGoOn, WorkerCanGo

(* Who stops a stream can go on, or waits for one who can. *)
LEMMA StopperGoes ==
  ASSUME IInv, GoingInv, NEW s \in Stream, stop_pc[s] \notin {"none", "done"},
         ~SchedulerLocked
  PROVE  CanGoOn \/ MissedNotification
<1>1. LifeTypes /\ PoolTypes /\ JobTypes /\ LifeInv(s) /\ InFlightInv /\ WaitInv(s)
  BY TypeParts DEF IInv, JobsInv, StreamsInv, GoingInv, WaitsInv
<1>2. CASE stop_pc[s] = "asleep"
  <2>1. CASE compute_in_flight[s] = 0
    BY <1>2, <2>1 DEF MissedNotification
  <2>2. CASE compute_in_flight[s] # 0
    <3>1. PICK w \in Worker : worker_pc[w] = "compute"
      BY <1>1, <2>2 DEF InFlightInv
    <3> QED
      BY <3>1 DEF CanGoOn, WorkerCanGo
  <2> QED
    BY <2>1, <2>2
<1>3. CASE stop_pc[s] = "join"
  <2>1. CASE io_pc[s] \in {"loop", "dispatch", "notify", "lookup"}
    BY <2>1 DEF CanGoOn, IoCanGo
  <2>2. CASE io_pc[s] = "ended" \/ stop_by[s] = "self" \/ ~joinable[s]
    BY <1>3, <2>2 DEF CanGoOn, StopCanGo
  <2>3. CASE io_pc[s] = "push"
    <3>1. mtx[ComputePool(s)] = NoWorker \/ CanGoOn
      BY <1>1, PoolOfStream, MutexIsFreed DEF JobTypes, GoingInv
    <3> QED
      BY <2>3, <3>1 DEF CanGoOn, IoCanGo
  <2>4. joinable[s] => io_pc[s] # "none"
    BY <1>1 DEF LifeInv, WaitInv
  <2>5. io_pc[s] = "stopping" => stop_by[s] = "self"
    BY <1>1 DEF WaitInv
  <2>6. io_pc[s] \in IoPc
    BY <1>1 DEF LifeTypes
  <2> QED
    BY <2>1, <2>2, <2>3, <2>4, <2>5, <2>6 DEF IoPc
<1>4. CASE stop_pc[s] \in {"test", "drowse", "release"}
  BY <1>4 DEF CanGoOn, StopCanGo
<1> QED
  BY <1>1, <1>2, <1>3, <1>4 DEF LifeTypes, StopPc

(* A thread with streams to stop can go on with one of them, or is in the  *)
(* middle of one.                                                          *)
LEMMA OneByOne ==
  ASSUME NEW S, NEW t, S # {}
  PROVE  CanStopOneOf(S, t) \/ \E s \in S : stop_by[s] = t /\ stop_pc[s] # "done"
BY DEF CanStopOneOf, CanStop

LEMMA PoolsGo ==
  ASSUME IInv, GoingInv, SchedulerLocked
  PROVE  CanGoOn
<1>1. PoolTypes /\ MutexInv /\ ClosingInv /\ Dying \in exists /\ Dying \in Pool
  BY TypeParts, DyingExists DEF IInv, GoingInv, SchedulerLocked
<1>2. mtx[Dying] = NoWorker \/ CanGoOn
  BY <1>1, MutexIsFreed
<1>3. CASE main_pc = "clear"
  <2>1. pool_running[Dying]
    BY <1>1, <1>3 DEF ClosingInv
  <2> QED
    BY <1>2, <1>3, <2>1 DEF CanGoOn, MainCanGo
<1>4. CASE main_pc = "notify"
  BY <1>4 DEF CanGoOn, MainCanGo
<1>5. CASE main_pc = "join"
  <2>1. CASE \A w \in WorkersOf(Dying) : worker_pc[w] = "ended"
    BY <1>5, <2>1 DEF CanGoOn, MainCanGo
  <2>2. ASSUME NEW w \in WorkersOf(Dying), worker_pc[w] # "ended"
        PROVE  CanGoOn
    <3>1. w \in Worker /\ PoolOfWorker[w] = Dying
      BY DEF WorkersOf
    <3>2. worker_pc[w] \in {"loop", "blocks", "run", "compute", "tell"}
      BY <1>1, <1>5, <2>2, <3>1 DEF ClosingInv, PoolTypes, WorkerPc
    <3> QED
      BY <1>2, <3>1, <3>2 DEF CanGoOn, WorkerCanGo
  <2> QED
    BY <2>1, <2>2
<1> QED
  BY <1>3, <1>4, <1>5 DEF SchedulerLocked

LEMMA NobodyStuck == IInv /\ GoingInv => ShutdownNeverStuck
<1> SUFFICES ASSUME IInv, GoingInv, main_pc # "serving", Up, ~Watched
             PROVE  CanGoOn \/ MissedNotification
  BY DEF ShutdownNeverStuck
<1>1. CallTypes /\ LifeTypes /\ StreamsInv
  BY TypeParts DEF IInv
<1>2. CASE SchedulerLocked
  BY <1>2, PoolsGo
<1>3. ASSUME ~SchedulerLocked, NEW s \in Stream, NEW t, t # NoThread,
             stop_by[s] = t, stop_pc[s] # "done"
      PROVE  CanGoOn \/ MissedNotification
  BY <1>1, <1>3, StopperGoes DEF StreamsInv, LifeInv
<1>4. CASE main_pc = "drain"
  <2>1. CASE NoCallOpen
    BY <1>4, <2>1 DEF CanGoOn, MainCanGo
  <2>2. CASE ~NoCallOpen
    <3>1. PICK s \in Stream : starting[s] \notin {"none", "done"} \/ call[s] = "stop"
      BY <1>1, <2>2 DEF NoCallOpen, Watched, CallTypes
    <3>2. CASE starting[s] \notin {"none", "done"} \/ CanStop(s, "handler")
      BY <3>1, <3>2 DEF CanGoOn, HandlerCanGo
    <3>3. CASE ~CanStop(s, "handler")
      BY <1>3, <1>4, <3>3, ProcessAssumption DEF CanStop, SchedulerLocked
    <3> QED
      BY <3>2, <3>3
  <2> QED
    BY <2>1, <2>2
<1>5. CASE main_pc = "clean"
  <2>1. CASE janitor_pc = "ended" \/ janitor_pc = "loop"
    BY <1>5, <2>1 DEF CanGoOn, MainCanGo, JanitorCanGo, GoingInv, ManagerInv
  <2>2. CASE janitor_pc = "stopping" /\ (janitor_todo = {} \/ CanStopOneOf(janitor_todo, "janitor"))
    BY <2>2 DEF CanGoOn, JanitorCanGo
  <2>3. CASE \E s \in janitor_todo : stop_by[s] = "janitor" /\ stop_pc[s] # "done"
    BY <1>1, <1>3, <1>5, <2>3, ProcessAssumption DEF CallTypes, SchedulerLocked
  <2> QED
    BY <1>1, <2>1, <2>2, <2>3, OneByOne DEF CallTypes
<1>6. CASE main_pc = "stop"
  <2>1. CASE streams = {} \/ CanStopOneOf(streams, "main")
    BY <1>6, <2>1 DEF CanGoOn, MainCanGo
  <2>2. CASE \E s \in streams : stop_by[s] = "main" /\ stop_pc[s] # "done"
    BY <1>1, <1>3, <1>6, <2>2, ProcessAssumption DEF CallTypes, SchedulerLocked
  <2> QED
    BY <2>1, <2>2, OneByOne
<1> QED
  BY <1>1, <1>2, <1>4, <1>5, <1>6 DEF CallTypes, Up, SchedulerLocked

(* Nobody is stuck once a signal has come (main.cpp:187, task_scheduler    *)
(* shutdown(), ~ThreadPool): as long as main() has not returned a thread   *)
(* can go on, unless a client keeps watching or stop() has missed the      *)
(* notification it sleeps for.                                             *)
THEOREM ShutdownGoesOn == Spec => []ShutdownNeverStuck
BY NobodyStuck, Invariance, GoingInvariance, PTL

-----------------------------------------------------------------------------
(***************************************************************************)
(* No task is slept over.  Every push owes a notification, and every       *)
(* notification wakes a worker unless none sleeps.                         *)
(***************************************************************************)
Asleep(p) == {w \in WorkersOf(p) : worker_pc[w] = "asleep"}
Served(p) == Asleep(p) # {} =>
               Len(tasks[p]) <= Cardinality(Ready(p)) + Cardinality(Notifiers(p))

LEMMA FewReady ==
  ASSUME NEW S \in SUBSET Worker
  PROVE  IsFiniteSet(S) /\ Cardinality(S) \in Nat
BY ProcessAssumption, FS_Subset, FS_CardinalityType

LEMMA FewNotifiers ==
  ASSUME NEW S \in SUBSET Stream
  PROVE  IsFiniteSet(S) /\ Cardinality(S) \in Nat
BY ProcessAssumption, FS_Subset, FS_CardinalityType

LEMMA Subsets ==
  ASSUME NEW p
  PROVE  Ready(p) \in SUBSET Worker /\ Notifiers(p) \in SUBSET Stream
BY DEF Ready, Notifiers, WorkersOf

LEMMA ServedKeeps ==
  ASSUME NEW p \in Pool, PoolTypes, PoolTypes', Served(p),
         Len(tasks'[p]) <= Len(tasks[p]), Asleep(p)' # {} => Asleep(p) # {},
         Ready(p) \subseteq Ready(p)', Notifiers(p) \subseteq Notifiers(p)'
  PROVE  Served(p)'
<1>1. /\ Cardinality(Ready(p)) \in Nat /\ Cardinality(Notifiers(p)) \in Nat
      /\ IsFiniteSet(Ready(p)') /\ IsFiniteSet(Notifiers(p)')
      /\ Cardinality(Ready(p)') \in Nat /\ Cardinality(Notifiers(p)') \in Nat
  <2>1. Ready(p)' \in SUBSET Worker /\ Notifiers(p)' \in SUBSET Stream
    BY DEF Ready, Notifiers, WorkersOf
  <2> QED
    BY <2>1, Subsets, FewReady, FewNotifiers
<1>2. /\ Cardinality(Ready(p)) <= Cardinality(Ready(p)')
      /\ Cardinality(Notifiers(p)) <= Cardinality(Notifiers(p)')
  BY <1>1, FS_Subset
<1>3. Len(tasks[p]) \in Nat /\ Len(tasks'[p]) \in Nat
  BY DEF PoolTypes
<1>4. Served(p)' <=> (Asleep(p)' # {} =>
         Len(tasks'[p]) <= Cardinality(Ready(p)') + Cardinality(Notifiers(p)'))
  BY DEF Served
<1> HIDE DEF Asleep, Ready, Notifiers
<1> QED
  BY <1>1, <1>2, <1>3, <1>4 DEF Served

LEMMA ServedEmpty ==
  ASSUME NEW p \in Pool, tasks'[p] = <<>>
  PROVE  Served(p)'
<1>1. Ready(p)' \in SUBSET Worker /\ Notifiers(p)' \in SUBSET Stream
  BY DEF Ready, Notifiers, WorkersOf
<1>2. Cardinality(Ready(p)') \in Nat /\ Cardinality(Notifiers(p)') \in Nat
  BY <1>1, FewReady, FewNotifiers
<1>3. Len(tasks'[p]) = 0
  OBVIOUS
<1>4. Served(p)' <=> (Asleep(p)' # {} =>
         Len(tasks'[p]) <= Cardinality(Ready(p)') + Cardinality(Notifiers(p)'))
  BY DEF Served
<1> QED
  BY <1>2, <1>3, <1>4

AllServed == \A p \in Pool : Served(p)

(* A worker takes what is queued, finds nothing, or comes back. *)
LEMMA ServedWorker ==
  ASSUME AllServed, MutexInv, PoolTypes, PoolTypes', NEW w \in Worker, WorkerStep(w)
  PROVE  AllServed'
<1> SUFFICES ASSUME NEW p \in Pool
             PROVE  Served(p)'
  BY DEF AllServed
<1>1. Served(p) /\ Len(tasks[p]) \in Nat /\ Len(tasks'[p]) \in Nat
  BY DEF AllServed, PoolTypes
<1>2. Notifiers(p)' = Notifiers(p)
  BY DEF WorkerStep, JobSkips, JobBegins, JobUncounts, JobTells, flagVars, Notifiers, ComputePool
<1>3. CASE Pops(w)
  <2>1. /\ worker_pc[w] = "loop" /\ worker_pc' = [worker_pc EXCEPT ![w] = "run"]
        /\ tasks[PoolOfWorker[w]] # <<>>
        /\ tasks' = [tasks EXCEPT ![PoolOfWorker[w]] = Tail(tasks[PoolOfWorker[w]])]
    BY <1>3 DEF Pops
  <2>2. Ready(p)' = Ready(p) \ {w} /\ Asleep(p)' = Asleep(p) \ {w}
    BY <2>1 DEF PoolTypes, Ready, Asleep, WorkersOf
  <2>3. CASE p = PoolOfWorker[w]
    <3>1. w \in Ready(p)
      BY <2>1, <2>3 DEF Ready, WorkersOf
    <3>2. /\ Cardinality(Ready(p)') = Cardinality(Ready(p)) - 1
          /\ Cardinality(Ready(p)) \in Nat /\ Cardinality(Notifiers(p)) \in Nat
      BY <2>2, <3>1, Subsets, FewReady, FewNotifiers, FS_RemoveElement
    <3>3. Len(tasks'[p]) = Len(tasks[p]) - 1
      BY <2>1, <2>3, HeadTailProperties DEF PoolTypes
    <3>4. Served(p)' <=> (Asleep(p)' # {} =>
             Len(tasks'[p]) <= Cardinality(Ready(p)') + Cardinality(Notifiers(p)'))
      BY DEF Served
    <3>5. Served(p) <=> (Asleep(p) # {} =>
             Len(tasks[p]) <= Cardinality(Ready(p)) + Cardinality(Notifiers(p)))
      BY DEF Served
    <3> QED
      BY <1>1, <1>2, <2>2, <3>2, <3>3, <3>4, <3>5
  <2>4. CASE p # PoolOfWorker[w]
    <3>1. tasks'[p] = tasks[p] /\ w \notin Ready(p)
      BY <2>1, <2>4 DEF Ready, WorkersOf, PoolTypes
    <3> QED
      BY <1>1, <1>2, <2>2, <3>1, ServedKeeps
  <2> QED
    BY <2>3, <2>4
<1>4. CASE Ends(w) \/ FindsNothing(w) \/ Blocks(w)
  <2>1. tasks' = tasks
    BY <1>4 DEF Ends, FindsNothing, Blocks
  <2>2. CASE p = PoolOfWorker[w]
    <3>1. tasks[p] = <<>>
      BY <1>4, <2>2 DEF Ends, FindsNothing, Blocks, MutexInv
    <3> QED
      BY <2>1, <3>1, ServedEmpty
  <2>3. CASE p # PoolOfWorker[w]
    <3>1. Ready(p)' = Ready(p) /\ Asleep(p)' = Asleep(p)
      <4>1. \E c \in WorkerPc : worker_pc' = [worker_pc EXCEPT ![w] = c]
        BY <1>4 DEF Ends, FindsNothing, Blocks, WorkerPc
      <4>2. w \notin WorkersOf(p) /\ w \notin Ready(p) /\ w \notin Asleep(p)
        BY <2>3 DEF WorkersOf, Ready, Asleep
      <4> QED
        BY <4>1, <4>2 DEF PoolTypes, Ready, Asleep, WorkersOf
    <3> QED
      BY <1>1, <1>2, <2>1, <3>1, ServedKeeps
  <2> QED
    BY <2>2, <2>3
<1>5. CASE JobSkips(w) \/ JobBegins(w) \/ JobUncounts(w) \/ JobTells(w)
  <2>1. /\ tasks' = tasks /\ worker_pc[w] # "loop"
        /\ \E c \in WorkerPc \ {"asleep"} : worker_pc' = [worker_pc EXCEPT ![w] = c]
    BY <1>5 DEF JobSkips, JobBegins, JobUncounts, JobTells, Moves, Returns, WorkerPc
  <2>2. w \notin Ready(p)
    BY <2>1 DEF Ready
  <2>3. Ready(p) \subseteq Ready(p)' /\ Asleep(p)' \subseteq Asleep(p)
    BY <2>1, <2>2 DEF PoolTypes, Ready, Asleep, WorkersOf
  <2> QED
    BY <1>1, <1>2, <2>1, <2>3, ServedKeeps
<1> QED
  BY <1>3, <1>4, <1>5 DEF WorkerStep

(* A push makes a notifier of who pushed. *)
LEMMA ServedPush ==
  ASSUME AllServed, PoolTypes, PoolTypes', LifeTypes, JobTypes, NEW s \in Stream, IoPush(s)
  PROVE  AllServed'
<1> DEFINE q == ComputePool(s)
           c == IF Accepts(q) THEN "notify" ELSE "loop"
<1> SUFFICES ASSUME NEW p \in Pool
             PROVE  Served(p)'
  BY DEF AllServed
<1>1. /\ Served(p) /\ Len(tasks[p]) \in Nat /\ Len(tasks'[p]) \in Nat
      /\ Ready(p)' = Ready(p) /\ Asleep(p)' = Asleep(p)
  BY DEF AllServed, PoolTypes, IoPush, Push, Ready, Asleep, WorkersOf
<1>2. /\ io_pc[s] = "push" /\ io_pc' = [io_pc EXCEPT ![s] = c] /\ UNCHANGED gpu_id
      /\ tasks' = IF Accepts(q) THEN [tasks EXCEPT ![q] = Append(@, s)] ELSE tasks
  BY DEF IoPush, Push, Turns
<1>3. Notifiers(p)' = IF Accepts(q) /\ q = p THEN Notifiers(p) \cup {s} ELSE Notifiers(p) \ {s}
  BY <1>2 DEF LifeTypes, Notifiers, ComputePool
<1>4. s \notin Notifiers(p)
  BY <1>2 DEF Notifiers
<1>5. CASE Accepts(q) /\ q = p
  <2>1. /\ Cardinality(Notifiers(p)') = Cardinality(Notifiers(p)) + 1
        /\ Cardinality(Ready(p)) \in Nat /\ Cardinality(Notifiers(p)) \in Nat
    BY <1>3, <1>4, <1>5, Subsets, FewReady, FewNotifiers, FS_AddElement
  <2>2. Len(tasks'[p]) = Len(tasks[p]) + 1
    <3>1. tasks[p] \in Seq(Stream) /\ tasks'[p] = Append(tasks[p], s)
      BY <1>2, <1>5 DEF PoolTypes
    <3> QED
      BY <3>1, AppendProperties
  <2>3. Served(p)' <=> (Asleep(p)' # {} =>
           Len(tasks'[p]) <= Cardinality(Ready(p)') + Cardinality(Notifiers(p)'))
    BY DEF Served
  <2>4. Served(p) <=> (Asleep(p) # {} =>
           Len(tasks[p]) <= Cardinality(Ready(p)) + Cardinality(Notifiers(p)))
    BY DEF Served
  <2> QED
    BY <1>1, <2>1, <2>2, <2>3, <2>4
<1>6. CASE ~(Accepts(q) /\ q = p)
  <2>1. tasks'[p] = tasks[p]
    BY <1>2, <1>6 DEF PoolTypes
  <2>2. Notifiers(p)' = Notifiers(p)
    BY <1>3, <1>4, <1>6
  <2> QED
    BY <1>1, <2>1, <2>2, ServedKeeps
<1> QED
  BY <1>5, <1>6

(* A notification that wakes nobody finds nobody asleep. *)
LEMMA ServedNotify ==
  ASSUME AllServed, PoolTypes, PoolTypes', LifeTypes, NEW s \in Stream, IoNotify(s)
  PROVE  AllServed'
<1> DEFINE q == ComputePool(s)
<1> SUFFICES ASSUME NEW p \in Pool
             PROVE  Served(p)'
  BY DEF AllServed
<1>1. Served(p) /\ Len(tasks[p]) \in Nat /\ tasks' = tasks
  BY DEF AllServed, PoolTypes, IoNotify, NotifyOne
<1>2. io_pc[s] = "notify" /\ io_pc' = [io_pc EXCEPT ![s] = "loop"] /\ UNCHANGED gpu_id
  BY DEF IoNotify, Turns
<1>3. Notifiers(p)' = Notifiers(p) \ {s}
  BY <1>2 DEF LifeTypes, Notifiers, ComputePool
<1>4. s \in Notifiers(p) <=> q = p
  BY <1>2 DEF Notifiers
<1>5. CASE Asleep(q) = {}
  <2>1. worker_pc' = worker_pc
    BY <1>5 DEF IoNotify, NotifyOne, Asleep
  <2>2. Ready(p)' = Ready(p) /\ Asleep(p)' = Asleep(p)
    BY <2>1 DEF Ready, Asleep, WorkersOf
  <2>3. CASE p = q
    <3>1. Asleep(p)' = {}
      BY <1>5, <2>2, <2>3
    <3> QED
      BY <3>1 DEF Served
  <2>4. CASE p # q
    <3>1. Notifiers(p)' = Notifiers(p)
      BY <1>3, <1>4, <2>4
    <3> QED
      BY <1>1, <2>2, <3>1, ServedKeeps
  <2> QED
    BY <2>3, <2>4
<1>6. CASE Asleep(q) # {}
  <2>1. PICK w \in Asleep(q) : worker_pc' = [worker_pc EXCEPT ![w] = "loop"]
    BY <1>6 DEF IoNotify, NotifyOne, Asleep
  <2>2. w \in Worker /\ (w \in WorkersOf(p) <=> p = q) /\ w \notin Ready(p)
    BY DEF Asleep, Ready, WorkersOf
  <2>3. /\ Ready(p)' = IF p = q THEN Ready(p) \cup {w} ELSE Ready(p)
        /\ Asleep(p)' \subseteq Asleep(p)
    BY <2>1, <2>2 DEF PoolTypes, Ready, Asleep, WorkersOf
  <2>4. CASE p = q
    <3>1. /\ Cardinality(Ready(p)') = Cardinality(Ready(p)) + 1
          /\ Cardinality(Notifiers(p)') = Cardinality(Notifiers(p)) - 1
          /\ Cardinality(Ready(p)) \in Nat /\ Cardinality(Notifiers(p)) \in Nat
      <4>1. IsFiniteSet(Ready(p)) /\ IsFiniteSet(Notifiers(p))
        BY Subsets, FewReady, FewNotifiers
      <4>2. Cardinality(Ready(p) \cup {w}) = Cardinality(Ready(p)) + 1
        BY <2>2, <4>1, FS_AddElement
      <4>3. Cardinality(Notifiers(p) \ {s}) = Cardinality(Notifiers(p)) - 1
        BY <1>4, <2>4, <4>1, FS_RemoveElement
      <4> QED
        BY <1>3, <2>3, <2>4, <4>1, <4>2, <4>3, FS_CardinalityType
    <3>2. Served(p)' <=> (Asleep(p)' # {} =>
             Len(tasks'[p]) <= Cardinality(Ready(p)') + Cardinality(Notifiers(p)'))
      BY DEF Served
    <3>3. Served(p) <=> (Asleep(p) # {} =>
             Len(tasks[p]) <= Cardinality(Ready(p)) + Cardinality(Notifiers(p)))
      BY DEF Served
    <3> QED
      BY <1>1, <1>6, <2>3, <2>4, <3>1, <3>2, <3>3
  <2>5. CASE p # q
    <3>1. Notifiers(p)' = Notifiers(p)
      BY <1>3, <1>4, <2>5
    <3> QED
      BY <1>1, <2>3, <2>5, <3>1, ServedKeeps
  <2> QED
    BY <2>4, <2>5
<1> QED
  BY <1>5, <1>6

(* Whoever leaves the queues and the workers alone and notifies nobody. *)
LEMMA ServedFrame ==
  ASSUME AllServed, PoolTypes, PoolTypes', UNCHANGED <<tasks, worker_pc, gpu_id>>,
         \A s \in Stream : io_pc[s] = "notify" => io_pc'[s] = "notify"
  PROVE  AllServed'
<1> SUFFICES ASSUME NEW p \in Pool
             PROVE  Served(p)'
  BY DEF AllServed
<1>1. /\ Served(p) /\ Len(tasks[p]) \in Nat
      /\ Ready(p)' = Ready(p) /\ Asleep(p)' = Asleep(p)
  BY DEF AllServed, PoolTypes, Ready, Asleep, WorkersOf
<1>2. Notifiers(p) \subseteq Notifiers(p)'
  BY DEF Notifiers, ComputePool
<1> QED
  BY <1>1, <1>2, ServedKeeps

LEMMA ServedStep ==
  ASSUME AllServed, MutexInv, IInv, IInv', [Next]_vars
  PROVE  AllServed'
<1>1. /\ PoolTypes /\ LifeTypes /\ JobTypes /\ CallTypes /\ StreamsInv
      /\ PoolTypes'
  BY TypeParts DEF IInv, TypeOK, PoolTypes, WorkerPc
<1>2. CASE \E w \in Worker : WorkerStep(w)
  BY <1>1, <1>2, ServedWorker
<1>3. ASSUME NEW s \in Stream, IoStep(s)
      PROVE  AllServed'
  <2>1. CASE IoPush(s) \/ IoNotify(s)
    BY <1>1, <2>1, ServedPush, ServedNotify
  <2>2. CASE \/ IoTestRunning(s) \/ IoDispatch(s) \/ IoLookup(s)
             \/ IoPushTooLate(s) \/ IoGivesUp(s) \/ IoEnds(s)
    <3>1. UNCHANGED <<tasks, worker_pc, gpu_id>>
      BY <2>2, Zenon
      DEF IoTestRunning, IoDispatch, IoLookup, IoPushTooLate, IoGivesUp, IoEnds, poolVars
    <3>2. io_pc[s] # "notify" /\ \E c \in IoPc : io_pc' = [io_pc EXCEPT ![s] = c]
      BY <2>2
      DEF IoTestRunning, IoDispatch, IoLookup, IoPushTooLate, IoGivesUp, IoEnds, Turns, IoPc
    <3>3. \A r \in Stream : io_pc[r] = "notify" => io_pc'[r] = "notify"
      BY <1>1, <3>2 DEF LifeTypes
    <3> QED
      BY <1>1, <3>1, <3>3, ServedFrame
  <2> QED
    BY <1>3, <2>1, <2>2 DEF IoStep
<1>4. CASE JanitorStep \/ \E s \in Stream : StopGoes(s) \/ HandlerStep(s) \/ ClientStep(s)
  <2>1. UNCHANGED <<tasks, worker_pc, gpu_id>>
    BY <1>4, OthersAtPools
  <2>2. \A s \in Stream : io_pc[s] = "notify" => io_pc'[s] = "notify"
    <3>1. CASE \E s \in Stream : StartSpawn(s)
      BY <1>1, <3>1 DEF StartSpawn, Starts, Turns, StreamsInv, LifeInv, LifeTypes
    <3> QED
      BY <1>4, <3>1, OthersAtPools
  <2> QED
    BY <1>1, <2>1, <2>2, ServedFrame
<1>5. CASE MainNotifies
  <2>1. UNCHANGED <<tasks, gpu_id, io_pc>> /\ NotifyAll(Dying)
    BY <1>5 DEF MainNotifies, NotifyAll, flagVars
  <2> SUFFICES ASSUME NEW p \in Pool
               PROVE  Served(p)'
    BY DEF AllServed
  <2>2. /\ Served(p) /\ Len(tasks[p]) \in Nat /\ Notifiers(p)' = Notifiers(p)
    BY <1>1, <2>1 DEF AllServed, PoolTypes, Notifiers, ComputePool
  <2>3. Ready(p) \subseteq Ready(p)' /\ Asleep(p)' \subseteq Asleep(p)
    BY <2>1 DEF NotifyAll, Ready, Asleep, WorkersOf
  <2> QED
    BY <1>1, <2>1, <2>2, <2>3, ServedKeeps
<1>6. CASE (MainSignalled \/ MainStep) /\ ~MainNotifies
  <2>1. UNCHANGED <<tasks, worker_pc, gpu_id, io_pc>>
    BY <1>6
    DEF MainSignalled, MainStep, MainDrains, MainJoinsJanitor, MainStops, StopBegins, StopReturns,
        MainStopsNoMore, MainClears, ClearRunning, MainJoins, Joined, poolVars, flagVars
  <2> QED
    BY <1>1, <2>1, ServedFrame
<1>7. CASE UNCHANGED vars
  BY <1>1, <1>7, ServedFrame DEF vars, poolVars, flagVars
<1> QED
  BY <1>2, <1>3, <1>4, <1>5, <1>6, <1>7 DEF Next

(* No task is slept over (enqueue(), thread_pool.hpp:120-142, and the wait *)
(* of the workers): while a worker of a pool sleeps, each task in its      *)
(* queue has a worker or a notification on its way.                        *)
THEOREM NoTaskIsSleptOver == Spec => []NoTaskSleptOver
<1>1. Init => AllServed
  <2> SUFFICES ASSUME Init, NEW p \in Pool
               PROVE  Served(p)
    BY DEF AllServed
  <2>1. Asleep(p) = {}
    BY DEF Init, PoolInit, Asleep, WorkersOf
  <2> QED
    BY <2>1 DEF Served
<1>2. AllServed /\ GoingInv /\ IInv /\ IInv' /\ [Next]_vars => AllServed'
  BY ServedStep DEF GoingInv
<1>3. AllServed => NoTaskSleptOver
  BY DEF AllServed, Served, Asleep, NoTaskSleptOver
<1> QED
  BY <1>1, <1>2, <1>3, Invariance, GoingInvariance, PTL DEF Spec

-----------------------------------------------------------------------------
(***************************************************************************)
(* Each stream of the process lives as StreamLife has it.                  *)
(***************************************************************************)
TearingDown == {"join", "test", "drowse", "asleep", "release"}

(* What a step does to a stream, as far as its life is concerned. *)
Begun(s) == starting[s] \notin {"none", "start"}

EffectOn(s) ==
  \/ /\ Begun(s)' <=> Begun(s)
     /\ stop_pc'[s] = stop_pc[s] /\ compute_in_flight'[s] = compute_in_flight[s]
  \/ /\ ~Begun(s) /\ Begun(s)'
     /\ stop_pc[s] = "none" /\ stop_pc'[s] = "none"
     /\ compute_in_flight'[s] = compute_in_flight[s]
  \/ /\ Begun(s) /\ Begun(s)'
     /\ stop_pc[s] = "none" /\ stop_pc'[s] = "join"
     /\ compute_in_flight'[s] = compute_in_flight[s]
  \/ /\ Begun(s)' <=> Begun(s)
     /\ stop_pc[s] \in TearingDown /\ stop_pc'[s] \in TearingDown
     /\ compute_in_flight'[s] = compute_in_flight[s]
  \/ /\ Begun(s) /\ Begun(s)'
     /\ stop_pc[s] = "release" /\ stop_pc'[s] = "done"
     /\ compute_in_flight[s] = 0 /\ compute_in_flight'[s] = 0
  \/ /\ Begun(s) /\ Begun(s)'
     /\ stop_pc[s] = "none" /\ stop_pc'[s] = "none"
     /\ compute_in_flight[s] = 0 /\ compute_in_flight'[s] = 1
  \/ /\ Begun(s)' <=> Begun(s)
     /\ stop_pc'[s] = stop_pc[s]
     /\ compute_in_flight[s] = 1 /\ compute_in_flight'[s] = 0

LEMMA EffectIsLife ==
  ASSUME InFlightInv, InFlightInv', NEW s \in Stream, EffectOn(s)
  PROVE  [Life(s)!Next]_(Life(s)!lifeVars)
<1>1. /\ decoderUser(s)  = IF compute_in_flight[s] = 0 THEN "nobody" ELSE "job"
      /\ decoderUser(s)' = IF compute_in_flight'[s] = 0 THEN "nobody" ELSE "job"
  BY DEF InFlightInv, decoderUser
<1>2. CASE lifePhase(s)' = lifePhase(s) /\ decoderUser(s)' = decoderUser(s)
  BY <1>2 DEF Life!lifeVars
<1>3. CASE /\ lifePhase(s) = "created" /\ lifePhase(s)' = "running"
           /\ decoderUser(s)' = decoderUser(s)
  BY <1>3 DEF Life!Next, Life!Start
<1>4. CASE /\ lifePhase(s) = "running" /\ lifePhase(s)' = "stopping"
           /\ decoderUser(s)' = decoderUser(s)
  BY <1>4 DEF Life!Next, Life!Stop
<1>5. CASE /\ lifePhase(s) = "stopping" /\ lifePhase(s)' = "stopped"
           /\ decoderUser(s) = "nobody" /\ decoderUser(s)' = "nobody"
  BY <1>5 DEF Life!Next, Life!Stopped
<1>6. CASE /\ lifePhase(s) = "running" /\ lifePhase(s)' = "running"
           /\ decoderUser(s) = "nobody" /\ decoderUser(s)' = "job"
  BY <1>6 DEF Life!Next, Life!Use
<1>7. CASE lifePhase(s)' = lifePhase(s) /\ decoderUser(s)' = "nobody"
  BY <1>7 DEF Life!Next, Life!Leave
<1> QED
  BY <1>1, <1>2, <1>3, <1>4, <1>5, <1>6, <1>7 DEF EffectOn, Begun, lifePhase, TearingDown

LEMMA StopBeginsEffect ==
  ASSUME LifeTypes, StreamsInv, NEW r \in Stream, NEW t, StopBegins(r, t),
         UNCHANGED <<starting, compute_in_flight>>, NEW s \in Stream
  PROVE  EffectOn(s)
<1>1. Begun(r) /\ stop_pc[r] = "none"
  BY DEF StopBegins, StreamsInv, LifeInv, Begun
<1> QED
  BY <1>1 DEF StopBegins, EffectOn, Begun, LifeTypes

LEMMA EveryEffect ==
  ASSUME IInv, IInv', WaitsInv, [Next]_vars, NEW s \in Stream
  PROVE  EffectOn(s)
<1>1. /\ PoolTypes /\ LifeTypes /\ JobTypes /\ CallTypes /\ StreamsInv /\ WorkersInv
      /\ InFlightInv /\ JobTypes'
  BY TypeParts DEF IInv, JobsInv, TypeOK, JobTypes
<1>2. CASE UNCHANGED <<starting, stop_pc, compute_in_flight>>
  BY <1>2 DEF EffectOn, Begun
<1>3. ASSUME NEW w \in Worker, WorkerStep(w)
      PROVE  EffectOn(s)
  <2> DEFINE r == worker_task[w]
  <2>1. UNCHANGED starting
    BY <1>3 DEF WorkerStep, JobSkips, JobBegins, JobUncounts, JobTells, callVars
  <2>2. worker_pc[w] \in {"run", "compute", "tell"} => r \in Stream
    BY <1>1 DEF WorkersInv, PoolTypes
  <2>3. CASE JobBegins(w)
    <3>1. /\ running[r] /\ r \in Stream /\ UNCHANGED stop_pc
          /\ compute_in_flight' = [compute_in_flight EXCEPT ![r] = @ + 1]
      BY <2>2, <2>3 DEF JobBegins, Moves, stopVars
    <3>2. Begun(r) /\ stop_pc[r] = "none"
      BY <1>1, <3>1 DEF StreamsInv, LifeInv, Begun
    <3>3. compute_in_flight[r] = 0 /\ compute_in_flight'[r] = 1
      BY <1>1, <3>1 DEF JobTypes
    <3>4. s # r => compute_in_flight'[s] = compute_in_flight[s]
      BY <1>1, <3>1 DEF JobTypes
    <3> QED
      BY <2>1, <3>1, <3>2, <3>3, <3>4 DEF EffectOn, Begun
  <2>4. CASE JobUncounts(w)
    <3>1. /\ worker_pc[w] = "compute" /\ r \in Stream /\ UNCHANGED stop_pc
          /\ compute_in_flight' = [compute_in_flight EXCEPT ![r] = @ - 1]
      BY <2>2, <2>4 DEF JobUncounts, Moves, stopVars
    <3>2. compute_in_flight[r] = 1 /\ compute_in_flight'[r] = 0
      BY <1>1, <3>1 DEF InFlightInv, JobTypes
    <3>3. s # r => compute_in_flight'[s] = compute_in_flight[s]
      BY <1>1, <3>1 DEF JobTypes
    <3> QED
      BY <2>1, <3>1, <3>2, <3>3 DEF EffectOn, Begun
  <2>5. CASE JobTells(w)
    <3>1. /\ r \in Stream /\ UNCHANGED compute_in_flight
          /\ stop_pc' = [stop_pc EXCEPT ![r] = IF @ = "asleep" THEN "test" ELSE @]
      BY <2>2, <2>5 DEF JobTells, Returns
    <3> QED
      BY <1>1, <2>1, <3>1 DEF EffectOn, Begun, LifeTypes, TearingDown
  <2>6. CASE ~(JobBegins(w) \/ JobUncounts(w) \/ JobTells(w))
    BY <1>2, <1>3, <2>1, <2>6 DEF WorkerStep, JobSkips, jobVars, stopVars
  <2> QED
    BY <2>3, <2>4, <2>5, <2>6
<1>4. ASSUME NEW r \in Stream, IoStep(r)
      PROVE  EffectOn(s)
  <2>1. UNCHANGED <<starting, compute_in_flight>>
    BY <1>4
    DEF IoStep, IoTestRunning, IoDispatch, IoLookup, IoPush, IoPushTooLate, IoNotify, IoGivesUp,
        IoEnds,
        callVars, jobVars
  <2>2. CASE IoGivesUp(r)
    <3>1. Begun(r) /\ stop_pc[r] = "none"
      BY <1>1, <2>2 DEF IoGivesUp, StreamsInv, LifeInv, Begun
    <3> QED
      BY <1>1, <2>1, <2>2, <3>1 DEF IoGivesUp, EffectOn, Begun, LifeTypes
  <2>3. CASE ~IoGivesUp(r)
    BY <1>2, <1>4, <2>1, <2>3
    DEF IoStep, IoTestRunning, IoDispatch, IoLookup, IoPush, IoPushTooLate, IoNotify, IoEnds,
        stopVars
  <2> QED
    BY <2>2, <2>3
<1>5. ASSUME NEW r \in Stream, StopGoes(r)
      PROVE  EffectOn(s)
  <2>1. UNCHANGED <<starting, compute_in_flight>>
    BY <1>5 DEF StopGoes, callVars, jobVars
  <2>2. CASE s # r
    <3>1. stop_pc'[s] = stop_pc[s]
      BY <1>1, <1>5, <2>2 DEF StopGoes, StopJoins, StopReleases, Turns, LifeTypes
    <3> QED
      BY <2>1, <3>1 DEF EffectOn, Begun
  <2>3. CASE s = r
    <3>1. \/ stop_pc[s] \in TearingDown /\ stop_pc'[s] \in TearingDown
          \/ stop_pc[s] = "release" /\ stop_pc'[s] = "done"
      BY <1>1, <1>5, <2>3 DEF StopGoes, StopJoins, StopReleases, Turns, LifeTypes, TearingDown
    <3>2. Begun(s)
      BY <1>1, <3>1 DEF StreamsInv, LifeInv, TearingDown, Begun
    <3>3. stop_pc[s] = "release" => compute_in_flight[s] = 0
      BY DEF WaitsInv, WaitInv
    <3> QED
      BY <2>1, <3>1, <3>2, <3>3 DEF EffectOn, Begun
  <2> QED
    BY <2>2, <2>3
<1>6. ASSUME NEW r \in Stream, HandlerStep(r) \/ ClientStep(r)
      PROVE  EffectOn(s)
  <2>1. UNCHANGED compute_in_flight
    BY <1>6, StartFrame
    DEF HandlerStep, HandlerStops, WatchEnds, WatcherLeaves, ClientStep, CallStart, CallStop,
        CallWatch, jobVars
  <2>2. CASE Start(r)
    <3>1. /\ UNCHANGED stop_pc /\ starting[r] \in {"start", "reset", "spawn", "assign"}
          /\ \E c \in {"reset", "spawn", "assign", "done"} : starting' = [starting EXCEPT ![r] = c]
      BY <2>2, StartFrame DEF stopVars
    <3>2. starting[r] = "start" => stop_pc[r] = "none"
      BY <1>1 DEF StreamsInv, LifeInv
    <3> QED
      BY <1>1, <2>1, <3>1, <3>2 DEF EffectOn, Begun, CallTypes
  <2>3. CASE CallStart(r)
    BY <1>1, <2>1, <2>3 DEF CallStart, Turns, stopVars, EffectOn, Begun, CallTypes
  <2>4. CASE HandlerStops(r) /\ StopBegins(r, "handler")
    BY <1>1, <2>1, <2>4, StopBeginsEffect DEF HandlerStops
  <2>5. CASE HandlerStops(r) /\ StopReturns(r, "handler")
    BY <1>2, <2>1, <2>5 DEF HandlerStops, StopReturns, stopVars
  <2>6. CASE WatchEnds(r) \/ WatcherLeaves(r) \/ CallStop(r) \/ CallWatch(r)
    BY <1>2, <2>1, <2>6 DEF WatchEnds, WatcherLeaves, CallStop, CallWatch, stopVars
  <2> QED
    BY <1>6, <2>2, <2>3, <2>4, <2>5, <2>6 DEF HandlerStep, HandlerStops, ClientStep
<1>7. CASE JanitorStep
  <2>1. UNCHANGED <<starting, compute_in_flight>>
    BY <1>7 DEF JanitorStep, JanitorGoes, JanitorCollects, JanitorStops, callVars, jobVars
  <2>2. CASE \E r \in Stream : StopBegins(r, "janitor")
    BY <1>1, <2>1, <2>2, StopBeginsEffect
  <2>3. CASE ~ \E r \in Stream : StopBegins(r, "janitor")
    BY <1>2, <1>7, <2>1, <2>3
    DEF JanitorStep, JanitorGoes, JanitorCollects, JanitorStops, StopReturns, stopVars
  <2> QED
    BY <2>2, <2>3
<1>8. CASE MainSignalled \/ MainStep
  <2>1. UNCHANGED <<starting, compute_in_flight>>
    BY <1>8
    DEF MainSignalled, MainStep, MainDrains, MainJoinsJanitor, MainStops, MainStopsNoMore,
        MainClears, MainNotifies, MainJoins, MainPasses, callVars, jobVars
  <2>2. CASE \E r \in Stream : StopBegins(r, "main")
    BY <1>1, <2>1, <2>2, StopBeginsEffect
  <2>3. CASE ~ \E r \in Stream : StopBegins(r, "main")
    BY <1>2, <1>8, <2>1, <2>3
    DEF MainSignalled, MainStep, MainDrains, MainJoinsJanitor, MainStops, MainStopsNoMore,
        MainClears, MainNotifies, MainJoins, StopReturns, stopVars
  <2> QED
    BY <2>2, <2>3
<1>9. CASE UNCHANGED vars
  BY <1>2, <1>9 DEF vars, callVars, jobVars, stopVars
<1> QED
  BY <1>3, <1>4, <1>5, <1>6, <1>7, <1>8, <1>9 DEF Next

(* ServerProcess implements StreamLife once for each stream: whoever stops *)
(* it, and in whatever order main() takes the process down.                *)
THEOREM StreamsOfTheProcessLive == Spec => StreamsLive
<1>1. Init => \A s \in Stream : Life(s)!Init
  BY ProcessAssumption DEF Init, PoolInit, Life!Init, lifePhase, decoderUser
<1>2. IInv /\ IInv' /\ GoingInv /\ [Next]_vars
        => \A s \in Stream : [Life(s)!Next]_(Life(s)!lifeVars)
  BY EveryEffect, EffectIsLife DEF IInv, JobsInv, GoingInv
<1> QED
  BY <1>1, <1>2, Invariance, GoingInvariance, PTL DEF Spec, StreamsLive
=============================================================================
