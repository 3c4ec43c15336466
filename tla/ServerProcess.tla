--------------------------- MODULE ServerProcess ----------------------------
(***************************************************************************)
(* The server as a process (src/main.cpp): from the moment its pools and   *)
(* its service are up to the return of main().                             *)
(* The timer thread is left out: nothing in the program schedules on it.   *)
(*                                                                         *)
(* Threads: main; the gRPC handlers; the service's clean-up thread; the IO *)
(* thread of each stream, which hands jobs to the pools; the workers of    *)
(* the pools.  Of a stream the module keeps what the shutdown depends on:  *)
(* who stops it, whether its thread and its job are still running, whether *)
(* its decoder is released.  StreamTask and StreamService model the rest.  *)
(***************************************************************************)
EXTENDS ThreadPool, FiniteSets

CONSTANTS
  Stream,       (* the streams clients may start, each once                  *)
  Asked,        (* the gpu_id's clients may ask for, one for each stream     *)
  MaxEventful,  (* bound: streams that are eventful                          *)
  NoThread

ASSUME ProcessAssumption ==
  /\ Asked \subseteq [Stream -> Int]
  /\ IsFiniteSet(Stream) /\ IsFiniteSet(Worker)
  /\ NoTask \notin Stream
  /\ NoThread \notin {"self", "handler", "janitor", "main"}
  /\ MaxEventful \in Nat

VARIABLES
  main_pc,          (* where main() is                                       *)
  manager_running, janitor_pc, janitor_todo,  (* cleanupLoop()               *)
  streams,          (* streams_ of the service                               *)
  starting,         (* StartStream calls: none, how far in start(), done     *)
  eventful,         (* streams called for, timed out or given up so far      *)
  call,             (* an open call on a stream: none, stop, watch           *)
  gpu_id,
  running, stopped, (* flags of a stream                                     *)
  io_pc, joinable,  (* its IO thread; io_thread_ stands for a thread         *)
  compute_scheduled, compute_in_flight,
  stop_by, stop_pc, (* the thread that tears it down, and how far it is      *)
  released          (* its decoder has been released                         *)

mainVars    == <<main_pc, manager_running>>
janitorVars == <<janitor_pc, janitor_todo>>
callVars    == <<streams, starting, eventful, call>>
flagVars    == <<running, stopped, io_pc, joinable, gpu_id>>
jobVars     == <<compute_scheduled, compute_in_flight>>
stopVars    == <<stop_by, stop_pc, released>>
vars == <<poolVars, mainVars, janitorVars, callVars, flagVars,
          jobVars, stopVars>>

Init ==
  /\ PoolInit
  /\ main_pc = "serving" /\ manager_running = TRUE
  /\ janitor_pc = "loop" /\ janitor_todo = {}
  /\ streams = {}
  /\ starting = [s \in Stream |-> "none"]
  /\ eventful = {}
  /\ call = [s \in Stream |-> "none"]
  /\ gpu_id \in Asked
  /\ running = [s \in Stream |-> FALSE] /\ stopped = [s \in Stream |-> FALSE]
  /\ io_pc = [s \in Stream |-> "none"] /\ joinable = [s \in Stream |-> FALSE]
  /\ compute_scheduled = [s \in Stream |-> FALSE]
  /\ compute_in_flight = [s \in Stream |-> 0]
  /\ stop_by = [s \in Stream |-> NoThread]
  /\ stop_pc = [s \in Stream |-> "none"]
  /\ released = [s \in Stream |-> FALSE]

(* The streams of S become eventful. *)
Befalls(S) == eventful' = eventful \cup S /\ Cardinality(eventful') <= MaxEventful

Turns(f, s, from, to) == f[s] = from /\ f' = [f EXCEPT ![s] = to]

-----------------------------------------------------------------------------
(* The IO thread of stream s: ioLoop() and the end of stepIO(). *)

ComputePool(s) == PoolFor(gpu_id[s])

(* A frame is wanted: running_ is tested, then the one-job flag is taken,  *)
(* or the frame is dropped because the last job is not done.               *)
IoTestRunning(s) ==
  /\ running[s]
  /\ Turns(io_pc, s, "loop", "dispatch")
  /\ UNCHANGED <<poolVars, mainVars, janitorVars, callVars, running,
                 stopped, joinable, gpu_id, jobVars, stopVars>>

IoDispatch(s) ==
  /\ Turns(io_pc, s, "dispatch", IF compute_scheduled[s] THEN "loop" ELSE "lookup")
  /\ compute_scheduled' = [compute_scheduled EXCEPT ![s] = TRUE]
  /\ UNCHANGED <<poolVars, mainVars, janitorVars, callVars, running,
                 stopped, joinable, gpu_id, compute_in_flight, stopVars>>

(* shutdown() holds mutex_ for as long as it destroys pools. *)
SchedulerLocked == main_pc \in {"clear", "notify", "join"}

(* getComputePool(): a pool, or an exception that ends this stepIO(). *)
IoLookup(s) ==
  /\ ~SchedulerLocked
  /\ Turns(io_pc, s, "lookup", IF ComputePool(s) \in exists THEN "push" ELSE "loop")
  /\ UNCHANGED <<poolVars, mainVars, janitorVars, callVars, running,
                 stopped, joinable, gpu_id, jobVars, stopVars>>

(* Mutant: who pushes to a queue that is not empty notifies nobody. *)
IoPushAndNotifyOnce(s) ==
  /\ ComputePool(s) \in exists
  /\ Push(ComputePool(s), s)
  /\ Turns(io_pc, s, "push", IF Accepts(ComputePool(s)) /\ tasks[ComputePool(s)] = <<>>
                             THEN "notify" ELSE "loop")
  /\ UNCHANGED <<mainVars, janitorVars, callVars, running, stopped,
                 joinable, gpu_id, jobVars, stopVars>>

(* enqueue(), on the reference getComputePool() returned. *)
IoPush(s) ==
  /\ ComputePool(s) \in exists
  /\ Push(ComputePool(s), s)
  /\ Turns(io_pc, s, "push", IF Accepts(ComputePool(s)) THEN "notify" ELSE "loop")
  /\ UNCHANGED <<mainVars, janitorVars, callVars, running, stopped,
                 joinable, gpu_id, jobVars, stopVars>>

(* The pool has been destroyed meanwhile: undefined, the push finds what   *)
(* was running_ still clear and throws, or the process crashes.            *)
IoPushTooLate(s) ==
  /\ ComputePool(s) \notin exists
  /\ Turns(io_pc, s, "push", "loop")
  /\ main_pc' \in {main_pc, "crashed"}
  /\ UNCHANGED <<poolVars, manager_running, janitorVars, callVars,
                 running, stopped, joinable, gpu_id, jobVars, stopVars>>

IoNotify(s) ==
  /\ Turns(io_pc, s, "notify", "loop")
  /\ NotifyOne(ComputePool(s))
  /\ UNCHANGED <<mainVars, janitorVars, callVars, running, stopped,
                 joinable, gpu_id, jobVars, stopVars>>

(* A camera that is given up: stop(), called by the IO thread itself, which *)
(* detaches itself instead of joining.                                     *)
IoGivesUp(s) ==
  /\ running[s]
  /\ running' = [running EXCEPT ![s] = FALSE]
  /\ Turns(io_pc, s, "loop", "stopping")
  /\ Befalls({s})
  /\ stop_by' = [stop_by EXCEPT ![s] = "self"]
  /\ stop_pc' = [stop_pc EXCEPT ![s] = "join"]
  /\ UNCHANGED <<poolVars, mainVars, janitorVars, streams, starting, call,
                 stopped, joinable, gpu_id, jobVars, released>>

IoEnds(s) ==
  /\ ~running[s]
  /\ \/ Turns(io_pc, s, "loop", "ended")
     \/ stop_pc[s] = "done" /\ Turns(io_pc, s, "stopping", "ended")
  /\ UNCHANGED <<poolVars, mainVars, janitorVars, callVars, running,
                 stopped, joinable, gpu_id, jobVars, stopVars>>

-----------------------------------------------------------------------------
(* The job of stream s = worker_task[w]: the lambda stepIO() enqueues. *)

(* The stream is gone or has been stopped; the guard clears the flag. *)
JobSkips(w) == LET s == worker_task[w] IN
  /\ worker_pc[w] = "run" /\ ~running[s]
  /\ Returns(w, "run")
  /\ compute_scheduled' = [compute_scheduled EXCEPT ![s] = FALSE]
  /\ UNCHANGED <<mainVars, janitorVars, callVars, flagVars,
                 compute_in_flight, stopVars>>

(* StreamTask tells the test of running_ from the count that follows it. *)
JobBegins(w) == LET s == worker_task[w] IN
  /\ Moves(w, "run", "compute")
  /\ running[s]
  /\ compute_in_flight' = [compute_in_flight EXCEPT ![s] = @ + 1]
  /\ UNCHANGED <<mainVars, janitorVars, callVars, flagVars,
                 compute_scheduled, stopVars>>

(* stepCompute() has returned, or thrown. *)
JobUncounts(w) == LET s == worker_task[w] IN
  /\ Moves(w, "compute", "tell")
  /\ compute_in_flight' = [compute_in_flight EXCEPT ![s] = @ - 1]
  /\ UNCHANGED <<mainVars, janitorVars, callVars, flagVars,
                 compute_scheduled, stopVars>>

(* Mutant: no guard clears the flag once the job has run. *)
JobTellsAndKeeps(w) == LET s == worker_task[w] IN
  /\ Returns(w, "tell")
  /\ stop_pc' = [stop_pc EXCEPT ![s] = IF @ = "asleep" THEN "test" ELSE @]
  /\ UNCHANGED <<mainVars, janitorVars, callVars, flagVars,
                 jobVars, stop_by, released>>

(* compute_done_cv_ is notified, then the guard clears the flag. *)
JobTells(w) == LET s == worker_task[w] IN
  /\ Returns(w, "tell")
  /\ stop_pc' = [stop_pc EXCEPT ![s] = IF @ = "asleep" THEN "test" ELSE @]
  /\ compute_scheduled' = [compute_scheduled EXCEPT ![s] = FALSE]
  /\ UNCHANGED <<mainVars, janitorVars, callVars, flagVars,
                 compute_in_flight, stop_by, released>>

-----------------------------------------------------------------------------
(* stop() of a stream: the caller that clears running_ tears it down, any  *)
(* other caller finds nothing to do.                                       *)
StopBegins(s, t) ==
  /\ running[s]
  /\ running' = [running EXCEPT ![s] = FALSE]
  /\ stop_by' = [stop_by EXCEPT ![s] = t]
  /\ stop_pc' = [stop_pc EXCEPT ![s] = "join"]
  /\ UNCHANGED <<stopped, io_pc, joinable, gpu_id, released>>

(* Mutant: every caller waits until the stream has been torn down. *)
StopReturnsLate(s, t) ==
  /\ ~running[s] /\ stop_pc[s] = "done"
  /\ UNCHANGED <<flagVars, stopVars>>

StopReturns(s, t) ==
  /\ \/ ~running[s] /\ stop_by[s] # t
     \/ stop_by[s] = t /\ stop_pc[s] = "done"
  /\ UNCHANGED <<flagVars, stopVars>>

(* A stop() that comes before start() has stored the handle of the IO      *)
(* thread joins nothing.                                                   *)
StopJoins(s, to) ==
  /\ Turns(stop_pc, s, "join", to)
  /\ ~joinable[s] \/ stop_by[s] = "self" \/ io_pc[s] = "ended"
  /\ joinable' = [joinable EXCEPT ![s] = FALSE]
  /\ stopped' = [stopped EXCEPT ![s] = TRUE]
  /\ UNCHANGED released

StopReleases(s) ==
  /\ Turns(stop_pc, s, "release", "done")
  /\ released' = [released EXCEPT ![s] = TRUE]
  /\ UNCHANGED <<stopped, joinable>>

(* Mutant: the count of running jobs is not looked at. *)
StopGoesAtOnce(s) ==
  /\ StopJoins(s, "release") \/ StopReleases(s)
  /\ UNCHANGED <<poolVars, mainVars, janitorVars, callVars, running,
                 io_pc, gpu_id, jobVars, stop_by>>

StopGoes(s) ==
  /\ \/ StopJoins(s, "test") \/ StopReleases(s)
     \/ /\ \/ Turns(stop_pc, s, "test",
                    IF compute_in_flight[s] = 0 THEN "release" ELSE "drowse")
           \/ Turns(stop_pc, s, "drowse", "asleep")
        /\ UNCHANGED <<stopped, joinable, released>>
  /\ UNCHANGED <<poolVars, mainVars, janitorVars, callVars, running,
                 io_pc, gpu_id, jobVars, stop_by>>

-----------------------------------------------------------------------------
(* The gRPC handlers.  The server takes no call once it shuts down; the    *)
(* calls it has taken run to their end.                                    *)

CallStart(s) ==
  /\ main_pc = "serving"
  /\ Turns(starting, s, "none", "start")
  /\ streams' = streams \cup {s}
  /\ UNCHANGED <<poolVars, mainVars, janitorVars, eventful, call, flagVars,
                 jobVars, stopVars>>

(* start(), while other threads can already stop the stream, and may have  *)
(* removed it again.  The new thread runs before io_thread_ stands for it; *)
(* StreamTask tells its entering the loop from its creation.               *)
Starts(s, from, to) ==
  /\ Turns(starting, s, from, to)
  /\ UNCHANGED <<poolVars, mainVars, janitorVars, streams, eventful, call,
                 gpu_id, jobVars, stopVars>>

StartCas(s) ==
  /\ Starts(s, "start", "reset")
  /\ running' = [running EXCEPT ![s] = TRUE]
  /\ UNCHANGED <<stopped, io_pc, joinable>>

StartReset(s) ==
  /\ Starts(s, "reset", "spawn")
  /\ stopped' = [stopped EXCEPT ![s] = FALSE]
  /\ UNCHANGED <<running, io_pc, joinable>>

StartSpawn(s) ==
  /\ Starts(s, "spawn", "assign")
  /\ io_pc' = [io_pc EXCEPT ![s] = "loop"]
  /\ UNCHANGED <<running, stopped, joinable>>

StartAssign(s) ==
  /\ Starts(s, "assign", "done")
  /\ joinable' = [joinable EXCEPT ![s] = TRUE]
  /\ UNCHANGED <<running, stopped, io_pc>>

Start(s) == StartCas(s) \/ StartReset(s) \/ StartSpawn(s) \/ StartAssign(s)

CallStop(s) ==
  /\ main_pc = "serving" /\ s \in streams
  /\ Befalls({s})
  /\ Turns(call, s, "none", "stop")
  /\ streams' = streams \ {s}
  /\ UNCHANGED <<poolVars, mainVars, janitorVars, starting, flagVars,
                 jobVars, stopVars>>

HandlerStops(s) ==
  /\ call[s] = "stop"
  /\ \/ StopBegins(s, "handler") /\ UNCHANGED call
     \/ StopReturns(s, "handler") /\ call' = [call EXCEPT ![s] = "none"]
  /\ UNCHANGED <<poolVars, mainVars, janitorVars, streams, starting, eventful,
                 jobVars>>

(* StreamFrames: the call lasts until its client leaves or the stream stops. *)
CallWatch(s) ==
  /\ main_pc = "serving" /\ s \in streams
  /\ Befalls({s})
  /\ Turns(call, s, "none", "watch")
  /\ UNCHANGED <<poolVars, mainVars, janitorVars, streams, starting,
                 flagVars, jobVars, stopVars>>

WatcherLeaves(s) ==
  /\ Turns(call, s, "watch", "none")
  /\ UNCHANGED <<poolVars, mainVars, janitorVars, streams, starting, eventful,
                 flagVars, jobVars, stopVars>>

WatchEnds(s) == stopped[s] /\ WatcherLeaves(s)

-----------------------------------------------------------------------------
(* cleanupLoop(): what has stopped is removed, and what nobody asked for   *)
(* for too long.                                                           *)

JanitorCollects ==
  /\ janitor_pc = "loop" /\ manager_running
  /\ \E timed_out \in SUBSET streams :
       /\ Befalls(timed_out)
       /\ janitor_todo' = timed_out \cup {s \in streams : stopped[s]}
  /\ janitor_todo' # {}
  /\ streams' = streams \ janitor_todo'
  /\ janitor_pc' = "stopping"
  /\ UNCHANGED <<poolVars, mainVars, starting, call, flagVars, jobVars,
                 stopVars>>

JanitorStops(s) ==
  /\ janitor_pc = "stopping" /\ s \in janitor_todo
  /\ \A r \in janitor_todo \ {s} : stop_by[r] # "janitor" \/ stop_pc[r] = "done"
  /\ \/ StopBegins(s, "janitor") /\ UNCHANGED janitor_todo
     \/ StopReturns(s, "janitor") /\ janitor_todo' = janitor_todo \ {s}
  /\ UNCHANGED <<poolVars, mainVars, janitor_pc, callVars, jobVars>>

JanitorGoes ==
  /\ \/ janitor_pc = "stopping" /\ janitor_todo = {} /\ janitor_pc' = "loop"
     \/ janitor_pc = "loop" /\ ~manager_running /\ janitor_pc' = "ended"
  /\ UNCHANGED <<poolVars, mainVars, janitor_todo, callVars, flagVars,
                 jobVars, stopVars>>

-----------------------------------------------------------------------------
(* main(), after a signal. *)

MainPasses(from, to) ==
  /\ main_pc = from /\ main_pc' = to
  /\ UNCHANGED <<callVars, janitorVars, jobVars>>

NoCallOpen == \A s \in Stream : starting[s] \in {"none", "done"} /\ call[s] = "none"

MainSignalled ==
  /\ MainPasses("serving", "drain")
  /\ UNCHANGED <<poolVars, manager_running, flagVars, stopVars>>

(* server->Shutdown() has no deadline: it waits for every open call.  Then *)
(* ~RTSPServiceImpl begins.                                                *)
MainDrains ==
  /\ NoCallOpen
  /\ MainPasses("drain", "clean")
  /\ manager_running' = FALSE
  /\ UNCHANGED <<poolVars, flagVars, stopVars>>

MainJoinsJanitor ==
  /\ janitor_pc = "ended"
  /\ MainPasses("clean", "stop")
  /\ UNCHANGED <<poolVars, manager_running, flagVars, stopVars>>

(* ~RTSPServiceImpl stops, one after the other, the streams still listed. *)
MainStops(s) ==
  /\ main_pc = "stop" /\ s \in streams
  /\ \A r \in streams \ {s} : stop_by[r] # "main" \/ stop_pc[r] = "done"
  /\ \/ StopBegins(s, "main") /\ UNCHANGED streams
     \/ StopReturns(s, "main") /\ streams' = streams \ {s}
  /\ UNCHANGED <<poolVars, mainVars, janitorVars, starting, eventful, call,
                 jobVars>>

(* Mutant: the pools are destroyed before the service is. *)
MainStopsTooFew ==
  /\ MainPasses("stop", "clear")
  /\ UNCHANGED <<poolVars, manager_running, flagVars, stopVars>>

MainStopsNoMore ==
  /\ streams = {}
  /\ MainPasses("stop", "clear")
  /\ UNCHANGED <<poolVars, manager_running, flagVars, stopVars>>

(* TaskScheduler::shutdown(): the pools of the GPUs, then that of the CPU. *)
Dying == IF exists = {Cpu} THEN Cpu
         ELSE CHOOSE p \in exists \ {Cpu} : \A q \in exists \ {Cpu} : p <= q

MainClears ==
  /\ MainPasses("clear", "notify")
  /\ ClearRunning(Dying)
  /\ UNCHANGED <<manager_running, flagVars, stopVars>>

MainNotifies ==
  /\ MainPasses("notify", "join")
  /\ NotifyAll(Dying)
  /\ UNCHANGED <<manager_running, flagVars, stopVars>>

MainJoins ==
  /\ MainPasses("join", IF exists = {Cpu} THEN "returned" ELSE "clear")
  /\ Joined(Dying)
  /\ UNCHANGED <<manager_running, flagVars, stopVars>>

-----------------------------------------------------------------------------
WorkerStep(w) ==
  \/ /\ Pops(w) \/ Ends(w) \/ FindsNothing(w) \/ Blocks(w)
     /\ UNCHANGED <<mainVars, janitorVars, callVars, flagVars,
                    jobVars, stopVars>>
  \/ JobSkips(w) \/ JobBegins(w) \/ JobUncounts(w) \/ JobTells(w)

IoStep(s) ==
  \/ IoTestRunning(s) \/ IoDispatch(s) \/ IoLookup(s) \/ IoPush(s)
  \/ IoPushTooLate(s) \/ IoNotify(s) \/ IoGivesUp(s) \/ IoEnds(s)

HandlerStep(s) ==
  \/ Start(s) \/ HandlerStops(s) \/ WatchEnds(s)

ClientStep(s) ==
  CallStart(s) \/ CallStop(s) \/ CallWatch(s) \/ WatcherLeaves(s)

JanitorStep == JanitorGoes \/ JanitorCollects \/ \E s \in Stream : JanitorStops(s)

MainStep ==
  \/ MainDrains \/ MainJoinsJanitor \/ \E s \in Stream : MainStops(s)
  \/ MainStopsNoMore
  \/ MainClears \/ MainNotifies \/ MainJoins

(* A thread that outlives main(), or the crash of another, may go on until *)
(* the process is gone.                                                    *)
Up == main_pc \notin {"returned", "crashed"}
Next ==
  \/ MainSignalled \/ MainStep \/ JanitorStep
  \/ \E w \in Worker : WorkerStep(w)
  \/ \E s \in Stream : IoStep(s) \/ StopGoes(s) \/ HandlerStep(s) \/ ClientStep(s)

Spec == Init /\ [][Next]_vars

-----------------------------------------------------------------------------
TypeOK ==
  /\ exists \subseteq Pool /\ pool_running \in [Pool -> BOOLEAN]
  /\ tasks \in [Pool -> Seq(Stream)]
  /\ mtx \in [Pool -> Worker \cup {NoWorker}]
  /\ worker_pc \in [Worker -> {"loop", "blocks", "asleep", "run", "compute", "tell", "ended"}]
  /\ worker_task \in [Worker -> Stream \cup {NoTask}]
  /\ main_pc \in {"serving", "drain", "clean", "stop", "clear", "notify", "join", "returned", "crashed"}
  /\ manager_running \in BOOLEAN
  /\ janitor_pc \in {"loop", "stopping", "ended"} /\ janitor_todo \subseteq Stream
  /\ streams \subseteq Stream /\ eventful \subseteq Stream
  /\ starting \in [Stream -> {"none", "start", "reset", "spawn", "assign", "done"}]
  /\ call \in [Stream -> {"none", "stop", "watch"}]
  /\ gpu_id \in Asked
  /\ running \in [Stream -> BOOLEAN] /\ stopped \in [Stream -> BOOLEAN]
  /\ io_pc \in [Stream -> {"none", "loop", "dispatch", "lookup", "push", "notify",
                        "stopping", "ended"}]
  /\ joinable \in [Stream -> BOOLEAN]
  /\ compute_scheduled \in [Stream -> BOOLEAN]
  /\ compute_in_flight \in [Stream -> 0 .. 1]
  /\ stop_by \in [Stream -> {NoThread, "self", "handler", "janitor", "main"}]
  /\ stop_pc \in [Stream -> {"none", "join", "test", "drowse", "asleep",
                             "release", "done"}]
  /\ released \in [Stream -> BOOLEAN]

(* A stream that runs although nobody can stop it any more: its StopStream *)
(* came between its insertion and its start().                             *)
Orphan(s) == starting[s] = "done" /\ s \notin streams /\ s \notin janitor_todo
             /\ call[s] # "stop" /\ stop_by[s] \in {NoThread, "self"}

(* A stream whose stop() came while start() was under way and joined       *)
(* nothing: its IO thread is left to end by itself.                        *)
Unjoined(s) ==
  /\ stop_by[s] \notin {NoThread, "self"} /\ stop_pc[s] \notin {"none", "join"}
  /\ starting[s] = "done" => joinable[s]

Unattended(s) == Orphan(s) \/ Unjoined(s)

(* A thread that hands over a job finds its pool: getComputePool() does    *)
(* not throw, and enqueue() meets a pool that is alive and takes the job,  *)
(* also while main() takes the process down.  Only a stream nobody stopped *)
(* may come too late, or one stopped in the middle of its start().         *)
PoolOutlivesStreams ==
  \A s \in Stream :
    io_pc[s] \in {"lookup", "push", "notify"} /\ ~Unattended(s)
      => Accepts(ComputePool(s))

(* compute_scheduled_ stands for exactly one job: one about to be handed   *)
(* over, in the queue of the stream's pool, or in the hands of one of that *)
(* pool's workers.  A flag without a job would silence the stream for good. *)
Holding(s) == {w \in Worker : worker_task[w] = s}
Queued(s) == {i \in 1 .. Len(tasks[ComputePool(s)]) : tasks[ComputePool(s)][i] = s}
FlagStandsForOneJob ==
  \A s \in Stream :
    /\ Holding(s) \subseteq WorkersOf(ComputePool(s))
    /\ ~Unattended(s) =>
         (IF io_pc[s] \in {"lookup", "push"} THEN 1 ELSE 0)
         + Cardinality(Queued(s)) + Cardinality(Holding(s))
         = (IF compute_scheduled[s] THEN 1 ELSE 0)

(* Once the service is gone, and before the pools are, every stream has    *)
(* joined its thread and released its decoder; when main() returns, every  *)
(* job that was accepted has run and every worker is joined: CUDA may be   *)
(* unloaded.  Left are the streams nobody waits for: one that was giving   *)
(* itself up, one stopped before its start(), and one stopped in the       *)
(* middle of it, whose thread may even have opened the decoder again.      *)
NothingOutlivesMain ==
  /\ main_pc \in {"clear", "notify", "join", "returned"} =>
       \A s \in Stream :
         starting[s] = "done" =>
           \/ released[s] /\ (io_pc[s] = "ended" \/ Unjoined(s))
           \/ stop_by[s] = "self" \/ Orphan(s)
  /\ main_pc = "returned" =>
       /\ \A p \in Pool : tasks[p] = <<>>
       /\ \A w \in Worker : worker_pc[w] = "ended"

(* A task that is queued is not slept over: as long as a worker of the     *)
(* pool sleeps, each task in the queue has a worker on its way to it, or   *)
(* the notification that will wake one is still to come.  So no job waits  *)
(* behind another while a worker is idle.                                  *)
Ready(p)     == {w \in WorkersOf(p) : worker_pc[w] = "loop"}
Notifiers(p) == {s \in Stream : io_pc[s] = "notify" /\ ComputePool(s) = p}
NoTaskSleptOver ==
  \A p \in Pool :
    (\E w \in WorkersOf(p) : worker_pc[w] = "asleep") =>
      Len(tasks[p]) <= Cardinality(Ready(p)) + Cardinality(Notifiers(p))

-----------------------------------------------------------------------------
(* Where each thread stands when it can take its next step by itself. *)

WorkerCanGo(w) ==
  \/ worker_pc[w] = "loop" /\ mtx[PoolOfWorker[w]] = NoWorker
  \/ worker_pc[w] \in {"blocks", "run", "compute", "tell"}

IoCanGo(s) ==
  \/ io_pc[s] \in {"loop", "dispatch", "notify"}
  \/ io_pc[s] = "lookup" /\ ~SchedulerLocked
  \/ io_pc[s] = "push" /\ (ComputePool(s) \in exists => mtx[ComputePool(s)] = NoWorker)
  \/ io_pc[s] = "stopping" /\ ~running[s] /\ stop_pc[s] = "done"

StopCanGo(s) ==
  \/ stop_pc[s] = "join" /\ (~joinable[s] \/ io_pc[s] = "ended" \/ stop_by[s] = "self")
  \/ stop_pc[s] \in {"test", "drowse", "release"}

(* Thread t that wants stream s stopped begins, finds it done by another,  *)
(* or is done itself.                                                      *)
CanStop(s, t) == running[s] \/ stop_by[s] # t \/ stop_pc[s] = "done"

(* It stops them one after the other. *)
CanStopOneOf(S, t) ==
  \E s \in S : /\ \A r \in S \ {s} : stop_by[r] # t \/ stop_pc[r] = "done"
              /\ CanStop(s, t)

HandlerCanGo(s) ==
  \/ starting[s] \notin {"none", "done"}
  \/ call[s] = "stop" /\ CanStop(s, "handler")
  \/ call[s] = "watch" /\ stopped[s]

JanitorCanGo ==
  \/ janitor_pc = "stopping" /\ (janitor_todo = {} \/ CanStopOneOf(janitor_todo, "janitor"))
  \/ janitor_pc = "loop" /\ ~manager_running

MainCanGo ==
  \/ main_pc = "drain" /\ NoCallOpen
  \/ main_pc = "clean" /\ janitor_pc = "ended"
  \/ main_pc = "stop" /\ (streams = {} \/ CanStopOneOf(streams, "main"))
  \/ main_pc = "clear" /\ pool_running[Dying] /\ mtx[Dying] = NoWorker
  \/ main_pc = "notify"
  \/ main_pc = "join" /\ \A w \in WorkersOf(Dying) : worker_pc[w] = "ended"

CanGoOn ==
  \/ MainCanGo \/ JanitorCanGo
  \/ \E w \in Worker : WorkerCanGo(w)
  \/ \E s \in Stream : StopCanGo(s) \/ HandlerCanGo(s) \/ IoCanGo(s)

(* Once a signal has come, the threads never wait for each other in a      *)
(* circle nor for a notification that is not coming: while main() has not  *)
(* returned some thread can go on.  Only a client that watches a stream    *)
(* and does not leave, or the notification stop() can miss, may hold the   *)
(* process.                                                                *)
Watched == \E s \in Stream : call[s] = "watch"
MissedNotification == \E s \in Stream : stop_pc[s] = "asleep" /\ compute_in_flight[s] = 0
ShutdownNeverStuck ==
  main_pc # "serving" /\ Up => CanGoOn \/ Watched \/ MissedNotification

(* No lock, queue or flag holds up a thread that waits for nobody: where   *)
(* the threads are said to be able to go on, the code lets them.           *)
GoesOnIfItCan ==
  /\ MainCanGo => ENABLED MainStep
  /\ JanitorCanGo => ENABLED JanitorStep
  /\ \A w \in Worker : WorkerCanGo(w) => ENABLED WorkerStep(w)
  /\ \A s \in Stream : /\ StopCanGo(s) => ENABLED StopGoes(s)
                       /\ HandlerCanGo(s) => ENABLED HandlerStep(s)
                       /\ IoCanGo(s) => ENABLED IoStep(s)

-----------------------------------------------------------------------------
(* How far the life of a stream has come, and who uses its decoder; the    *)
(* IO thread's own use of it, and frames, are left to StreamTask.          *)
lifePhase(s) ==
  IF starting[s] \in {"none", "start"} THEN "created"
  ELSE IF stop_pc[s] = "none" THEN "running"
  ELSE IF stop_pc[s] = "done" THEN "stopped" ELSE "stopping"

decoderUser(s) ==
  IF \E w \in Worker : worker_task[w] = s /\ worker_pc[w] = "compute"
    THEN "job" ELSE "nobody"

Life(s) == INSTANCE StreamLife
             WITH phase <- lifePhase(s), published <- FALSE, user <- decoderUser(s)

(* Whoever stops a stream, and whatever becomes of the pools, each stream  *)
(* of the process lives as StreamLife has it: it is started and stopped    *)
(* once, one job at a time uses its decoder, and none after its stop().    *)
StreamsLive ==
  /\ \A s \in Stream : Life(s)!Init
  /\ [][\A s \in Stream : [Life(s)!Next]_(Life(s)!lifeVars)]_vars
=============================================================================
