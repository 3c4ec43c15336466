----------------------------- MODULE ThreadPool -----------------------------
(***************************************************************************)
(* The thread pools of the server (include/thread_pool.hpp) and the choice *)
(* of one of them (include/task_scheduler.hpp): one pool for CPU work and  *)
(* one for each GPU, each with its workers, its queue, its mutex mtx_ and  *)
(* its condition variable cv_.                                             *)
(*                                                                         *)
(* The module states the pools and what one operation does to them; it has *)
(* no Next of its own.  ServerProcess composes it with the threads that    *)
(* enqueue and with the one that destroys the pools.                       *)
(***************************************************************************)
EXTENDS Integers, Sequences

CONSTANTS
  GpuCount,     (* GPUs cudaGetDeviceCount() reports                         *)
  Worker,       (* pool threads                                              *)
  PoolOfWorker, (* the pool each of them belongs to                          *)
  NoWorker,     (* mtx_ is free                                              *)
  NoTask

Cpu == -1
Pool == Cpu .. GpuCount - 1

ASSUME PoolAssumption ==
  /\ GpuCount \in Nat
  /\ PoolOfWorker \in [Worker -> Pool]
  /\ \A p \in Pool : \E w \in Worker : PoolOfWorker[w] = p
  /\ NoWorker \notin Worker

VARIABLES
  exists,       (* the pools TaskScheduler owns                              *)
  pool_running, (* running_ of each pool                                     *)
  tasks,        (* tasks_ of each pool                                       *)
  mtx,          (* the worker that holds mtx_ between test and wait          *)
  worker_pc,    (* loop, blocks, asleep, run, or what the task makes of it   *)
  worker_task   (* the task a worker has popped                              *)

poolVars == <<exists, pool_running, tasks, mtx, worker_pc, worker_task>>

WorkersOf(p) == {w \in Worker : PoolOfWorker[w] = p}

(* TaskScheduler::init: the CPU pool and one for each GPU found. *)
PoolInit ==
  /\ exists = Pool
  /\ pool_running = [p \in Pool |-> TRUE]
  /\ tasks = [p \in Pool |-> <<>>]
  /\ mtx = [p \in Pool |-> NoWorker]
  /\ worker_pc = [w \in Worker |-> "loop"]
  /\ worker_task = [w \in Worker |-> NoTask]

(* getComputePool: a GPU the machine has not got falls back to the CPU. *)
PoolFor(gpu_id) == IF gpu_id < 0 \/ gpu_id >= GpuCount THEN Cpu ELSE gpu_id

(* enqueue refuses (throws) once running_ is clear. *)
Accepts(p) == p \in exists /\ pool_running[p]

-----------------------------------------------------------------------------
(* A worker, holding mtx_, tests the predicate of cv_.wait. *)

Pops(w) == LET p == PoolOfWorker[w] IN
  /\ worker_pc[w] = "loop" /\ mtx[p] = NoWorker
  /\ tasks[p] # <<>>
  /\ worker_task' = [worker_task EXCEPT ![w] = Head(tasks[p])]
  /\ tasks' = [tasks EXCEPT ![p] = Tail(@)]
  /\ worker_pc' = [worker_pc EXCEPT ![w] = "run"]
  /\ UNCHANGED <<exists, pool_running, mtx>>

(* Mutant: a stopped pool's worker leaves without a look at the queue. *)
EndsWithWork(w) == LET p == PoolOfWorker[w] IN
  /\ worker_pc[w] = "loop" /\ mtx[p] = NoWorker
  /\ ~pool_running[p]
  /\ worker_pc' = [worker_pc EXCEPT ![w] = "ended"]
  /\ UNCHANGED <<exists, pool_running, tasks, mtx, worker_task>>

Ends(w) == LET p == PoolOfWorker[w] IN
  /\ worker_pc[w] = "loop" /\ mtx[p] = NoWorker
  /\ tasks[p] = <<>> /\ ~pool_running[p]
  /\ worker_pc' = [worker_pc EXCEPT ![w] = "ended"]
  /\ UNCHANGED <<exists, pool_running, tasks, mtx, worker_task>>

FindsNothing(w) == LET p == PoolOfWorker[w] IN
  /\ worker_pc[w] = "loop" /\ mtx[p] = NoWorker
  /\ tasks[p] = <<>> /\ pool_running[p]
  /\ mtx' = [mtx EXCEPT ![p] = w]
  /\ worker_pc' = [worker_pc EXCEPT ![w] = "blocks"]
  /\ UNCHANGED <<exists, pool_running, tasks, worker_task>>

(* cv_.wait releases mtx_ and blocks in one step. *)
Blocks(w) ==
  /\ worker_pc[w] = "blocks"
  /\ mtx' = [mtx EXCEPT ![PoolOfWorker[w]] = NoWorker]
  /\ worker_pc' = [worker_pc EXCEPT ![w] = "asleep"]
  /\ UNCHANGED <<exists, pool_running, tasks, worker_task>>

(* The task, which may not throw out of the worker, moves to its next step *)
(* or returns.                                                             *)
Moves(w, from, to) ==
  /\ worker_pc[w] = from
  /\ worker_pc' = [worker_pc EXCEPT ![w] = to]
  /\ UNCHANGED <<exists, pool_running, tasks, mtx, worker_task>>

Returns(w, from) ==
  /\ worker_pc[w] = from
  /\ worker_pc' = [worker_pc EXCEPT ![w] = "loop"]
  /\ worker_task' = [worker_task EXCEPT ![w] = NoTask]
  /\ UNCHANGED <<exists, pool_running, tasks, mtx>>

-----------------------------------------------------------------------------
(* enqueue: the push, under mtx_, of a task the pool accepts. *)
Push(p, task) ==
  /\ mtx[p] = NoWorker
  /\ tasks' = IF Accepts(p) THEN [tasks EXCEPT ![p] = Append(@, task)] ELSE tasks
  /\ UNCHANGED <<exists, pool_running, mtx, worker_pc, worker_task>>

(* cv_.notify_one, after the unlock: one sleeper, if there is one. *)
NotifyOne(p) == LET sleepers == {w \in WorkersOf(p) : worker_pc[w] = "asleep"} IN
  /\ IF sleepers = {}
       THEN UNCHANGED worker_pc
       ELSE \E w \in sleepers : worker_pc' = [worker_pc EXCEPT ![w] = "loop"]
  /\ UNCHANGED <<exists, pool_running, tasks, mtx, worker_task>>

(* ~ThreadPool: running_ is cleared under mtx_, all are notified, joined. *)

(* Mutant: without mtx_. *)
ClearRunningUnlocked(p) ==
  /\ pool_running[p]
  /\ pool_running' = [pool_running EXCEPT ![p] = FALSE]
  /\ UNCHANGED <<exists, tasks, mtx, worker_pc, worker_task>>

ClearRunning(p) ==
  /\ pool_running[p] /\ mtx[p] = NoWorker
  /\ pool_running' = [pool_running EXCEPT ![p] = FALSE]
  /\ UNCHANGED <<exists, tasks, mtx, worker_pc, worker_task>>

NotifyAll(p) ==
  /\ worker_pc' = [w \in Worker |->
       IF w \in WorkersOf(p) /\ worker_pc[w] = "asleep" THEN "loop" ELSE worker_pc[w]]
  /\ UNCHANGED <<exists, pool_running, tasks, mtx, worker_task>>

Joined(p) ==
  /\ \A w \in WorkersOf(p) : worker_pc[w] = "ended"
  /\ exists' = exists \ {p}
  /\ UNCHANGED <<pool_running, tasks, mtx, worker_pc, worker_task>>
=============================================================================
