------------------------- MODULE StreamServiceProofs -------------------------
(***************************************************************************)
(* Proofs about StreamService, for any sets of addresses, of identifiers   *)
(* and of handlers and any number of updates: the inductive invariant IInv *)
(* and the safety properties it implies.                                   *)
(***************************************************************************)
EXTENDS StreamService, FiniteSetTheorems, TLAPS

(* Who is about to call stop() on a stream owns it: the stream has left    *)
(* the registry and no other thread is about to stop it.                   *)
RemovalInv ==
  /\ tasks_to_stop \cap streams = {}
  /\ \A h \in Handler : pc[h] = "stopping" =>
       /\ arg_id[h] \notin streams /\ arg_id[h] \notin tasks_to_stop
       /\ \A g \in Handler \ {h} :
            pc[g] = "stopping" => arg_id[g] # arg_id[h]

(* A stream that StartStream has built and not yet inserted is known to    *)
(* its own handler only.                                                   *)
FreshInv ==
  \A h \in Handler : pc[h] = "inserting" =>
    /\ arg_id[h] \notin streams /\ arg_id[h] \notin tasks_to_stop
    /\ \A u \in Url : url_to_id[u] # arg_id[h]
    /\ \A g \in Handler \ {h} : arg_id[g] # arg_id[h]

(* Without an update a stream plays the address it was built for.          *)
Untouched ==
  /\ \A i \in Id : ~task[i].url_changed /\ ~task[i].decoder_changed
  /\ \A h \in Handler :
       /\ pc[h] \notin {"comparing", "switching", "updating", "erasing"}
       /\ pc[h] = "inserting" => task[arg_id[h]].url = arg_url[h]

UntouchedInv == updates = 0 => Untouched

(* The order of the shutdown: first the handlers, then the clean-up        *)
(* thread, then the streams.                                               *)
ShutdownInv ==
  /\ main_pc \in {"joining", "down"} => \A h \in Handler : pc[h] = "idle"
  /\ cleaner_pc = "done" =>
       main_pc \in {"joining", "down"} /\ tasks_to_stop = {}
  /\ main_pc = "down" => cleaner_pc = "done" /\ running \cap streams = {}

IInv == /\ TypeOK /\ RemovalInv /\ FreshInv /\ UntouchedInv /\ IndexExact
        /\ ShutdownInv

-----------------------------------------------------------------------------
(* The initial state satisfies every part of the inductive invariant. *)
LEMMA InitIInv == Init => IInv
<1> SUFFICES ASSUME Init PROVE IInv
  OBVIOUS
<1>1. AnyUrl \in Url
  BY UrlAssumption DEF AnyUrl
<1>2. NewTask(AnyUrl) \in TaskState
  BY <1>1 DEF NewTask, TaskState, KindOf
<1>3. TypeOK
  BY <1>1, <1>2, BoundAssumption DEF Init, TypeOK, HandlerState
<1>4. RemovalInv /\ FreshInv /\ ShutdownInv
  BY DEF Init, RemovalInv, FreshInv, ShutdownInv
<1>5. UntouchedInv /\ IndexExact
  BY IdAssumption DEF Init, UntouchedInv, IndexExact, NewTask,
     Untouched
<1> QED
  BY <1>3, <1>4, <1>5 DEF IInv

-----------------------------------------------------------------------------
(* Both maps, the streams and the threads keep their types. *)
LEMMA TypeStep == TypeOK /\ [Next]_vars => TypeOK'
<1> SUFFICES ASSUME TypeOK, [Next]_vars PROVE TypeOK'
  OBVIOUS
<1> USE DEF TypeOK, HandlerState, Goto, registry, tasks, flags, handlers, cleaner
<1>1. AnyUrl \in Url
  BY UrlAssumption DEF AnyUrl
<1>2. ASSUME NEW us PROVE Unindex(us) \in [Url -> built \cup {NoId}]
  BY DEF Unindex
<1>3. ASSUME NEW u \in Url PROVE NewTask(u) \in TaskState
  BY DEF NewTask, TaskState, KindOf
<1>4. ASSUME NEW h \in Handler, Request(h) PROVE TypeOK'
  <2>1. CASE StartStream(h)
    BY <2>1 DEF StartStream, StartMisses, StartFindsDangling, Accept
  <2>2. ASSUME NEW i \in Id, StopStream(h, i) PROVE TypeOK'
    BY <2>2, <1>2, IdAssumption DEF StopStream, Accept
  <2>3. ASSUME NEW i \in Id, Watch(h, i) PROVE TypeOK'
    BY <2>3, IdAssumption DEF Watch, Accept
  <2>4. ASSUME NEW i \in Id, NEW u \in Url, UpdateStream(h, i, u) PROVE TypeOK'
    <3>1. url_to_id' \in [Url -> built \cup {NoId}]
      BY <2>4, <1>2 DEF UpdateStream
    <3>2. updates' \in 0..MaxUpdates
      BY <2>4, BoundAssumption DEF UpdateStream
    <3> QED
      BY <2>4, <3>1, <3>2, IdAssumption DEF UpdateStream, Accept
  <2> QED
    BY <1>4, <2>1, <2>2, <2>3, <2>4 DEF Request
<1>5. ASSUME NEW h \in Handler, StartStep(h) PROVE TypeOK'
  <2>1. CASE EraseDangling(h)
    BY <2>1, <1>2 DEF EraseDangling
  <2>2. CASE Build(h)
    <3>1. task' \in [Id -> TaskState]
      BY <2>2, <1>3 DEF Build
    <3> QED
      BY <2>2, <3>1, IdAssumption DEF Build
  <2>3. CASE Insert(h)
    BY <2>3 DEF Insert
  <2>4. CASE InsertLoses(h)
    BY <2>4, <1>1 DEF InsertLoses, Reply
  <2>5. CASE StartRun(h) \/ StartReset(h)
    BY <2>5, <1>1 DEF StartRun, StartReset, Reply
  <2> QED
    BY <1>5, <2>1, <2>2, <2>3, <2>4, <2>5 DEF StartStep
<1>6. ASSUME NEW h \in Handler,
             StopTask(h) \/ WatchSeesStop(h) \/ WatchCancelled(h)
      PROVE  TypeOK'
  BY <1>6, <1>1 DEF StopTask, StopTasks, WatchSeesStop, WatchCancelled, Reply
<1>7. ASSUME NEW h \in Handler, UpdateStep(h) PROVE TypeOK'
  <2>1. task' \in [Id -> TaskState]
    <3> DEFINE Switched(t, u) == [t EXCEPT !.pending_url = u,
                                           !.pending_kind = KindOf(u),
                                           !.decoder_changed = TRUE]
               Moved(t, u) == [t EXCEPT !.pending_url = u, !.url_changed = TRUE]
    <3>1. ASSUME NEW t \in TaskState, NEW u \in Url
          PROVE  Switched(t, u) \in TaskState /\ Moved(t, u) \in TaskState
      BY <3>1 DEF TaskState, KindOf
    <3>2. \/ task' = task
          \/ task' = [task EXCEPT ![arg_id[h]] =
                        Switched(task[arg_id[h]], arg_url[h])]
          \/ task' = [task EXCEPT ![arg_id[h]] =
                        Moved(task[arg_id[h]], arg_url[h])]
      BY <1>7, Zenon DEF UpdateStep, UpdateCompare, SwitchDecoder, UpdateUrl
    <3>3. arg_id[h] \in Id /\ task[arg_id[h]] \in TaskState
          /\ arg_url[h] \in Url
      <4>1. pc[h] \in {"comparing", "switching", "updating"}
        BY <1>7, Zenon DEF UpdateStep, UpdateCompare, SwitchDecoder, UpdateUrl,
           Reply
      <4> QED
        BY <4>1, IdAssumption
    <3> HIDE DEF Switched, Moved
    <3>4. /\ Switched(task[arg_id[h]], arg_url[h]) \in TaskState
          /\ Moved(task[arg_id[h]], arg_url[h]) \in TaskState
      BY <3>1, <3>3
    <3>5. task \in [Id -> TaskState]
      OBVIOUS
    <3> QED
      BY <3>2, <3>4, <3>5
  <2> QED
    BY <1>7, <2>1, <1>1 DEF UpdateStep, UpdateCompare, SwitchDecoder, UpdateUrl,
       Reply
<1>8. ASSUME NEW i \in Id, ApplyUpdate(i) PROVE TypeOK'
  <2>1. task' \in [Id -> TaskState]
    <3> DEFINE Applied(t) ==
                 [t EXCEPT !.url = task[i].pending_url,
                           !.kind = IF task[i].decoder_changed
                                      THEN task[i].pending_kind
                                      ELSE task[i].kind,
                           !.url_changed = FALSE, !.decoder_changed = FALSE]
    <3>1. Applied(task[i]) \in TaskState
      <4>1. task[i] \in TaskState
        OBVIOUS
      <4> QED
        BY <4>1 DEF TaskState
    <3>2. task' = [task EXCEPT ![i] = Applied(task[i])]
      BY <1>8, Zenon DEF ApplyUpdate
    <3> HIDE DEF Applied
    <3> QED
      BY <3>1, <3>2
  <2> QED
    BY <1>8, <2>1 DEF ApplyUpdate
<1>9. ASSUME NEW i \in Id, GiveUp(i) \/ GaveUp(i) PROVE TypeOK'
  BY <1>9 DEF GiveUp, GaveUp, Looping
<1>10. CASE Cleaner
  BY <1>10, <1>2, ZenonT(60) DEF Cleaner, CleanPass, CleanStop, CleanDone, StopTasks
<1>11. CASE MainShutdown \/ MainStep
  BY <1>11 DEF MainShutdown, MainStep, MainDrained, MainStops, StopTasks
<1>12. CASE UNCHANGED vars
  BY <1>12 DEF vars
<1> QED
  BY <1>4, <1>5, <1>6, <1>7, <1>8, <1>9, <1>10, <1>11, <1>12 DEF Next, Progress

-----------------------------------------------------------------------------
(* A handler only moves itself, and never the clean-up thread or main(). *)
LEMMA HandlerFrame ==
  ASSUME TypeOK, NEW h \in Handler,
         Request(h) \/ Progress(h) \/ WatchCancelled(h)
  PROVE  /\ \A g \in Handler \ {h} : pc'[g] = pc[g] /\ arg_id'[g] = arg_id[g]
                                     /\ arg_url'[g] = arg_url[g]
         /\ UNCHANGED <<cleaner_pc, tasks_to_stop, main_pc>>
         /\ pc[h] = "idle" => main_pc = "serving"
         /\ running' \subseteq running \cup {arg_id[h]}
<1> USE DEF TypeOK, registry, tasks, flags, handlers, cleaner, Goto, Accept, Reply
<1>1. CASE Request(h)
  <2>1. CASE StartStream(h)
    BY <2>1 DEF StartStream, StartMisses, StartFindsDangling
  <2>2. ASSUME NEW i \in Id, StopStream(h, i) \/ Watch(h, i)
        PROVE  /\ \A g \in Handler \ {h} : pc'[g] = pc[g]
                    /\ arg_id'[g] = arg_id[g] /\ arg_url'[g] = arg_url[g]
               /\ UNCHANGED <<cleaner_pc, tasks_to_stop, main_pc, running>>
               /\ main_pc = "serving"
    BY <2>2 DEF StopStream, Watch
  <2>3. ASSUME NEW i \in Id, NEW u \in Url, UpdateStream(h, i, u)
        PROVE  /\ \A g \in Handler \ {h} : pc'[g] = pc[g]
                    /\ arg_id'[g] = arg_id[g] /\ arg_url'[g] = arg_url[g]
               /\ UNCHANGED <<cleaner_pc, tasks_to_stop, main_pc, running>>
               /\ main_pc = "serving"
    BY <2>3 DEF UpdateStream
  <2> QED
    BY <1>1, <2>1, <2>2, <2>3 DEF Request
<1>2. CASE StartStep(h)
  BY <1>2 DEF StartStep, EraseDangling, Build, Insert, InsertLoses, StartRun,
     StartReset
<1>3. CASE UpdateStep(h)
  <2>1. /\ \/ /\ Goto(h, "comparing", IF KindOf(arg_url[h]) # task[arg_id[h]].kind
                                       THEN "switching" ELSE "updating")
              /\ UNCHANGED <<arg_url, arg_id>>
           \/ Reply(h, "switching") \/ Reply(h, "updating")
        /\ UNCHANGED <<cleaner_pc, tasks_to_stop, main_pc, running>>
    BY <1>3, Zenon DEF UpdateStep, UpdateCompare, SwitchDecoder, UpdateUrl
  <2> QED
    BY <2>1
<1>4. CASE StopTask(h) \/ WatchSeesStop(h) \/ WatchCancelled(h)
  BY <1>4 DEF StopTask, StopTasks, WatchSeesStop, WatchCancelled
<1> QED
  BY <1>1, <1>2, <1>3, <1>4 DEF Progress

(* The streams' own threads and main() only touch flags and main_pc; the   *)
(* streams' threads also what is pending.                                  *)
LEMMA ThreadFrame ==
  ASSUME NEW i \in Id, ApplyUpdate(i) \/ GiveUp(i) \/ GaveUp(i)
  PROVE  /\ UNCHANGED <<streams, url_to_id, built, pc, arg_url, arg_id,
                        cleaner_pc, tasks_to_stop, main_pc, updates>>
         /\ running' \subseteq running
         /\ UNCHANGED task \/ ApplyUpdate(i)
BY Zenon DEF ApplyUpdate, GiveUp, GaveUp, registry, tasks, flags, handlers, cleaner

(* main() waits for every handler, then for the clean-up thread. *)
LEMMA ShutdownStep == IInv /\ [Next]_vars => ShutdownInv'
<1> SUFFICES ASSUME IInv, [Next]_vars PROVE ShutdownInv'
  OBVIOUS
<1> USE DEF IInv, ShutdownInv
<1>1. ASSUME NEW h \in Handler, Request(h) \/ Progress(h) \/ WatchCancelled(h)
      PROVE  ShutdownInv'
  <2>1. main_pc \notin {"joining", "down"}
    <3>1. pc[h] = "idle" => main_pc = "serving"
      BY <1>1, HandlerFrame
    <3> QED
      BY <3>1
  <2> QED
    BY <1>1, <2>1, HandlerFrame
<1>2. ASSUME NEW i \in Id, ApplyUpdate(i) \/ GiveUp(i) \/ GaveUp(i)
      PROVE  ShutdownInv'
  BY <1>2, ThreadFrame
<1> USE DEF registry, tasks, flags, handlers, cleaner, StopTasks
<1>3. CASE Cleaner
  BY <1>3 DEF Cleaner, CleanPass, CleanStop, CleanDone
<1>4. CASE MainShutdown \/ MainStep
  BY <1>4 DEF MainShutdown, MainStep, MainDrained, MainStops
<1>5. CASE UNCHANGED vars
  BY <1>5 DEF vars
<1> QED
  BY <1>1, <1>2, <1>3, <1>4, <1>5 DEF Next

(* A stream is taken out of the registry under the lock by the thread that *)
(* is going to stop it, and no stream enters it a second time.             *)
LEMMA RemovalStep == IInv /\ [Next]_vars => RemovalInv'
<1> SUFFICES ASSUME IInv, [Next]_vars PROVE RemovalInv'
  OBVIOUS
<1> USE DEF IInv, TypeOK, RemovalInv, FreshInv, registry, tasks, flags, handlers,
        cleaner, Goto, Accept, Reply
<1>1. ASSUME NEW h \in Handler, Request(h) PROVE RemovalInv'
  <2>1. CASE StartStream(h)
    BY <2>1 DEF StartStream, StartMisses, StartFindsDangling
  <2>2. ASSUME NEW i \in Id, StopStream(h, i) PROVE RemovalInv'
    BY <2>2 DEF StopStream
  <2>3. ASSUME NEW i \in Id, Watch(h, i) PROVE RemovalInv'
    BY <2>3 DEF Watch
  <2>4. ASSUME NEW i \in Id, NEW u \in Url, UpdateStream(h, i, u)
        PROVE  RemovalInv'
    BY <2>4 DEF UpdateStream
  <2> QED
    BY <1>1, <2>1, <2>2, <2>3, <2>4 DEF Request
<1>2. ASSUME NEW h \in Handler, StartStep(h) PROVE RemovalInv'
  <2>1. CASE Insert(h)
    BY <2>1 DEF Insert
  <2>2. CASE EraseDangling(h) \/ Build(h) \/ InsertLoses(h) \/ StartRun(h)
             \/ StartReset(h)
    BY <2>2 DEF EraseDangling, Build, InsertLoses, StartRun, StartReset
  <2> QED
    BY <1>2, <2>1, <2>2 DEF StartStep
<1>3. ASSUME NEW h \in Handler,
             StopTask(h) \/ WatchSeesStop(h) \/ WatchCancelled(h)
      PROVE  RemovalInv'
  BY <1>3 DEF StopTask, StopTasks, WatchSeesStop, WatchCancelled
<1>4. ASSUME NEW h \in Handler, UpdateStep(h) PROVE RemovalInv'
  <2>1. /\ \/ /\ Goto(h, "comparing",
                      IF KindOf(arg_url[h]) # task[arg_id[h]].kind
                        THEN "switching" ELSE "updating")
              /\ UNCHANGED arg_id
           \/ Reply(h, "switching") \/ Reply(h, "updating")
        /\ UNCHANGED <<streams, tasks_to_stop>>
    BY <1>4, Zenon DEF UpdateStep, UpdateCompare, SwitchDecoder, UpdateUrl
  <2> QED
    BY <2>1
<1>5. ASSUME NEW i \in Id, ApplyUpdate(i) \/ GiveUp(i) \/ GaveUp(i)
      PROVE  RemovalInv'
  BY <1>5, ThreadFrame
<1>6. CASE Cleaner
  BY <1>6 DEF Cleaner, CleanPass, CleanStop, CleanDone
<1>7. CASE MainShutdown \/ MainStep
  BY <1>7 DEF MainShutdown, MainStep, MainDrained, MainStops
<1>8. CASE UNCHANGED vars
  BY <1>8 DEF vars
<1> QED
  BY <1>1, <1>2, <1>3, <1>4, <1>5, <1>6, <1>7, <1>8 DEF Next, Progress

(* A new identifier reaches nobody before its stream is inserted. *)
LEMMA FreshStep == IInv /\ [Next]_vars => FreshInv'
<1> SUFFICES ASSUME IInv, [Next]_vars PROVE FreshInv'
  OBVIOUS
<1> USE IdAssumption DEF IInv, TypeOK, FreshInv, registry, tasks, flags,
        handlers, cleaner, Goto, Accept, Reply
<1>1. ASSUME NEW us PROVE \A u \in Url : Unindex(us)[u] \in {NoId, url_to_id[u]}
  BY DEF Unindex
<1>2. ASSUME NEW h \in Handler, Request(h) PROVE FreshInv'
  <2>1. CASE StartStream(h)
    BY <2>1 DEF StartStream, StartMisses, StartFindsDangling
  <2>2. ASSUME NEW i \in Id, StopStream(h, i) PROVE FreshInv'
    BY <2>2, <1>1 DEF StopStream
  <2>3. ASSUME NEW i \in Id, Watch(h, i) PROVE FreshInv'
    BY <2>3 DEF Watch
  <2>4. ASSUME NEW i \in Id, NEW u \in Url, UpdateStream(h, i, u)
        PROVE  FreshInv'
    <3>1. \A v \in Url : url_to_id'[v] \in {NoId, i, url_to_id[v]}
      BY <2>4 DEF UpdateStream, Unindex
    <3>2. /\ pc'[h] = "comparing" /\ arg_id'[h] = i /\ i \in streams
          /\ \A g \in Handler \ {h} : pc'[g] = pc[g] /\ arg_id'[g] = arg_id[g]
          /\ UNCHANGED <<streams, tasks_to_stop>>
      BY <2>4 DEF UpdateStream
    <3>3. ASSUME NEW g \in Handler, pc'[g] = "inserting"
          PROVE  /\ g # h /\ pc[g] = "inserting" /\ arg_id'[g] = arg_id[g]
                 /\ arg_id[g] # i
                 /\ \A v \in Url : url_to_id'[v] # arg_id[g]
      <4>1. g # h /\ pc[g] = "inserting" /\ arg_id'[g] = arg_id[g] /\ arg_id[g] # i
        BY <3>2, <3>3
      <4>2. arg_id[g] # NoId
        BY <4>1
      <4>3. \A v \in Url : url_to_id[v] # arg_id[g]
        BY <4>1
      <4> QED
        BY <3>1, <4>1, <4>2, <4>3
    <3> QED
      BY <3>2, <3>3
  <2> QED
    BY <1>2, <2>1, <2>2, <2>3, <2>4 DEF Request
<1>3. ASSUME NEW h \in Handler, StartStep(h) PROVE FreshInv'
  <2>1. CASE EraseDangling(h)
    BY <2>1, <1>1 DEF EraseDangling
  <2>2. CASE Build(h)
    BY <2>2 DEF Build
  <2>3. CASE Insert(h)
    BY <2>3 DEF Insert
  <2>4. CASE InsertLoses(h) \/ StartRun(h) \/ StartReset(h)
    BY <2>4 DEF InsertLoses, StartRun, StartReset
  <2> QED
    BY <1>3, <2>1, <2>2, <2>3, <2>4 DEF StartStep
<1>4. ASSUME NEW h \in Handler,
             StopTask(h) \/ WatchSeesStop(h) \/ WatchCancelled(h)
      PROVE  FreshInv'
  BY <1>4 DEF StopTask, StopTasks, WatchSeesStop, WatchCancelled
<1>5. ASSUME NEW h \in Handler, UpdateStep(h) PROVE FreshInv'
  <2>1. /\ \/ /\ Goto(h, "comparing",
                      IF KindOf(arg_url[h]) # task[arg_id[h]].kind
                        THEN "switching" ELSE "updating")
              /\ UNCHANGED arg_id
           \/ Reply(h, "switching") \/ Reply(h, "updating")
        /\ UNCHANGED <<streams, url_to_id, tasks_to_stop>>
    BY <1>5, Zenon DEF UpdateStep, UpdateCompare, SwitchDecoder, UpdateUrl
  <2> QED
    BY <2>1
<1>6. ASSUME NEW i \in Id, ApplyUpdate(i) \/ GiveUp(i) \/ GaveUp(i)
      PROVE  FreshInv'
  BY <1>6, ThreadFrame
<1>7. CASE Cleaner
  <2>1. /\ streams' \subseteq streams
        /\ tasks_to_stop' \subseteq streams \cup tasks_to_stop
        /\ \A u \in Url : url_to_id'[u] \in {NoId, url_to_id[u]}
        /\ UNCHANGED <<pc, arg_id>>
    BY <1>7, <1>1 DEF Cleaner, CleanPass, CleanStop, CleanDone
  <2> QED
    BY <2>1
<1>8. CASE MainShutdown \/ MainStep
  BY <1>8 DEF MainShutdown, MainStep, MainDrained, MainStops
<1>9. CASE UNCHANGED vars
  BY <1>9 DEF vars
<1> QED
  BY <1>2, <1>3, <1>4, <1>5, <1>6, <1>7, <1>8, <1>9 DEF Next, Progress

(* As long as no UpdateStream was accepted nothing but a constructor writes *)
(* to a stream, and no dangling entry is met.                              *)
LEMMA UntouchedStep == IInv /\ [Next]_vars => UntouchedInv'
<1> SUFFICES ASSUME IInv, [Next]_vars, updates' = 0
             PROVE  Untouched'
  BY DEF UntouchedInv
<1> USE DEF IInv, TypeOK, UntouchedInv, Untouched, registry, tasks, flags,
        handlers, cleaner, Goto, Accept, Reply
<1>1. ASSUME NEW h \in Handler, Request(h) PROVE Untouched'
  <2>1. CASE StartStream(h)
    <3>1. ASSUME NEW u \in Url, StartFindsDangling(h, u) PROVE FALSE
      BY <3>1, IdAssumption DEF StartFindsDangling, IndexExact
    <3> QED
      BY <2>1, <3>1 DEF StartStream, StartMisses
  <2>2. ASSUME NEW i \in Id, StopStream(h, i) \/ Watch(h, i)
        PROVE  Untouched'
    BY <2>2 DEF StopStream, Watch
  <2>3. ASSUME NEW i \in Id, NEW u \in Url, UpdateStream(h, i, u)
        PROVE  FALSE
    BY <2>3 DEF UpdateStream
  <2> QED
    BY <1>1, <2>1, <2>2, <2>3 DEF Request
<1>2. ASSUME NEW h \in Handler, StartStep(h) PROVE Untouched'
  <2>1. CASE Build(h)
    BY <2>1, IdAssumption DEF Build, NewTask, FreshInv
  <2>2. CASE EraseDangling(h) \/ Insert(h) \/ InsertLoses(h) \/ StartRun(h)
             \/ StartReset(h)
    BY <2>2 DEF EraseDangling, Insert, InsertLoses, StartRun, StartReset
  <2> QED
    BY <1>2, <2>1, <2>2 DEF StartStep
<1>3. ASSUME NEW h \in Handler,
             StopTask(h) \/ WatchSeesStop(h) \/ WatchCancelled(h)
      PROVE  Untouched'
  BY <1>3 DEF StopTask, StopTasks, WatchSeesStop, WatchCancelled
<1>4. ASSUME NEW h \in Handler, UpdateStep(h) PROVE FALSE
  <2>1. pc[h] \in {"comparing", "switching", "updating"} /\ updates = updates'
    BY <1>4, Zenon DEF UpdateStep, UpdateCompare, SwitchDecoder, UpdateUrl
  <2> QED
    BY <2>1
<1>5. ASSUME NEW i \in Id, ApplyUpdate(i) \/ GiveUp(i) \/ GaveUp(i)
      PROVE  Untouched'
  <2>1. ~ApplyUpdate(i)
    BY Zenon DEF ApplyUpdate
  <2> QED
    BY <1>5, <2>1, ThreadFrame
<1>6. CASE Cleaner
  BY <1>6 DEF Cleaner, CleanPass, CleanStop, CleanDone
<1>7. CASE MainShutdown \/ MainStep
  BY <1>7 DEF MainShutdown, MainStep, MainDrained, MainStops
<1>8. CASE UNCHANGED vars
  BY <1>8 DEF vars
<1> QED
  BY <1>1, <1>2, <1>3, <1>4, <1>5, <1>6, <1>7, <1>8 DEF Next, Progress

(* Index and registry change together: what is inserted was free, what is  *)
(* erased is erased at the address it plays.                               *)
LEMMA IndexStep == IInv /\ [Next]_vars => IndexExact'
<1> DEFINE Exact == \A i \in Id, u \in Url :
                      url_to_id[u] = i <=> (i \in streams /\ task[i].url = u)
<1> SUFFICES ASSUME IInv, [Next]_vars, updates' = 0
             PROVE  Exact'
  BY DEF IndexExact
<1>a. ASSUME updates = 0 PROVE Exact /\ Untouched
  BY <1>a DEF IInv, IndexExact, UntouchedInv
<1>b. NoId \notin Id /\ streams \subseteq Id /\ built \subseteq Id
      /\ streams \subseteq built
      /\ url_to_id \in [Url -> built \cup {NoId}]
      /\ arg_url \in [Handler -> Url]
      /\ \A h \in Handler : pc[h] = "inserting" => arg_id[h] \in Id
  BY IdAssumption DEF IInv, TypeOK
<1>c. ASSUME NEW gone \in SUBSET streams, Exact, UNCHANGED task,
             streams' = streams \ gone,
             \A u \in Url : url_to_id'[u] =
               IF \E j \in gone : task[j].url = u THEN NoId ELSE url_to_id[u]
      PROVE  Exact'
  <2> SUFFICES ASSUME NEW i \in Id, NEW u \in Url
               PROVE  url_to_id'[u] = i <=> (i \in streams' /\ task[i].url = u)
    BY <1>c
  <2>1. url_to_id'[u] = IF \E j \in gone : task[j].url = u THEN NoId
                                                            ELSE url_to_id[u]
    BY <1>c
  <2>2. CASE i \in gone /\ task[i].url = u
    BY <2>1, <2>2, <1>b, <1>c
  <2>3. CASE \E j \in gone : j # i /\ task[j].url = u
    <3>1. PICK j \in gone : j # i /\ task[j].url = u
      BY <2>3
    <3>2. url_to_id[u] = j
      BY <3>1, <1>b, <1>c
    <3> QED
      BY <2>1, <3>1, <3>2, <1>b, <1>c
  <2>4. CASE \A j \in gone : task[j].url # u
    BY <2>1, <2>4, <1>b, <1>c
  <2> QED
    BY <2>2, <2>3, <2>4
<1> USE DEF registry, tasks, flags, handlers, cleaner, Goto, Accept, Reply
<1>1. ASSUME NEW h \in Handler, Request(h) PROVE Exact'
  <2>1. CASE StartStream(h)
    BY <2>1, <1>a DEF StartStream, StartMisses, StartFindsDangling
  <2>2. ASSUME NEW i \in Id, StopStream(h, i) PROVE Exact'
    <3>1. Exact /\ {i} \in SUBSET streams /\ UNCHANGED task
          /\ streams' = streams \ {i}
      BY <2>2, <1>a DEF StopStream
    <3>2. \A u \in Url : url_to_id'[u] =
            IF \E j \in {i} : task[j].url = u THEN NoId ELSE url_to_id[u]
      BY <2>2 DEF StopStream, Unindex
    <3> QED
      BY <3>1, <3>2, <1>c
  <2>3. ASSUME NEW i \in Id, Watch(h, i) PROVE Exact'
    BY <2>3, <1>a DEF Watch
  <2>4. ASSUME NEW i \in Id, NEW u \in Url, UpdateStream(h, i, u)
        PROVE  FALSE
    BY <2>4 DEF UpdateStream, IInv, TypeOK
  <2> QED
    BY <1>1, <2>1, <2>2, <2>3, <2>4 DEF Request
<1>2. ASSUME NEW h \in Handler, StartStep(h) PROVE Exact'
  <2>1. CASE Build(h)
    <3>1. PICK i \in Id \ built : task' = [task EXCEPT ![i] = NewTask(arg_url[h])]
      BY <2>1 DEF Build
    <3>2. UNCHANGED <<streams, url_to_id, updates>>
      BY <2>1 DEF Build
    <3>3. \A j \in Id \ {i} : task'[j] = task[j]
      BY <3>1, IdAssumption DEF IInv, TypeOK
    <3> QED
      BY <3>1, <3>2, <3>3, <1>a, <1>b
  <2>2. CASE Insert(h)
    <3>1. /\ arg_id[h] \in Id \ streams /\ arg_url[h] \in Url
          /\ task[arg_id[h]].url = arg_url[h]
          /\ Exact
      BY <2>2, <1>a, <1>b DEF Insert, IInv, FreshInv, Untouched
    <3> QED
      BY <2>2, <3>1, <1>b DEF Insert
  <2>3. CASE EraseDangling(h)
    BY <2>3, <1>a DEF EraseDangling, Untouched
  <2>4. CASE InsertLoses(h) \/ StartRun(h) \/ StartReset(h)
    BY <2>4, <1>a DEF InsertLoses, StartRun, StartReset
  <2> QED
    BY <1>2, <2>1, <2>2, <2>3, <2>4 DEF StartStep
<1>3. ASSUME NEW h \in Handler,
             StopTask(h) \/ WatchSeesStop(h) \/ WatchCancelled(h)
      PROVE  Exact'
  BY <1>3, <1>a DEF StopTask, StopTasks, WatchSeesStop, WatchCancelled
<1>4. ASSUME NEW h \in Handler, UpdateStep(h) PROVE FALSE
  <2>1. pc[h] \in {"comparing", "switching", "updating"} /\ updates = updates'
    BY <1>4, Zenon DEF UpdateStep, UpdateCompare, SwitchDecoder, UpdateUrl
  <2> QED
    BY <2>1, <1>a DEF Untouched
<1>5. ASSUME NEW i \in Id, ApplyUpdate(i) \/ GiveUp(i) \/ GaveUp(i)
      PROVE  Exact'
  <2>1. ~ApplyUpdate(i)
    BY <1>a, Zenon DEF ApplyUpdate, Untouched
  <2> QED
    BY <1>5, <2>1, <1>a, ThreadFrame
<1>6. CASE Cleaner
  <2>1. CASE CleanPass
    <3>1. PICK overdue \in SUBSET streams :
            LET gone == overdue \cup ((streams \cap stopped) \ Kept)
            IN  /\ streams' = streams \ gone
                /\ url_to_id' = Unindex({task[i].url : i \in gone})
      BY <2>1 DEF CleanPass
    <3> DEFINE gone == overdue \cup ((streams \cap stopped) \ Kept)
    <3>2. UNCHANGED task /\ Exact /\ gone \in SUBSET streams
          /\ streams' = streams \ gone
      BY <2>1, <3>1, <1>a DEF CleanPass
    <3>3. \A u \in Url : url_to_id'[u] =
            IF \E j \in gone : task[j].url = u THEN NoId ELSE url_to_id[u]
      BY <3>1 DEF Unindex
    <3> HIDE DEF gone
    <3> QED
      BY <3>2, <3>3, <1>c
  <2>2. CASE CleanStop \/ CleanDone
    BY <2>2, <1>a DEF CleanStop, CleanDone, StopTasks
  <2> QED
    BY <1>6, <2>1, <2>2 DEF Cleaner
<1>7. CASE MainShutdown \/ MainStep
  BY <1>7, <1>a DEF MainShutdown, MainStep, MainDrained, MainStops
<1>8. CASE UNCHANGED vars
  BY <1>8, <1>a DEF vars
<1> QED
  BY <1>1, <1>2, <1>3, <1>4, <1>5, <1>6, <1>7, <1>8 DEF Next, Progress

-----------------------------------------------------------------------------
(***************************************************************************)
(* The inductive invariant: removals have one owner, streams not yet       *)
(* inserted are private, the index is exact until the first update, and    *)
(* the shutdown takes its steps in order.                                  *)
(***************************************************************************)
THEOREM Invariance == Spec => []IInv
<1>1. Init => IInv
  BY InitIInv
<1>2. IInv /\ [Next]_vars => IInv'
  BY TypeStep, RemovalStep, FreshStep, UntouchedStep, IndexStep, ShutdownStep
     DEF IInv
<1> QED
  BY <1>1, <1>2, PTL DEF Spec

(* Every state of the registry and of its threads is well formed. *)
THEOREM TypeCorrect == Spec => []TypeOK
<1>1. IInv => TypeOK
  BY DEF IInv
<1> QED
  BY <1>1, Invariance, PTL

(***************************************************************************)
(* A stream is removed and stopped by one thread only, and never while it  *)
(* is registered, whatever StopStream calls and the clean-up thread do.    *)
(***************************************************************************)
THEOREM StoppedByOne == Spec => []OneRemover
<1>1. IInv => OneRemover
  <2> SUFFICES ASSUME IInv, NEW i \in Id
               PROVE  /\ Cardinality(Removers(i)) <= 1
                      /\ Removers(i) # {} => i \notin streams
    BY DEF OneRemover
  <2> USE DEF IInv, RemovalInv
  <2>1. i \in streams => Removers(i) = {}
    BY DEF Removers
  <2>2. CASE Removers(i) = {}
    BY <2>2, FS_EmptySet
  <2>3. CASE Removers(i) # {}
    <3>1. PICK r \in Removers(i) : TRUE
      BY <2>3
    <3>2. \A s \in Removers(i) : s = r
      BY <3>1 DEF Removers
    <3>3. Removers(i) = {r}
      BY <3>1, <3>2
    <3> QED
      BY <2>1, <2>3, <3>3, FS_Singleton
  <2> QED
    BY <2>2, <2>3
<1> QED
  BY <1>1, Invariance, PTL

(***************************************************************************)
(* Until the first update the index of StartStream is exact, although      *)
(* look-up, construction and insertion of a stream are separate steps.     *)
(***************************************************************************)
THEOREM IndexIsExact == Spec => []IndexExact
<1>1. IInv => IndexExact
  BY DEF IInv
<1> QED
  BY <1>1, Invariance, PTL

(***************************************************************************)
(* When main() has destroyed the service no handler and no clean-up pass   *)
(* is left, and no registered stream runs.                                 *)
(***************************************************************************)
THEOREM QuietAfterShutdown == Spec => []QuietWhenDown
<1>1. IInv => QuietWhenDown
  BY DEF IInv, ShutdownInv, QuietWhenDown
<1> QED
  BY <1>1, Invariance, PTL

=============================================================================
