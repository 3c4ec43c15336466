---------------------------- MODULE StreamService ----------------------------
(***************************************************************************)
(* The stream registry of the server: class RTSPServiceImpl                *)
(* (src/rtsp_service.cpp) and the way main() takes it down.  gRPC handlers *)
(* start, stop, update and watch streams; a clean-up thread removes the    *)
(* streams that gave up or timed out; the IO thread of each stream applies *)
(* pending updates and gives up.  A step is one critical section of        *)
(* map_mutex_, one call on a stream made outside it, or one step of a      *)
(* stream's own thread.                                                    *)
(*                                                                         *)
(* A stream is what the service can see of it; class StreamTask is the     *)
(* subject of module StreamTask.  stop() is taken to return.  Heartbeats   *)
(* are abstracted: any registered stream may time out at any clean-up.     *)
(* The build has the Hikvision SDK, so DecoderFactory never falls back.    *)
(***************************************************************************)
EXTENDS Naturals, FiniteSets

CONSTANTS
  Url,         (* stream addresses                                           *)
  HikUrl,      (* those of them that parse as hik://                         *)
  Id,          (* the identifiers generate_uuid() will hand out              *)
  Kept,        (* those of streams requested with keep_on_failure            *)
  NoId,        (* url_to_id_ has no entry                                    *)
  Handler,     (* gRPC threads                                               *)
  MaxUpdates   (* bound on the number of accepted UpdateStream calls         *)

ASSUME UrlAssumption == Url # {} /\ HikUrl \subseteq Url
ASSUME IdAssumption == Kept \subseteq Id /\ NoId \notin Id
ASSUME BoundAssumption == MaxUpdates \in Nat

(* The class of decoder an address needs. *)
KindOf(u) == IF u \in HikUrl THEN "hik" ELSE "rtsp"

VARIABLES
  streams,          (* keys of streams_                                      *)
  url_to_id,        (* url_to_id_                                            *)
  built,            (* streams constructed so far                            *)
  task,             (* per stream: addresses and decoder class, now and      *)
                    (* pending                                               *)
  running,          (* streams with running_                                 *)
  stopped,          (* streams with stopped_                                 *)
  giving_up,        (* streams whose IO thread is inside its own stop()      *)
  pc,               (* progress of each handler                              *)
  arg_url,          (* the address its request names                         *)
  arg_id,           (* the stream it works on                                *)
  cleaner_pc,       (* progress of cleanupLoop()                             *)
  tasks_to_stop,    (* streams the clean-up thread has yet to stop           *)
  main_pc,          (* progress of main() through the shutdown               *)
  updates           (* accepted UpdateStream calls                           *)

registry == <<streams, url_to_id>>
tasks    == <<built, task>>
flags    == <<running, stopped, giving_up>>
handlers == <<pc, arg_url, arg_id>>
cleaner  == <<cleaner_pc, tasks_to_stop>>

vars == <<registry, tasks, flags, handlers, cleaner, main_pc, updates>>

(* The value of a field nothing reads yet. *)
AnyUrl == CHOOSE u \in Url : TRUE

(* A stream as its constructor leaves it. *)
NewTask(u) == [url |-> u, kind |-> KindOf(u),
               pending_url |-> u, pending_kind |-> KindOf(u),
               url_changed |-> FALSE, decoder_changed |-> FALSE]

Init ==
  /\ streams = {} /\ url_to_id = [u \in Url |-> NoId]
  /\ built = {}
  /\ task = [i \in Id |-> NewTask(AnyUrl)]
  /\ running = {} /\ stopped = {} /\ giving_up = {}
  /\ pc = [h \in Handler |-> "idle"]
  /\ arg_url = [h \in Handler |-> AnyUrl]
  /\ arg_id = [h \in Handler |-> NoId]
  /\ cleaner_pc = "sleeping" /\ tasks_to_stop = {}
  /\ main_pc = "serving"
  /\ updates = 0

Goto(h, from, to) == pc[h] = from /\ pc' = [pc EXCEPT ![h] = to]

(* The handler replies and forgets its request. *)
Reply(h, from) ==
  /\ Goto(h, from, "idle")
  /\ arg_url' = [arg_url EXCEPT ![h] = AnyUrl]
  /\ arg_id' = [arg_id EXCEPT ![h] = NoId]

(* A request reaches an idle handler as long as the server is serving. *)
Accept(h, to) == main_pc = "serving" /\ Goto(h, "idle", to)

(* The bound on streams: a request that builds one finds an unused id. *)
IdLeft ==
  Cardinality({h \in Handler : pc[h] \in {"erasing", "building"}})
    < Cardinality(Id \ built)

(* url_to_id_.erase() of a set of addresses. *)
Unindex(us) == [u \in Url |-> IF u \in us THEN NoId ELSE url_to_id[u]]

-----------------------------------------------------------------------------
(***************************************************************************)
(* StartStream.  The look-up runs under a shared lock.  An address that is *)
(* served is answered at once and only refreshes a heartbeat; a dangling   *)
(* entry is erased under the exclusive lock, through the iterator the      *)
(* look-up found.                                                          *)
(***************************************************************************)
StartMisses(h, u) ==
  /\ url_to_id[u] = NoId /\ IdLeft
  /\ Accept(h, "building")
  /\ arg_url' = [arg_url EXCEPT ![h] = u]
  /\ UNCHANGED <<registry, tasks, flags, arg_id, cleaner, main_pc, updates>>

StartFindsDangling(h, u) ==
  /\ url_to_id[u] \notin streams \cup {NoId} /\ IdLeft
  /\ Accept(h, "erasing")
  /\ arg_url' = [arg_url EXCEPT ![h] = u]
  /\ arg_id' = [arg_id EXCEPT ![h] = url_to_id[u]]
  /\ UNCHANGED <<registry, tasks, flags, cleaner, main_pc, updates>>

(* If the entry was erased meanwhile the iterator is invalid: the call may *)
(* do nothing visible or hit the entry that was put in its place.          *)
EraseDangling(h) ==
  /\ Goto(h, "erasing", "building")
  /\ url_to_id' \in
       IF url_to_id[arg_url[h]] = arg_id[h]
         THEN {Unindex({arg_url[h]})}
         ELSE {Unindex({arg_url[h]}), url_to_id}
  /\ UNCHANGED <<streams, tasks, flags, arg_url, arg_id, cleaner, main_pc,
                 updates>>

(* Decoder and stream are built without any lock, under a fresh id. *)
Build(h) ==
  /\ Goto(h, "building", "inserting")
  /\ \E i \in Id \ built :
       /\ built' = built \cup {i}
       /\ task' = [task EXCEPT ![i] = NewTask(arg_url[h])]
       /\ arg_id' = [arg_id EXCEPT ![h] = i]
  /\ UNCHANGED <<registry, flags, arg_url, cleaner, main_pc, updates>>

(* Mutant: no second check of the address. *)
InsertUnchecked(h) ==
  /\ Goto(h, "inserting", "starting")
  /\ streams' = streams \cup {arg_id[h]}
  /\ url_to_id' = [url_to_id EXCEPT ![arg_url[h]] = arg_id[h]]
  /\ UNCHANGED <<tasks, flags, arg_url, arg_id, cleaner, main_pc, updates>>

(* The address is still free: both maps get the new stream. *)
Insert(h) ==
  /\ url_to_id[arg_url[h]] = NoId
  /\ Goto(h, "inserting", "starting")
  /\ streams' = streams \cup {arg_id[h]}
  /\ url_to_id' = [url_to_id EXCEPT ![arg_url[h]] = arg_id[h]]
  /\ UNCHANGED <<tasks, flags, arg_url, arg_id, cleaner, main_pc, updates>>

(* Another handler was faster: stop() finds the new stream not running and *)
(* does nothing; the reply names the other stream.                         *)
InsertLoses(h) ==
  /\ url_to_id[arg_url[h]] # NoId
  /\ Reply(h, "inserting")
  /\ UNCHANGED <<registry, tasks, flags, cleaner, main_pc, updates>>

(* start() runs outside the lock, and resets stopped_ after running_. *)
StartRun(h) ==
  /\ Goto(h, "starting", "resetting")
  /\ running' = running \cup {arg_id[h]}
  /\ UNCHANGED <<registry, tasks, stopped, giving_up, arg_url, arg_id, cleaner,
                 main_pc, updates>>

StartReset(h) ==
  /\ Reply(h, "resetting")
  /\ stopped' = stopped \ {arg_id[h]}
  /\ UNCHANGED <<registry, tasks, running, giving_up, cleaner,
                 main_pc, updates>>

StartStream(h) == \E u \in Url :
  StartMisses(h, u) \/ StartFindsDangling(h, u)

StartStep(h) ==
  \/ EraseDangling(h) \/ Build(h) \/ Insert(h) \/ InsertLoses(h)
  \/ StartRun(h) \/ StartReset(h)

-----------------------------------------------------------------------------
(* stop(), called on a set of streams: it only acts on those that run.      *)
StopTasks(is) ==
  /\ running' = running \ is
  /\ stopped' = stopped \cup (running \cap is)
  /\ UNCHANGED giving_up

(* Mutant: the stream stays in streams_ until it has been stopped. *)
StopStreamLate(h, i) ==
  /\ i \in streams
  /\ Accept(h, "stopping")
  /\ url_to_id' = Unindex({task[i].url})
  /\ arg_id' = [arg_id EXCEPT ![h] = i]
  /\ UNCHANGED <<streams, tasks, flags, arg_url, cleaner, main_pc, updates>>

(***************************************************************************)
(* StopStream: both maps give the stream up under the lock, the index at   *)
(* the address the stream currently plays; then stop() without the lock.   *)
(* An unknown id only gets a negative reply.                               *)
(***************************************************************************)
StopStream(h, i) ==
  /\ i \in streams
  /\ Accept(h, "stopping")
  /\ streams' = streams \ {i}
  /\ url_to_id' = Unindex({task[i].url})
  /\ arg_id' = [arg_id EXCEPT ![h] = i]
  /\ UNCHANGED <<tasks, flags, arg_url, cleaner, main_pc, updates>>

StopTask(h) ==
  /\ Reply(h, "stopping")
  /\ StopTasks({arg_id[h]})
  /\ UNCHANGED <<registry, tasks, cleaner, main_pc, updates>>

-----------------------------------------------------------------------------
(***************************************************************************)
(* UpdateStream: refused when another stream is indexed at the address;    *)
(* else the index moves, from the address the stream plays now to the new  *)
(* one.  The stream is told after the lock: a handler compares the class   *)
(* of decoder in use with the one the address needs, then switches the     *)
(* decoder or only the address.                                            *)
(***************************************************************************)
UpdateStream(h, i, u) ==
  /\ updates < MaxUpdates
  /\ i \in streams /\ url_to_id[u] \in {NoId, i}
  /\ Accept(h, "comparing")
  /\ url_to_id' = IF task[i].url = u
                    THEN url_to_id
                    ELSE [Unindex({task[i].url}) EXCEPT ![u] = i]
  /\ arg_id' = [arg_id EXCEPT ![h] = i]
  /\ arg_url' = [arg_url EXCEPT ![h] = u]
  /\ updates' = updates + 1
  /\ UNCHANGED <<streams, tasks, flags, cleaner, main_pc>>

UpdateCompare(h) ==
  /\ Goto(h, "comparing", IF KindOf(arg_url[h]) # task[arg_id[h]].kind
                            THEN "switching" ELSE "updating")
  /\ UNCHANGED <<registry, tasks, flags, arg_url, arg_id, cleaner, main_pc,
                 updates>>

(* The decoder in use and the pending one, as decoder_mutex_ guards them. *)
SwitchDecoder(h) ==
  /\ Reply(h, "switching")
  /\ task' = [task EXCEPT ![arg_id[h]] =
               [@ EXCEPT !.pending_url = arg_url[h],
                         !.pending_kind = KindOf(arg_url[h]),
                         !.decoder_changed = TRUE]]
  /\ UNCHANGED <<registry, built, flags, cleaner,
                 main_pc, updates>>

(* updateUrl() ignores the address the stream already plays. *)
UpdateUrl(h) ==
  /\ Reply(h, "updating")
  /\ task' = IF task[arg_id[h]].url = arg_url[h]
               THEN task
               ELSE [task EXCEPT ![arg_id[h]] =
                      [@ EXCEPT !.pending_url = arg_url[h],
                                !.url_changed = TRUE]]
  /\ UNCHANGED <<registry, built, flags, cleaner,
                 main_pc, updates>>

UpdateStep(h) == UpdateCompare(h) \/ SwitchDecoder(h) \/ UpdateUrl(h)

-----------------------------------------------------------------------------
(* StreamFrames holds its stream until the client leaves or isStopped(). *)
Watch(h, i) ==
  /\ i \in streams
  /\ Accept(h, "watching")
  /\ arg_id' = [arg_id EXCEPT ![h] = i]
  /\ UNCHANGED <<registry, tasks, flags, arg_url, cleaner, main_pc, updates>>

WatchSeesStop(h) ==
  /\ arg_id[h] \in stopped
  /\ Reply(h, "watching")
  /\ UNCHANGED <<registry, tasks, flags, cleaner, main_pc,
                 updates>>

WatchCancelled(h) ==
  /\ Reply(h, "watching")
  /\ UNCHANGED <<registry, tasks, flags, cleaner, main_pc,
                 updates>>

-----------------------------------------------------------------------------
(* The IO thread of a stream, spawned at the end of start(), applies what   *)
(* is pending (stepIO).                                                     *)
Looping(i) ==
  /\ i \in running
  /\ \A h \in Handler : pc[h] = "resetting" => arg_id[h] # i

ApplyUpdate(i) ==
  /\ Looping(i)
  /\ task[i].decoder_changed \/ task[i].url_changed
  /\ task' = [task EXCEPT ![i] =
               [@ EXCEPT !.url = task[i].pending_url,
                         !.kind = IF task[i].decoder_changed
                                    THEN task[i].pending_kind
                                    ELSE task[i].kind,
                         !.url_changed = FALSE, !.decoder_changed = FALSE]]
  /\ UNCHANGED <<registry, built, flags, handlers, cleaner, main_pc,
                 updates>>

(* Without keep_on_failure_ it gives up an address it cannot reach: stop() *)
(* clears running_ first and sets stopped_ later.                          *)
GiveUp(i) ==
  /\ Looping(i) /\ i \notin Kept
  /\ running' = running \ {i}
  /\ giving_up' = giving_up \cup {i}
  /\ UNCHANGED <<registry, tasks, stopped, handlers, cleaner, main_pc,
                 updates>>

GaveUp(i) ==
  /\ i \in giving_up
  /\ stopped' = stopped \cup {i}
  /\ giving_up' = giving_up \ {i}
  /\ UNCHANGED <<registry, tasks, running, handlers, cleaner, main_pc,
                 updates>>

-----------------------------------------------------------------------------
(***************************************************************************)
(* cleanupLoop(): one pass under the lock takes out the streams that       *)
(* stopped by themselves and those whose heartbeat is overdue; then it     *)
(* stops them one by one without the lock.                                 *)
(***************************************************************************)
(* Mutant: only overdue streams are taken out. *)
CleanPassOverdue ==
  /\ cleaner_pc = "sleeping"
  /\ \E gone \in SUBSET streams :
       /\ streams' = streams \ gone
       /\ url_to_id' = Unindex({task[i].url : i \in gone})
       /\ tasks_to_stop' = gone
  /\ cleaner_pc' = "stopping"
  /\ UNCHANGED <<tasks, flags, handlers, main_pc, updates>>

CleanPass ==
  /\ cleaner_pc = "sleeping"
  /\ \E overdue \in SUBSET streams :
       LET gone == overdue \cup ((streams \cap stopped) \ Kept)
       IN  /\ streams' = streams \ gone
           /\ url_to_id' = Unindex({task[i].url : i \in gone})
           /\ tasks_to_stop' = gone
  /\ cleaner_pc' = "stopping"
  /\ UNCHANGED <<tasks, flags, handlers, main_pc, updates>>

CleanStop ==
  /\ cleaner_pc = "stopping"
  /\ \E i \in tasks_to_stop :
       /\ StopTasks({i})
       /\ tasks_to_stop' = tasks_to_stop \ {i}
  /\ UNCHANGED <<registry, tasks, handlers, cleaner_pc, main_pc, updates>>

(* Mutant: manager_running_ is not tested. *)
CleanForever ==
  /\ cleaner_pc = "stopping" /\ tasks_to_stop = {}
  /\ cleaner_pc' = "sleeping"
  /\ UNCHANGED <<registry, tasks, flags, handlers, tasks_to_stop, main_pc,
                 updates>>

(* manager_running_ is tested between two passes only. *)
CleanDone ==
  /\ cleaner_pc = "stopping" /\ tasks_to_stop = {}
  /\ cleaner_pc' = IF main_pc = "joining" THEN "done" ELSE "sleeping"
  /\ UNCHANGED <<registry, tasks, flags, handlers, tasks_to_stop, main_pc,
                 updates>>

-----------------------------------------------------------------------------
(***************************************************************************)
(* main() after a signal: Shutdown() takes no more calls and waits for     *)
(* those under way, without a deadline; ~RTSPServiceImpl clears            *)
(* manager_running_, joins the clean-up thread and stops what is still     *)
(* registered, one stream after the other under a lock nobody contends.    *)
(***************************************************************************)
MainShutdown ==
  /\ main_pc = "serving"
  /\ main_pc' = "draining"
  /\ UNCHANGED <<registry, tasks, flags, handlers, cleaner, updates>>

MainDrained ==
  /\ main_pc = "draining" /\ \A h \in Handler : pc[h] = "idle"
  /\ main_pc' = "joining"
  /\ UNCHANGED <<registry, tasks, flags, handlers, cleaner, updates>>

(* Mutant: the clean-up thread is not joined. *)
MainStopsUnjoined ==
  /\ main_pc = "joining"
  /\ StopTasks(streams)
  /\ main_pc' = "down"
  /\ UNCHANGED <<registry, tasks, handlers, cleaner, updates>>

MainStops ==
  /\ main_pc = "joining" /\ cleaner_pc = "done"
  /\ StopTasks(streams)
  /\ main_pc' = "down"
  /\ UNCHANGED <<registry, tasks, handlers, cleaner, updates>>

-----------------------------------------------------------------------------
Request(h) ==
  \/ StartStream(h)
  \/ \E i \in Id : \/ StopStream(h, i) \/ Watch(h, i)
                   \/ \E u \in Url : UpdateStream(h, i, u)

Progress(h) ==
  StartStep(h) \/ StopTask(h) \/ UpdateStep(h) \/ WatchSeesStop(h)

Cleaner == CleanPass \/ CleanStop \/ CleanDone

MainStep == MainDrained \/ MainStops

Next ==
  \/ \E h \in Handler : Request(h) \/ Progress(h) \/ WatchCancelled(h)
  \/ \E i \in Id : ApplyUpdate(i) \/ GiveUp(i) \/ GaveUp(i)
  \/ Cleaner
  \/ MainShutdown \/ MainStep

Spec == Init /\ [][Next]_vars

(***************************************************************************)
(* Fairness: accepted requests, the clean-up thread (it wakes up every     *)
(* five seconds), the end of a give-up and the shutdown make progress.     *)
(* Requests, cancellations, failures of cameras and the signal need not    *)
(* come.                                                                   *)
(***************************************************************************)
Fairness ==
  /\ \A h \in Handler : WF_vars(Progress(h))
  /\ \A i \in Id : WF_vars(GaveUp(i))
  /\ WF_vars(Cleaner) /\ WF_vars(MainStep)

FairSpec == Spec /\ Fairness

-----------------------------------------------------------------------------
HandlerState == {"idle", "erasing", "building", "inserting", "starting",
                 "resetting", "stopping", "comparing", "switching",
                 "updating", "watching"}

TaskState == [url : Url, kind : {"rtsp", "hik"},
              pending_url : Url, pending_kind : {"rtsp", "hik"},
              url_changed : BOOLEAN, decoder_changed : BOOLEAN]

(* Both maps, the streams and the threads keep their types, and a handler  *)
(* past its look-up works on a stream that has been built.                 *)
TypeOK ==
  /\ streams \subseteq built /\ built \subseteq Id
  /\ url_to_id \in [Url -> built \cup {NoId}]
  /\ task \in [Id -> TaskState]
  /\ running \subseteq built /\ stopped \subseteq built
  /\ giving_up \subseteq built
  /\ pc \in [Handler -> HandlerState] /\ arg_url \in [Handler -> Url]
  /\ arg_id \in [Handler -> built \cup {NoId}]
  /\ \A h \in Handler : pc[h] \notin {"idle", "building"} => arg_id[h] # NoId
  /\ cleaner_pc \in {"sleeping", "stopping", "done"}
  /\ tasks_to_stop \subseteq built
  /\ main_pc \in {"serving", "draining", "joining", "down"}
  /\ updates \in 0..MaxUpdates

(* Who has taken stream i out of the registry and will call its stop().    *)
Removers(i) ==
  {h \in Handler : pc[h] = "stopping" /\ arg_id[h] = i}
    \cup (IF i \in tasks_to_stop THEN {"cleaner"} ELSE {})

(***************************************************************************)
(* A stream is removed, and stopped, by one thread only, whatever handlers *)
(* and clean-up thread do at the same time: stop() has one caller besides  *)
(* the stream's own IO thread.                                             *)
(***************************************************************************)
OneRemover ==
  \A i \in Id : /\ Cardinality(Removers(i)) <= 1
               /\ Removers(i) # {} => i \notin streams

(***************************************************************************)
(* Until the first UpdateStream the index is exact: it maps an address to  *)
(* a stream exactly when that stream is registered and plays it.  So no    *)
(* two streams share an address and no entry dangles, although look-up,    *)
(* construction and insertion of StartStream are separate steps.           *)
(***************************************************************************)
IndexExact ==
  updates = 0 =>
    \A i \in Id, u \in Url :
      url_to_id[u] = i <=> (i \in streams /\ task[i].url = u)

(***************************************************************************)
(* When the service object is gone nothing uses it any more: no handler    *)
(* and no clean-up pass is under way and no registered stream runs.        *)
(***************************************************************************)
QuietWhenDown ==
  main_pc = "down" =>
    /\ \A h \in Handler : pc[h] = "idle"
    /\ cleaner_pc = "done" /\ tasks_to_stop = {}
    /\ running \cap streams = {}

(* A stream that gave up is taken out of the registry (cleanupLoop).       *)
GivenUpRemoved ==
  \A i \in Id :
    (i \in (streams \cap stopped) \ Kept) ~> (i \notin streams \/ main_pc = "down")

(***************************************************************************)
(* The shutdown ends, unless a client keeps a StreamFrames call open: the  *)
(* server waits for it without a deadline.                                 *)
(***************************************************************************)
ShutdownEnds ==
  main_pc = "draining" ~>
    (main_pc = "down" \/ \E h \in Handler : pc[h] = "watching")

(* No handler is between the two halves of an UpdateStream of stream i, and *)
(* its IO thread has applied what was pending.                              *)
Settled(i) ==
  /\ ~task[i].url_changed /\ ~task[i].decoder_changed
  /\ \A h \in Handler : arg_id[h] = i =>
       pc[h] \notin {"comparing", "switching", "updating"}

(***************************************************************************)
(* StopStream answers that the stream was stopped: a stream that runs is   *)
(* registered or about to be stopped by someone.                           *)
(***************************************************************************)
NoOrphan == \A i \in running : i \in streams \/ Removers(i) # {}

(***************************************************************************)
(* The checks of StartStream and UpdateStream are there to prevent two     *)
(* streams of one address.                                                 *)
(***************************************************************************)
NoDuplicateStream ==
  \A i, j \in streams :
    Settled(i) /\ Settled(j) /\ task[i].url = task[j].url => i = j

(***************************************************************************)
(* README.md promises that UpdateStream selects the decoder the address    *)
(* needs.                                                                  *)
(***************************************************************************)
DecoderFitsUrl ==
  \A i \in streams : Settled(i) => task[i].kind = KindOf(task[i].url)

=============================================================================
