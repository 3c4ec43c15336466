--------------------------- MODULE ClientRestart ----------------------------
(***************************************************************************)
(* The Python client keeps one stream alive across the losses of a server  *)
(* (client/remote_capture.py): the application holds the identifier its    *)
(* start_stream() returned, the client maps it to the stream that stands   *)
(* for it now, and every read first makes sure that stream still exists.   *)
(*                                                                         *)
(* Several threads of the application read the stream; one may stop it,    *)
(* one may move it to another address.  The server is what StreamService   *)
(* promises of it: it runs at most one stream for an address, and          *)
(* StartStream returns the one there is.  It forgets its streams when it   *)
(* restarts, or when nobody has read for longer than the heartbeat.        *)
(***************************************************************************)
EXTENDS Naturals, FiniteSets

CONSTANTS
  Thread,       (* threads of the application that read                      *)
  Id,           (* stream identifiers                                        *)
  Original,     (* the one start_stream() returned                           *)
  NoId,
  MaxLosses,    (* bound: times the server forgets its streams               *)
  MaxTimeouts,  (* bound: calls that get no answer from a server that is up  *)
  MaxOthers     (* bound: calls of stop_stream() and update_stream_url()     *)

ASSUME ClientAssumption ==
  /\ Original \in Id /\ NoId \notin Id
  /\ MaxLosses \in Nat /\ MaxTimeouts \in Nat /\ MaxOthers \in Nat

(* The server never runs out of identifiers: there are more than can be in *)
(* use at a time.                                                          *)
ASSUME IdAssumption ==
  /\ IsFiniteSet(Thread)
  /\ IsFiniteSet(Id) => Cardinality(Id) > 6 + 2 * Cardinality(Thread)

VARIABLES
  up, live,             (* the server, and its streams of this application   *)
  moved,                (* the one an update has moved to the new address    *)
  losses, timeouts,
  params,               (* _stream_params has the stream's parameters        *)
  id_map,               (* _stream_id_map of the original identifier         *)
  pc, current, alive,   (* of each thread: where in a read, current_id, what *)
                        (* check_stream() said of it                         *)
  fresh,                (* new_id, of StartStream                            *)
  picture,              (* the last read returned a picture                  *)
  stop_pc, stopping,    (* stop_stream() and its current_id                  *)
  update_pc, updating,  (* update_stream_url() and its current_id            *)
  unclaimed,            (* started, but the answer never came                *)
  overwritten           (* of the map: entries of live streams that a        *)
                        (* restart wrote over without having seen them       *)

serverVars == <<up, live, moved, losses, timeouts>>
mapVars    == <<params, id_map>>
readVars   == <<pc, current, alive, fresh, picture>>
stopVars   == <<stop_pc, stopping, update_pc, updating>>
strayVars  == <<unclaimed, overwritten>>
vars == <<serverVars, mapVars, readVars, stopVars, strayVars>>

(* After start_stream(). *)
Init ==
  /\ up = TRUE /\ live = {Original} /\ moved = NoId /\ losses = 0 /\ timeouts = 0
  /\ params = TRUE /\ id_map = Original
  /\ pc = [t \in Thread |-> "idle"]
  /\ current = [t \in Thread |-> NoId] /\ fresh = [t \in Thread |-> NoId]
  /\ alive = [t \in Thread |-> FALSE] /\ picture = [t \in Thread |-> FALSE]
  /\ stop_pc = "none" /\ stopping = NoId
  /\ unclaimed = {} /\ overwritten = {}
  /\ update_pc = "none" /\ updating = NoId

-----------------------------------------------------------------------------
(* The server. *)

Forgets ==
  /\ losses < MaxLosses /\ losses' = losses + 1
  /\ live' = {} /\ moved' = NoId
  /\ unclaimed' = {} /\ overwritten' = {}
  /\ up' \in IF up THEN BOOLEAN ELSE {FALSE}
  /\ UNCHANGED <<timeouts, mapVars, readVars, stopVars>>

ComesBack ==
  /\ ~up /\ up' = TRUE
  /\ UNCHANGED <<live, moved, losses, timeouts, mapVars, readVars, stopVars,
                 strayVars>>

(* A call is answered by a server that is up.  One that is down leaves it  *)
(* unanswered once the retries of _grpc_retry are used up.                 *)
Answered == up /\ UNCHANGED <<up, losses, timeouts>>
Unanswered ==
  \/ ~up /\ UNCHANGED <<up, losses, timeouts>>
  \/ up /\ timeouts < MaxTimeouts /\ timeouts' = timeouts + 1 /\ UNCHANGED <<up, losses>>

Held(t) == {current[t], fresh[t]} \ {NoId}
InUse == live \cup {Original, id_map, stopping, updating, moved} \cup UNION {Held(t) : t \in Thread}
NewId == CHOOSE i \in Id \ InUse : TRUE

(* StartStream with the cached parameters: the stream there is for the     *)
(* address the application began with, or a new one.                       *)
Started == IF live \ {moved} = {} THEN {NewId} ELSE live \ {moved}

-----------------------------------------------------------------------------
(* _restart_stream_if_needed(), by a thread that wants to read. *)

Goes(t, from, to) == pc[t] = from /\ pc' = [pc EXCEPT ![t] = to]
Sets(f, t, value) == f' = [f EXCEPT ![t] = value]

Mapped == IF id_map = NoId THEN Original ELSE id_map

(* Without cached parameters the original identifier is used as it is.     *)
(* The application begins no read once it has called stop_stream().        *)
Enters(t) ==
  /\ stop_pc = "none"
  /\ Goes(t, "idle", IF params THEN "check" ELSE "read")
  /\ Sets(current, t, IF params THEN Mapped ELSE Original)
  /\ UNCHANGED <<serverVars, mapVars, alive, fresh, picture, stopVars, strayVars>>

(* check_stream(), which maps the original identifier once more; no answer *)
(* counts as no stream.                                                    *)
Asked(t) == IF current[t] = Original THEN Mapped ELSE current[t]
Checks(t) ==
  /\ \/ Goes(t, "check", "refresh")
     \/ Goes(t, "recheck", "decide")
  /\ \/ Answered /\ Sets(alive, t, Asked(t) \in live)
     \/ Unanswered /\ Sets(alive, t, FALSE)
  /\ UNCHANGED <<live, moved, mapVars, current, fresh, picture, stopVars,
                 strayVars>>

(* The map may have changed during the call: then the status is stale. *)
Refreshes(t) ==
  /\ Goes(t, "refresh", IF Mapped = current[t] THEN "decide" ELSE "recheck")
  /\ Sets(current, t, Mapped)
  /\ UNCHANGED <<serverVars, mapVars, alive, fresh, picture, stopVars, strayVars>>

(* Mutant: only the original stream is restarted, not what replaced it. *)
DecidesOnce(t) ==
  /\ Goes(t, "decide", IF alive[t] THEN "read"
                       ELSE IF current[t] = Original THEN "start" ELSE "idle")
  /\ Sets(alive, t, FALSE)
  /\ UNCHANGED <<serverVars, mapVars, current, fresh, picture, stopVars,
                 strayVars>>

Decides(t) ==
  /\ Goes(t, "decide", IF alive[t] THEN "read" ELSE "start")
  /\ Sets(alive, t, FALSE)
  /\ UNCHANGED <<serverVars, mapVars, current, fresh, picture, stopVars,
                 strayVars>>

Restarts(t) ==
  /\ Answered
  /\ Goes(t, "start", "choose")
  /\ live' = live \cup Started
  /\ \E id \in Started : Sets(fresh, t, id)
  /\ unclaimed' = unclaimed \ Started /\ overwritten' = overwritten \ Started
  /\ UNCHANGED <<moved, mapVars, current, alive, picture, stopVars>>

(* The read returns nothing; the stream may have been started all the same. *)
RestartFails(t) ==
  /\ pc[t] = "start"
  /\ Unanswered
  /\ pc' = [pc EXCEPT ![t] = "idle"]
  /\ live' \in IF up THEN {live, live \cup Started} ELSE {live}
  /\ unclaimed' = unclaimed \cup (live' \ live)
  /\ Sets(current, t, NoId) /\ Sets(picture, t, FALSE)
  /\ UNCHANGED <<moved, mapVars, alive, fresh, stopVars, overwritten>>

(* Mutant: every restart is taken for a second one. *)
LooksOld(t) ==
  /\ Goes(t, "choose", "redundant")
  /\ Sets(current, t, Mapped)
  /\ UNCHANGED <<serverVars, params, id_map, alive, fresh, picture, stopVars,
                 strayVars>>

(* A map that names neither the original nor the new stream is taken for   *)
(* the work of another thread: the new stream is the redundant one.        *)
Elsewhere(t) == id_map \notin {NoId, Original, fresh[t]}
Looks(t) ==
  /\ Goes(t, "choose", IF Elsewhere(t) THEN "redundant" ELSE "store")
  /\ IF Elsewhere(t) THEN Sets(current, t, id_map) ELSE UNCHANGED current
  /\ UNCHANGED <<serverVars, mapVars, alive, fresh, picture, stopVars, strayVars>>

(* Nothing keeps another thread's entry out between the look and the       *)
(* store: that entry is written over.                                      *)
Stores(t) ==
  /\ Goes(t, "store", "read")
  /\ Sets(current, t, fresh[t])
  /\ id_map' = fresh[t]
  /\ Sets(fresh, t, NoId)
  /\ overwritten' = (overwritten \ {fresh[t]}) \cup
       (IF Elsewhere(t) THEN live \cap {id_map} ELSE {})
  /\ UNCHANGED <<serverVars, params, alive, picture, stopVars, unclaimed>>

(* Mutant: the redundant stream is left running. *)
StopsNotRedundant(t) ==
  /\ Goes(t, "redundant", "read")
  /\ Answered
  /\ Sets(fresh, t, NoId)
  /\ UNCHANGED <<live, moved, mapVars, current, alive, picture, stopVars,
                 strayVars>>

StopsRedundant(t) ==
  /\ Goes(t, "redundant", "read")
  /\ \/ Answered /\ live' = live \ {fresh[t]} /\ UNCHANGED unclaimed
     \/ Unanswered /\ live' \in {live, live \ {fresh[t]}}
        /\ unclaimed' = unclaimed \cup (live' \cap {fresh[t]})
  /\ overwritten' = overwritten \cap live'
  /\ Sets(fresh, t, NoId)
  /\ UNCHANGED <<moved, mapVars, current, alive, picture, stopVars>>

(* GetLatestFrame, of the stream the restart logic returned. *)
Reads(t) ==
  /\ Goes(t, "read", "idle")
  /\ \/ Answered /\ Sets(picture, t, current[t] \in live)
     \/ Unanswered /\ Sets(picture, t, FALSE)
  /\ Sets(current, t, NoId)
  /\ UNCHANGED <<live, moved, mapVars, alive, fresh, stopVars, strayVars>>

-----------------------------------------------------------------------------
(* stop_stream() and update_stream_url(), each of a thread of its own and  *)
(* called once at most.                                                    *)

Others == {p \in {<<"stop", stop_pc>>, <<"update", update_pc>>} : p[2] # "none"}
OneMoreCall == Cardinality(Others) < MaxOthers

StopCalled ==
  /\ OneMoreCall
  /\ stop_pc = "none" /\ stop_pc' = "call"
  /\ stopping' = Mapped
  /\ UNCHANGED <<serverVars, mapVars, readVars, update_pc, updating, strayVars>>

StopAnswered ==
  /\ stop_pc = "call" /\ stop_pc' = "clean"
  /\ \/ Answered /\ live' = live \ {stopping}
     \/ Unanswered /\ live' \in {live, live \ {stopping}}
  /\ UNCHANGED <<moved, mapVars, readVars, stopping, update_pc, updating,
                 strayVars>>

StopCleans ==
  /\ stop_pc = "clean" /\ stop_pc' = "done"
  /\ params' = FALSE /\ id_map' = NoId /\ stopping' = NoId
  /\ UNCHANGED <<serverVars, readVars, update_pc, updating, strayVars>>

UpdateCalled ==
  /\ OneMoreCall
  /\ update_pc = "none" /\ update_pc' = "call"
  /\ updating' = Mapped
  /\ UNCHANGED <<serverVars, mapVars, readVars, stop_pc, stopping, strayVars>>

(* Refused for a stream the server does not know. *)
UpdateAnswered ==
  /\ update_pc = "call"
  /\ \/ /\ Answered /\ updating \in live
        /\ moved' = updating /\ update_pc' = "clean"
     \/ /\ Answered /\ updating \notin live
        /\ update_pc' = "done" /\ UNCHANGED moved
     \/ /\ Unanswered
        /\ moved' \in {moved} \cup (live \cap {updating})
        /\ update_pc' = "done"
  /\ updating' = NoId
  /\ UNCHANGED <<live, mapVars, readVars, stop_pc, stopping, strayVars>>

(* The parameters are forgotten, so that no restart uses the old address.  *)
UpdateCleans ==
  /\ update_pc = "clean" /\ update_pc' = "done"
  /\ params' = FALSE
  /\ UNCHANGED <<serverVars, id_map, readVars, stop_pc, stopping, updating,
                 strayVars>>

-----------------------------------------------------------------------------
ThreadStep(t) ==
  \/ Enters(t) \/ Checks(t) \/ Refreshes(t) \/ Decides(t) \/ Restarts(t)
  \/ RestartFails(t) \/ Looks(t) \/ Stores(t) \/ StopsRedundant(t) \/ Reads(t)

Next ==
  \/ Forgets \/ ComesBack
  \/ StopCalled \/ StopAnswered \/ StopCleans
  \/ UpdateCalled \/ UpdateAnswered \/ UpdateCleans
  \/ \E t \in Thread : ThreadStep(t)

(* The server comes back; the threads go on reading. *)
Spec == /\ Init /\ [][Next]_vars
        /\ WF_vars(ComesBack)
        /\ \A t \in Thread : WF_vars(ThreadStep(t))

-----------------------------------------------------------------------------
(* Until it is stopped, no stream runs on the server that the client has   *)
(* lost sight of: each one is named by the map, or held by a thread that   *)
(* is about to map or to stop it, or its start or stop got no answer - or  *)
(* its entry was made between the look and the store of another restart,   *)
(* which wrote over it.  (A stop_stream() that meets a restart does leave  *)
(* one behind, and so may an update: of the stream it moved, when the      *)
(* restart is of a thread that took the parameters before they were        *)
(* forgotten.)                                                             *)
NoStrayStream ==
  stop_pc = "none" =>
    live \subseteq {id_map, moved} \cup unclaimed \cup overwritten
                  \cup {fresh[t] : t \in Thread}

(* What such a race leaves running unknown to the map does not stay: the   *)
(* next restart is given that stream by the server, and maps or stops it.  *)
(* (Once an update has moved the mapped stream, nothing is restarted.)     *)
Stray == live \ ({id_map, moved} \cup unclaimed)
StraysAreFound == []<>(Stray = {} \/ stop_pc # "none" \/ ~params \/ moved # NoId)

(* Every thread keeps getting pictures whatever the server forgets, as the *)
(* class promises.                                                         *)
Recovers ==
  \A t \in Thread : []<>(picture[t] \/ stop_pc # "none")

(* What the code does: every thread keeps getting pictures unless the      *)
(* stream that once replaced the original one is itself lost, or an update *)
(* has made the client forget how to restart an original that is lost.     *)
SecondLoss == id_map \notin {NoId, Original} \cup live
Forsaken   == ~params /\ Original \notin live
RecoversFromFirstLoss ==
  \A t \in Thread :
    []<>(picture[t] \/ stop_pc # "none") \/ <>[]SecondLoss \/ <>[]Forsaken
=============================================================================
