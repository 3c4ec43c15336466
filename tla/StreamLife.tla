------------------------------ MODULE StreamLife ------------------------------
(***************************************************************************)
(* What one stream promises to the service and to its clients, without     *)
(* threads, flags or jobs: it is started once and stopped once; its        *)
(* decoder has one user at a time; it publishes (a cached frame or a       *)
(* shared-memory channel) only between its start and the end of its        *)
(* stop(), which takes back what was published; after that neither a job   *)
(* nor a new frame exists, and the object may be destroyed.                *)
(* StreamTask implements this specification (StreamTask!Implements), and   *)
(* so does each stream of the process (ServerProcess!StreamsLive); the     *)
(* steps of the frame cache are its steps (FrameDelivery!StepsOfALife).    *)
(***************************************************************************)
VARIABLES
  phase,      (* how far the life of the stream has come                     *)
  published,  (* something a client can read exists                          *)
  user        (* who is using the decoder                                    *)

lifeVars == <<phase, published, user>>

Init ==
  /\ phase = "created"
  /\ published = FALSE
  /\ user = "nobody"

Start ==
  /\ phase = "created"
  /\ phase' = "running"
  /\ UNCHANGED <<published, user>>

(* stop() is asked for; what is under way goes on for a while. *)
Stop ==
  /\ phase = "running"
  /\ phase' = "stopping"
  /\ UNCHANGED <<published, user>>

(* The IO thread may outlive a stop() that did not wait for it, a job not. *)
Use(u) ==
  /\ user = "nobody"
  /\ phase \in IF u = "job" THEN {"running", "stopping"}
                            ELSE {"running", "stopping", "stopped"}
  /\ user' = u
  /\ UNCHANGED <<phase, published>>

Leave ==
  /\ user' = "nobody"
  /\ UNCHANGED <<phase, published>>

Publish ==
  /\ phase \in {"running", "stopping"}
  /\ published' = TRUE
  /\ UNCHANGED <<phase, user>>

(* An update of the address, or a channel that could not be built. *)
Withdraw ==
  /\ published' = FALSE
  /\ UNCHANGED <<phase, user>>

(* Taking a pending address withdraws the frames as the decoder is taken. *)
UseAndWithdraw ==
  /\ user = "nobody" /\ user' = "io"
  /\ phase \in {"running", "stopping", "stopped"}
  /\ published' = FALSE
  /\ UNCHANGED phase

(* The end of stop(): nothing published, no job at the decoder, for good. *)
Stopped ==
  /\ phase = "stopping" /\ user # "job"
  /\ phase' = "stopped"
  /\ published' = FALSE
  /\ UNCHANGED user

(* A stream the service forgets before its IO thread has taken hold of it  *)
(* goes without a stop(), with nothing published.                          *)
Destroy ==
  /\ phase \in IF published THEN {"stopped"} ELSE {"running", "stopped"}
  /\ user = "nobody"
  /\ phase' = "gone"
  /\ published' = FALSE
  /\ UNCHANGED user

Next ==
  \/ Start \/ Stop \/ Stopped \/ Destroy
  \/ Use("io") \/ Use("job") \/ Leave
  \/ Publish \/ Withdraw \/ UseAndWithdraw

Spec == Init /\ [][Next]_lifeVars

=============================================================================
