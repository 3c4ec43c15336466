----------------------------- MODULE CpuDecoder -----------------------------
(***************************************************************************)
(* Class CpuDecoder (src/cpu_decoder.cpp) with the FFmpeg demuxer and      *)
(* decoder it drives.  As in HikDecoder a call is an operator from a       *)
(* decoder to the set of its outcomes.                                     *)
(*                                                                         *)
(* A packet is reduced to the number of frames the codec has ready once it *)
(* has swallowed it: none while frames are reordered or the packet is      *)
(* rejected, several when it completes a group.                            *)
(***************************************************************************)
EXTENDS Naturals

CONSTANTS
  MaxBurst,   (* most frames the codec has ready after one packet            *)
  NoAddress

Outcome(ok, dec) == [ok |-> ok, dec |-> dec]

(***************************************************************************)
(* source: address of demuxer_ and decoder_, which exist together; opened: *)
(* is_opened_; ready: frame_ready_; buffered: frames still in the codec;   *)
(* blank: the AVFrame was emptied by a receive that found nothing.         *)
(***************************************************************************)
Decoder(Address) ==
  [kind : {"cpu"}, source : Address \cup {NoAddress}, opened : BOOLEAN,
   ready : BOOLEAN, buffered : 0 .. MaxBurst, blank : BOOLEAN]

Released ==
  [kind |-> "cpu", source |-> NoAddress, opened |-> FALSE, ready |-> FALSE,
   buffered |-> 0, blank |-> TRUE]

isOpened(d) == d.opened /\ d.source # NoAddress

(***************************************************************************)
(* The demuxer: opening connects, probes and finds the video stream and    *)
(* its filter; reading skips what is not video and fails when the network  *)
(* does, there is no reconnection of its own (auto_reboot is false).       *)
(***************************************************************************)
DemuxerOpens(reachable) == IF reachable THEN BOOLEAN ELSE {FALSE}
Demux(delivers)         == IF delivers THEN {"packet", "failed"} ELSE {"failed"}

(* send_packet() on a packet: what the codec then has ready. *)
SendPacket == 0 .. MaxBurst

(* open() starts from a released decoder and leaves one when it fails. *)
Open(d, url, reachable) ==
  { IF ok THEN Outcome(TRUE, [Released EXCEPT !.source = url, !.opened = TRUE])
          ELSE Outcome(FALSE, Released) : ok \in DemuxerOpens(reachable) }

(* Mutant: a frame received is not announced. *)
ReceivedUnannounced(d) ==
  [d EXCEPT !.buffered = @ - 1, !.blank = FALSE]

(* receive_frame(): the next frame overwrites the one handed out before. *)
Received(d) ==
  [d EXCEPT !.ready = TRUE, !.buffered = @ - 1, !.blank = FALSE]

(***************************************************************************)
(* grab(): receive, else demux and send, again and again.  Packets that    *)
(* give no frame only prolong the loop.                                    *)
(***************************************************************************)
Grab(d, delivers) ==
  LET empty     == [d EXCEPT !.blank = TRUE]
      fed(n)    == [empty EXCEPT !.buffered = n]
      frames    == SendPacket \ {0}
  IN  IF ~isOpened(d)     THEN {Outcome(FALSE, d)}
      ELSE IF d.buffered > 0 THEN {Outcome(TRUE, Received(d))}
      ELSE UNION { IF packet = "failed" THEN {Outcome(FALSE, empty)}
                   ELSE { Outcome(TRUE, Received(fed(n))) : n \in frames }
                   : packet \in Demux(delivers) }

(* takePendingFrame(): the mark goes, whether the frame is used or not. *)
Consumed(d) == IF isOpened(d) THEN [d EXCEPT !.ready = FALSE] ELSE d

Drop(d) == Consumed(d)

Out(d, found) ==
  [found |-> found, address |-> IF found = "picture" THEN d.source
                                                     ELSE NoAddress,
   latest |-> found = "picture", whole |-> found = "picture"]

(***************************************************************************)
(* retrieve() and retrieveRaw(): the conversion fails on an emptied frame, *)
(* or by itself.                                                           *)
(***************************************************************************)
Take(d) ==
  { [out |-> Out(d, found), dec |-> Consumed(d)] :
      found \in IF ~d.ready THEN {"nothing"}
                ELSE IF d.blank THEN {"failed"}
                ELSE {"picture", "failed"} }
=============================================================================
