---------------------------- MODULE CudaDecoder ----------------------------
(***************************************************************************)
(* Class CudaDecoder (src/cuda_decoder.cpp) with the NVDEC session         *)
(* CUVIDDecoderImpl (src/cuvid_decoder.cpp).  As in HikDecoder a call is   *)
(* an operator from a decoder to the set of its outcomes.                  *)
(*                                                                         *)
(* The two classes count the same frames: decoded_frames_available_ of the *)
(* one, which can be -1, and m_nDecodedFrame of the other.                 *)
(***************************************************************************)
EXTENDS Integers

CONSTANTS
  MaxBurst,   (* most frames NVDEC displays while it parses one packet       *)
  MaxCache,   (* frame buffers of the session: 5 in the code                 *)
  NoAddress

Outcome(ok, dec) == [ok |-> ok, dec |-> dec]

(***************************************************************************)
(* source: address of demuxer_ and decoder_; opened: is_opened_;           *)
(* available: decoded_frames_available_; decoded: m_nDecodedFrame;         *)
(* returned: m_nDecodedFrameReturned; error: m_bDecodeError.               *)
(***************************************************************************)
Decoder(Address) ==
  [kind : {"cuda"}, source : Address \cup {NoAddress}, opened : BOOLEAN,
   available : -1 .. MaxCache, decoded : 0 .. MaxCache,
   returned : 0 .. MaxCache, error : BOOLEAN]

Released ==
  [kind |-> "cuda", source |-> NoAddress, opened |-> FALSE, available |-> 0,
   decoded |-> 0, returned |-> 0, error |-> FALSE]

isOpened(d) == d.opened /\ d.source # NoAddress

(* Mutant: a full cache is not noticed. *)
DisplayedUncapped(n) == n

(***************************************************************************)
(* The callbacks of one parse: handlePictureDisplay() keeps a picture, a   *)
(* corrupted one is dropped and a full cache overwrites its last buffer;   *)
(* handleVideoSequence() forgets what was displayed before it; each of the *)
(* callbacks can meet a hard error.                                        *)
(***************************************************************************)
Displayed(n) == IF n < MaxCache THEN n ELSE MaxCache

(* decode(): a broken session stays broken, else the counters start anew. *)
Decode(d) ==
  IF d.error THEN {[d EXCEPT !.available = -1]}
  ELSE { [d EXCEPT !.available = Displayed(n), !.decoded = Displayed(n),
                   !.returned = 0] : n \in 0 .. MaxBurst }
       \cup { [d EXCEPT !.available = -1, !.decoded = Displayed(n),
                        !.returned = 0, !.error = TRUE] : n \in 0 .. MaxBurst }

(***************************************************************************)
(* open(): a released decoder, a demuxer, a session; what decoding the     *)
(* parameter sets returns is ignored, an error in it shows at the first    *)
(* packet.                                                                 *)
(***************************************************************************)
Open(d, url, reachable) ==
  LET fresh == [Released EXCEPT !.source = url, !.opened = TRUE]
  IN  {Outcome(FALSE, Released)}
      \cup (IF reachable
              THEN { Outcome(TRUE, [fresh EXCEPT !.error = e]) : e \in BOOLEAN }
              ELSE {})

(***************************************************************************)
(* grab(): frames already decoded are used up before a packet is read.     *)
(* Packets that display nothing only prolong the loop; empty ones end it   *)
(* after ten seconds, like a failed read.  A hard error closes the decoder.*)
(***************************************************************************)
Grab(d, delivers) ==
  IF ~isOpened(d)         THEN {Outcome(FALSE, d)}
  ELSE IF d.available > 0 THEN {Outcome(TRUE, d)}
  ELSE {Outcome(FALSE, d)}
       \cup (IF delivers
               THEN { IF e.available < 0
                        THEN Outcome(FALSE, [e EXCEPT !.opened = FALSE])
                        ELSE Outcome(TRUE, e)
                      : e \in {f \in Decode(d) : f.available # 0} }
               ELSE {})

(* get_frame() and the decrement that goes with it on every way out. *)
GetFrame(d) ==
  [d EXCEPT !.decoded = @ - 1, !.returned = @ + 1, !.available = @ - 1]

HasFrame(d) == isOpened(d) /\ d.available > 0 /\ d.decoded > 0

Drop(d) == IF HasFrame(d) THEN GetFrame(d) ELSE d

Out(d, found) ==
  [found |-> found, address |-> IF found = "picture" THEN d.source
                                                     ELSE NoAddress,
   latest |-> found = "picture", whole |-> found = "picture"]

(* retrieve(): the copy to the host, or the encoder behind it, may fail. *)
Take(d) ==
  { [out |-> Out(d, found), dec |-> Drop(d)] :
      found \in IF HasFrame(d) THEN {"picture", "failed"} ELSE {"nothing"} }
=============================================================================
