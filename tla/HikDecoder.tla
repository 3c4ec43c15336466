----------------------------- MODULE HikDecoder -----------------------------
(***************************************************************************)
(* Class HikDecoder (src/hik_decoder.cpp) over the device SDK wrapper      *)
(* HikSDKCap (src/hik.cpp): a camera that is asked for one JPEG at a time. *)
(*                                                                         *)
(* The stream calls a decoder only under its decoder mutex, so a call is   *)
(* an operator: from a decoder, the set of its possible outcomes.  An      *)
(* outcome of open and grab is [ok, dec]; retrieve also hands out what it  *)
(* found.  A picture is reduced to the questions asked of it: whose it is, *)
(* whether it is the latest capture, and whether it is a whole JPEG.       *)
(***************************************************************************)
CONSTANTS
  Malformed,  (* the addresses parseHikUrl() does not accept                 *)
  NoAddress   (* of a decoder that is not logged in                          *)

Outcome(ok, dec) == [ok |-> ok, dec |-> dec]

(***************************************************************************)
(* login: address of cap_'s session; opened: opened_; jpeg: jpeg_buffer_,  *)
(* "padded" when it is longer than the picture in it; cached: last_frame_, *)
(* relative to the latest capture; first_frame: first_frame_after_open_.   *)
(***************************************************************************)
Decoder(Address) ==
  [kind : {"hik"}, login : Address \cup {NoAddress}, opened : BOOLEAN,
   jpeg : {"none", "whole", "padded"}, cached : {"none", "latest", "older"},
   first_frame : BOOLEAN]

(* release() leaves nothing of the login; a new decoder is like that. *)
Released ==
  [kind |-> "hik", login |-> NoAddress, opened |-> FALSE, jpeg |-> "none",
   cached |-> "none", first_frame |-> FALSE]

isOpened(d) == d.opened /\ d.login # NoAddress

LoggedIn(url) ==
  [Released EXCEPT !.login = url, !.opened = TRUE, !.first_frame = TRUE]

(* Mutant: any login in use is kept, whatever the address. *)
OpenKeepsLogin(d, url, reachable) ==
  IF url \in Malformed                     THEN {Outcome(FALSE, d)}
  ELSE IF isOpened(d)                      THEN {Outcome(TRUE, d)}
  ELSE IF reachable                        THEN {Outcome(TRUE, LoggedIn(url))}
  ELSE                                          {Outcome(FALSE, Released)}

(***************************************************************************)
(* open(): an address that does not parse changes nothing, the login in    *)
(* use is kept, anything else logs out first.  `reachable' is whether the  *)
(* device accepts a login.                                                 *)
(***************************************************************************)
Open(d, url, reachable) ==
  IF url \in Malformed                     THEN {Outcome(FALSE, d)}
  ELSE IF isOpened(d) /\ d.login = url     THEN {Outcome(TRUE, d)}
  ELSE IF reachable                        THEN {Outcome(TRUE, LoggedIn(url))}
  ELSE                                          {Outcome(FALSE, Released)}

(* Mutant: the final resize of Capture() is missing. *)
CapturedUncut(d) ==
  [d EXCEPT !.jpeg = "padded",
            !.cached = IF @ = "none" THEN "none" ELSE "older"]

(* A capture that succeeds: the buffer is cut to the picture's size, what  *)
(* retrieve() decoded before is of an older capture.                       *)
Captured(d) ==
  [d EXCEPT !.jpeg = "whole",
            !.cached = IF @ = "none" THEN "none" ELSE "older"]

(* A capture that fails: the buffer was enlarged before the call, unless   *)
(* it was large enough; after a session error the decoder is closed.       *)
LeftWith(d, jpeg, opened) == [d EXCEPT !.jpeg = jpeg, !.opened = opened]

CaptureFailed(d) ==
  { LeftWith(d, j, o) : j \in {"padded"} \cup ({d.jpeg} \ {"none"}), o \in BOOLEAN }

(***************************************************************************)
(* grab(): the first picture after a login is thrown away for a second     *)
(* one, either capture can fail.  Failed key-frame requests only log.      *)
(***************************************************************************)
Grab(d, delivers) ==
  LET second == [Captured(d) EXCEPT !.first_frame = FALSE]
      failed == CaptureFailed(d)
                \cup (IF d.first_frame /\ delivers
                        THEN CaptureFailed(second) ELSE {})
  IN  IF ~isOpened(d) THEN {Outcome(FALSE, d)}
      ELSE { Outcome(FALSE, f) : f \in failed }
           \cup (IF delivers THEN {Outcome(TRUE, second)} ELSE {})

(* retrieve(dummy, false) takes nothing away. *)
Drop(d) == d

Picture(d, latest, whole) ==
  [found |-> "picture", address |-> d.login, latest |-> latest,
   whole |-> whole]

Without(found) ==
  [found |-> found, address |-> NoAddress, latest |-> FALSE, whole |-> FALSE]

(***************************************************************************)
(* What a job takes.  In shared-memory mode retrieve() decodes the buffer  *)
(* only while last_frame_ is empty, and a buffer may fail to decode;       *)
(* otherwise getEncodedFrame() hands out the buffer as it is.              *)
(***************************************************************************)
Retrieve(d) ==
  IF d.jpeg = "none" THEN {[out |-> Without("nothing"), dec |-> d]}
  ELSE IF d.cached # "none"
    THEN {[out |-> Picture(d, d.cached = "latest", TRUE), dec |-> d]}
    ELSE {[out |-> Picture(d, TRUE, TRUE),
           dec |-> [d EXCEPT !.cached = "latest"]],
          [out |-> Without("failed"), dec |-> d]}

GetEncodedFrame(d) ==
  IF d.jpeg = "none" THEN {[out |-> Without("nothing"), dec |-> d]}
  ELSE {[out |-> Picture(d, TRUE, d.jpeg = "whole"), dec |-> d]}

Take(d, use_shared_mem) ==
  IF use_shared_mem THEN Retrieve(d) ELSE GetEncodedFrame(d)
=============================================================================
