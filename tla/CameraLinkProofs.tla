-------------------------- MODULE CameraLinkProofs --------------------------
(***************************************************************************)
(* Theorems about CameraLink, proved for any addresses, any time limits    *)
(* and any number of frame buffers.                                        *)
(*                                                                         *)
(* The stream's reconnection logic works with any of the three decoder     *)
(* classes.  So the proof goes in two halves: what each call of the        *)
(* interface promises whatever the class is (ReleasedFacts ... TakeFacts,  *)
(* proved class by class), and the invariant, which uses nothing of the    *)
(* classes but these promises.                                             *)
(***************************************************************************)
EXTENDS CameraLink, TLAPS

HikState  == Hik!Decoder(Url)
CpuState  == Cpu!Decoder(Url)
CudaState == Cuda!Decoder(Url)

(* The address a decoder is, or was last, connected to. *)
AddressOf(d) == IF d.kind = "hik" THEN d.login ELSE d.source

(* A decoder of one of the classes, whose two frame counts agree. *)
CountsAgree(d) ==
  isOpened(d) => d.available = d.decoded /\ d.returned + d.decoded <= MaxCache

Good(d) ==
  \/ d \in HikState
  \/ d \in CpuState
  \/ d \in CudaState /\ CountsAgree(d)

(* A job that takes from the decoder finds something. *)
Holds(d) ==
  CASE d.kind = "hik"  -> d.jpeg # "none"
    [] d.kind = "cpu"  -> d.ready
    [] d.kind = "cuda" -> Cuda!HasFrame(d)

(* What the decoder holds is a whole JPEG, if it is one at all. *)
Whole(d) == d.kind = "hik" => d.jpeg \in {"none", "whole"}

(***************************************************************************)
(* The inductive invariant, conjunct by conjunct.                          *)
(***************************************************************************)
DecoderInv ==
  /\ Good(decoder)
  /\ grabbed => Whole(decoder)
  /\ job = "queued" /\ ~overtaken /\ isOpened(decoder) => Holds(decoder)

(* An update to another address of the same class keeps a login of the     *)
(* device SDK until the IO thread, under the same lock, opens again.       *)
Reopening ==
  force_reopen /\ io_pc = "open" /\ decoder.kind = "hik" /\ url \notin RtspUrl

AddressInv ==
  /\ isOpened(decoder) => AddressOf(decoder) = url \/ Reopening
  /\ url_changed /\ ~decoder_changed => TargetKind(pending_url) = decoder.kind

ClockInv ==
  /\ offline <= quiet
  /\ failures = 0 => offline = 0

IInv == TypeOK /\ DecoderInv /\ AddressInv /\ ClockInv

-----------------------------------------------------------------------------
(* The promises of the interface, first of each class. *)

LEMMA Kinds ==
  /\ \A d \in HikState : d.kind = "hik"
  /\ \A d \in CpuState : d.kind = "cpu"
  /\ \A d \in CudaState : d.kind = "cuda"
BY DEF HikState, CpuState, CudaState, Hik!Decoder, Cpu!Decoder, Cuda!Decoder

LEMMA HikReleased ==
  /\ Hik!Released \in HikState
  /\ ~Hik!isOpened(Hik!Released)
  /\ Hik!Released.kind = "hik" /\ Hik!Released.jpeg = "none"
BY DEF HikState, Hik!Decoder, Hik!Released, Hik!isOpened

LEMMA HikOpen ==
  ASSUME NEW d \in HikState, NEW u \in Url, NEW reachable \in BOOLEAN,
         NEW o \in Hik!Open(d, u, reachable)
  PROVE  /\ o.dec \in HikState
         /\ o.dec.jpeg = "none" \/ o.dec = d
         /\ \/ o.dec.login = u \/ ~Hik!isOpened(o.dec)
            \/ o.dec = d /\ u \in RtspUrl
<1>1. Hik!LoggedIn(u) \in HikState /\ Hik!LoggedIn(u).login = u
      /\ Hik!LoggedIn(u).jpeg = "none"
  BY DEF HikState, Hik!Decoder, Hik!LoggedIn, Hik!Released
<1>2. \/ o.dec = d /\ (u \in RtspUrl \/ d.login = u)
      \/ o.dec = Hik!LoggedIn(u)
      \/ o.dec = Hik!Released
  BY DEF Hik!Open, Hik!Outcome
<1> QED
  BY <1>1, <1>2, HikReleased

LEMMA HikCaptured ==
  ASSUME NEW d \in HikState
  PROVE  /\ Hik!Captured(d) \in HikState
         /\ Hik!Captured(d).jpeg = "whole"
         /\ Hik!Captured(d).login = d.login
         /\ Hik!Captured(d).opened = d.opened
BY DEF HikState, Hik!Decoder, Hik!Captured

LEMMA HikCaptureFailed ==
  ASSUME NEW d \in HikState, NEW f \in Hik!CaptureFailed(d)
  PROVE  /\ f \in HikState
         /\ f.login = d.login
         /\ f.jpeg # "none"
<1>1. PICK j \in {"padded"} \cup ({d.jpeg} \ {"none"}), o \in BOOLEAN :
        f = Hik!LeftWith(d, j, o)
  BY DEF Hik!CaptureFailed
<1>2. j \in {"whole", "padded"}
  BY DEF HikState, Hik!Decoder
<1> QED
  BY <1>1, <1>2 DEF HikState, Hik!Decoder, Hik!LeftWith

LEMMA HikGrab ==
  ASSUME NEW d \in HikState, NEW delivers \in BOOLEAN, NEW o \in Hik!Grab(d, delivers)
  PROVE  /\ o.ok \in BOOLEAN
         /\ o.dec \in HikState
         /\ o.dec.login = d.login
         /\ Hik!isOpened(o.dec) => Hik!isOpened(d)
         /\ o.dec.jpeg # "none" \/ o.dec = d
         /\ o.ok => o.dec.jpeg = "whole"
<1> DEFINE second == [Hik!Captured(d) EXCEPT !.first_frame = FALSE]
<1>1. /\ second \in HikState /\ second.jpeg = "whole"
      /\ second.login = d.login /\ second.opened = d.opened
  BY HikCaptured DEF HikState, Hik!Decoder
<1> HIDE DEF second
<1>2. CASE ~Hik!isOpened(d)
  <2>1. o = Hik!Outcome(FALSE, d)
    BY <1>2 DEF Hik!Grab
  <2> QED
    BY <2>1, <1>2 DEF Hik!Outcome
<1>3. CASE Hik!isOpened(d)
  <2>1. \/ o.ok = TRUE /\ o.dec = second
        \/ o.ok = FALSE /\ o.dec \in Hik!CaptureFailed(d)
        \/ o.ok = FALSE /\ o.dec \in Hik!CaptureFailed(second)
    <3>1. \/ o = Hik!Outcome(TRUE, second)
          \/ \E f \in Hik!CaptureFailed(d) : o = Hik!Outcome(FALSE, f)
          \/ \E f \in Hik!CaptureFailed(second) : o = Hik!Outcome(FALSE, f)
      BY <1>3 DEF Hik!Grab, second
    <3> QED
      BY <3>1 DEF Hik!Outcome
  <2> QED
    BY <1>1, <1>3, <2>1, HikCaptureFailed DEF Hik!isOpened
<1> QED
  BY <1>2, <1>3

LEMMA HikTake ==
  ASSUME NEW d \in HikState, NEW shared \in BOOLEAN, NEW t \in Hik!Take(d, shared)
  PROVE  /\ t.dec \in HikState
         /\ t.dec.login = d.login /\ t.dec.jpeg = d.jpeg
         /\ t.dec.opened = d.opened
         /\ t.out.found = "picture" => t.out.address = d.login
         /\ t.out.found = "nothing" => d.jpeg = "none"
         /\ t.out.found = "picture" /\ ~t.out.whole => d.jpeg = "padded"
<1> DEFINE decoded == [d EXCEPT !.cached = "latest"]
<1>1. /\ decoded \in HikState /\ decoded.login = d.login
      /\ decoded.jpeg = d.jpeg /\ decoded.opened = d.opened
  BY DEF HikState, Hik!Decoder
<1> HIDE DEF decoded
<1>2. /\ t.dec = d \/ t.dec = decoded
      /\ \/ \E latest : t.out = Hik!Picture(d, latest, TRUE)
         \/ t.out = Hik!Picture(d, TRUE, d.jpeg = "whole") /\ d.jpeg # "none"
         \/ t.out = Hik!Without("nothing") /\ d.jpeg = "none"
         \/ t.out = Hik!Without("failed")
  <2>1. \/ t = [out |-> Hik!Without("nothing"), dec |-> d] /\ d.jpeg = "none"
        \/ \E latest : t = [out |-> Hik!Picture(d, latest, TRUE), dec |-> d]
        \/ t = [out |-> Hik!Picture(d, TRUE, TRUE), dec |-> decoded]
        \/ t = [out |-> Hik!Without("failed"), dec |-> d]
        \/ /\ t = [out |-> Hik!Picture(d, TRUE, d.jpeg = "whole"), dec |-> d]
           /\ d.jpeg # "none"
    BY DEF Hik!Take, Hik!Retrieve, Hik!GetEncodedFrame, decoded
  <2>2. CASE t = [out |-> Hik!Without("nothing"), dec |-> d] /\ d.jpeg = "none"
    BY <2>2
  <2>3. ASSUME NEW latest, t = [out |-> Hik!Picture(d, latest, TRUE), dec |-> d]
        PROVE  t.out = Hik!Picture(d, latest, TRUE) /\ t.dec = d
    BY <2>3
  <2>4. CASE t = [out |-> Hik!Picture(d, TRUE, TRUE), dec |-> decoded]
    <3>1. t.out = Hik!Picture(d, TRUE, TRUE) /\ t.dec = decoded
      BY <2>4
    <3> QED
      BY <3>1, Zenon
  <2>5. CASE t = [out |-> Hik!Without("failed"), dec |-> d]
    BY <2>5
  <2>6. CASE /\ t = [out |-> Hik!Picture(d, TRUE, d.jpeg = "whole"), dec |-> d]
             /\ d.jpeg # "none"
    BY <2>6
  <2> QED
    BY <2>1, <2>2, <2>3, <2>4, <2>5, <2>6, Zenon
<1>3. \A latest : \A whole \in BOOLEAN :
        /\ Hik!Picture(d, latest, whole).found = "picture"
        /\ Hik!Picture(d, latest, whole).address = d.login
        /\ Hik!Picture(d, latest, whole).whole <=> whole
  BY DEF Hik!Picture
<1>4. \A found : Hik!Without(found).found = found
  BY DEF Hik!Without
<1>5. d.jpeg \in {"none", "whole", "padded"}
  BY DEF HikState, Hik!Decoder
<1>6. /\ t.out.found = "picture" => t.out.address = d.login
      /\ t.out.found = "nothing" => d.jpeg = "none"
      /\ t.out.found = "picture" /\ ~t.out.whole => d.jpeg = "padded"
  <2>1. CASE \E latest : t.out = Hik!Picture(d, latest, TRUE)
    BY <2>1, <1>3
  <2>2. CASE t.out = Hik!Picture(d, TRUE, d.jpeg = "whole") /\ d.jpeg # "none"
    BY <2>2, <1>3, <1>5, ZenonT(60)
  <2>3. CASE t.out = Hik!Without("nothing") /\ d.jpeg = "none"
    BY <2>3, <1>4
  <2>4. CASE t.out = Hik!Without("failed")
    BY <2>4, <1>4
  <2> QED
    BY <1>2, <2>1, <2>2, <2>3, <2>4
<1> QED
  BY <1>1, <1>2, <1>6

-----------------------------------------------------------------------------
LEMMA CpuReleased ==
  /\ Cpu!Released \in CpuState
  /\ ~Cpu!isOpened(Cpu!Released)
  /\ Cpu!Released.kind = "cpu"
BY DecoderAssumption DEF CpuState, Cpu!Decoder, Cpu!Released, Cpu!isOpened

LEMMA CpuOpen ==
  ASSUME NEW d \in CpuState, NEW u \in Url, NEW reachable \in BOOLEAN,
         NEW o \in Cpu!Open(d, u, reachable)
  PROVE  /\ o.dec \in CpuState
         /\ o.dec.source = u \/ ~Cpu!isOpened(o.dec)
<1> DEFINE opened == [Cpu!Released EXCEPT !.source = u, !.opened = TRUE]
<1>1. opened \in CpuState /\ opened.source = u
  <2>1. \A d1 \in CpuState : LET e == [d1 EXCEPT !.source = u, !.opened = TRUE]
                            IN  e \in CpuState /\ e.source = u
    BY DEF CpuState, Cpu!Decoder
  <2> QED
    BY <2>1, CpuReleased
<1> HIDE DEF opened
<1>2. o.dec = opened \/ o.dec = Cpu!Released
  BY DEF Cpu!Open, Cpu!Outcome, opened
<1> QED
  BY <1>1, <1>2, CpuReleased

LEMMA CpuReceived ==
  ASSUME NEW d \in CpuState, d.buffered > 0
  PROVE  /\ Cpu!Received(d) \in CpuState
         /\ Cpu!Received(d).ready
         /\ Cpu!Received(d).source = d.source
         /\ Cpu!Received(d).opened = d.opened
<1>1. PICK k \in 0 .. MaxBurst : k = d.buffered - 1
  BY DecoderAssumption DEF CpuState, Cpu!Decoder
<1> QED
  BY <1>1 DEF CpuState, Cpu!Decoder, Cpu!Received

LEMMA CpuGrab ==
  ASSUME NEW d \in CpuState, NEW delivers \in BOOLEAN, NEW o \in Cpu!Grab(d, delivers)
  PROVE  /\ o.ok \in BOOLEAN
         /\ o.dec \in CpuState
         /\ o.dec.source = d.source
         /\ Cpu!isOpened(o.dec) => Cpu!isOpened(d)
         /\ o.ok \/ d.ready => o.dec.ready
<1> DEFINE empty  == [d EXCEPT !.blank = TRUE]
           fed(n) == [empty EXCEPT !.buffered = n]
<1>1. /\ empty \in CpuState
      /\ empty.source = d.source /\ empty.opened = d.opened
      /\ empty.ready = d.ready
  BY DEF CpuState, Cpu!Decoder
<1>2. \A n \in 0 .. MaxBurst :
        /\ fed(n) \in CpuState /\ fed(n).buffered = n
        /\ fed(n).source = d.source /\ fed(n).opened = d.opened
  BY DEF CpuState, Cpu!Decoder
<1> HIDE DEF empty, fed
<1>3. CASE ~Cpu!isOpened(d)
  <2>1. o = Cpu!Outcome(FALSE, d)
    BY <1>3 DEF Cpu!Grab
  <2> QED
    BY <2>1 DEF Cpu!Outcome
<1>4. CASE Cpu!isOpened(d) /\ d.buffered > 0
  <2>1. o = Cpu!Outcome(TRUE, Cpu!Received(d))
    BY <1>4 DEF Cpu!Grab
  <2>2. o.ok = TRUE /\ o.dec = Cpu!Received(d)
    BY <2>1 DEF Cpu!Outcome
  <2> QED
    BY <1>4, <2>2, CpuReceived
<1>5. CASE Cpu!isOpened(d) /\ ~(d.buffered > 0)
  <2>1. \/ o = Cpu!Outcome(FALSE, empty)
        \/ \E n \in Cpu!SendPacket \ {0} :
             o = Cpu!Outcome(TRUE, Cpu!Received(fed(n)))
    BY <1>5 DEF Cpu!Grab, empty, fed
  <2>2. CASE o = Cpu!Outcome(FALSE, empty)
    BY <1>1, <1>5, <2>2 DEF Cpu!Outcome
  <2>3. ASSUME NEW n \in Cpu!SendPacket \ {0},
               o = Cpu!Outcome(TRUE, Cpu!Received(fed(n)))
        PROVE  /\ o.ok = TRUE /\ o.dec \in CpuState /\ o.dec.ready
               /\ o.dec.source = d.source
    <3>1. n \in 0 .. MaxBurst /\ n > 0
      BY DecoderAssumption DEF Cpu!SendPacket
    <3>2. o.ok = TRUE /\ o.dec = Cpu!Received(fed(n))
      BY <2>3 DEF Cpu!Outcome
    <3> QED
      BY <1>2, <3>1, <3>2, CpuReceived
  <2> QED
    BY <1>5, <2>1, <2>2, <2>3
<1> QED
  BY <1>3, <1>4, <1>5

LEMMA CpuConsumed ==
  ASSUME NEW d \in CpuState
  PROVE  /\ Cpu!Consumed(d) \in CpuState
         /\ Cpu!Consumed(d).source = d.source
         /\ Cpu!Consumed(d).opened = d.opened
BY DEF CpuState, Cpu!Decoder, Cpu!Consumed

LEMMA CpuTake ==
  ASSUME NEW d \in CpuState, NEW t \in Cpu!Take(d)
  PROVE  /\ t.dec = Cpu!Consumed(d)
         /\ t.out.found = "picture" => t.out.address = d.source /\ t.out.whole
         /\ t.out.found = "nothing" => ~d.ready
<1>1. PICK found \in IF ~d.ready THEN {"nothing"}
                     ELSE IF d.blank THEN {"failed"} ELSE {"picture", "failed"} :
        t = [out |-> Cpu!Out(d, found), dec |-> Cpu!Consumed(d)]
  BY DEF Cpu!Take
<1>2. /\ t.dec = Cpu!Consumed(d) /\ t.out.found = found
      /\ found = "picture" => t.out.address = d.source /\ t.out.whole = TRUE
  BY <1>1 DEF Cpu!Out
<1> QED
  BY <1>1, <1>2

-----------------------------------------------------------------------------
LEMMA CudaReleased ==
  /\ Cuda!Released \in CudaState
  /\ ~Cuda!isOpened(Cuda!Released)
  /\ Cuda!Released.kind = "cuda"
BY DecoderAssumption DEF CudaState, Cuda!Decoder, Cuda!Released, Cuda!isOpened

LEMMA CudaOpen ==
  ASSUME NEW d \in CudaState, NEW u \in Url, NEW reachable \in BOOLEAN,
         NEW o \in Cuda!Open(d, u, reachable)
  PROVE  /\ o.dec \in CudaState
         /\ o.dec.source = u \/ ~Cuda!isOpened(o.dec)
         /\ o.dec.available = o.dec.decoded
         /\ o.dec.returned + o.dec.decoded <= MaxCache
<1> DEFINE fresh == [Cuda!Released EXCEPT !.source = u, !.opened = TRUE]
           opened(e) == [fresh EXCEPT !.error = e]
<1>1. ASSUME NEW e \in BOOLEAN
      PROVE  /\ opened(e) \in CudaState /\ opened(e).source = u
             /\ opened(e).available = 0 /\ opened(e).decoded = 0
             /\ opened(e).returned = 0
  <2>1. \A d1 \in CudaState :
          LET f == [[d1 EXCEPT !.source = u, !.opened = TRUE] EXCEPT !.error = e]
          IN  /\ f \in CudaState /\ f.source = u
              /\ f.available = d1.available /\ f.decoded = d1.decoded
              /\ f.returned = d1.returned
    BY DEF CudaState, Cuda!Decoder
  <2>2. /\ Cuda!Released.available = 0 /\ Cuda!Released.decoded = 0
        /\ Cuda!Released.returned = 0
    BY DEF Cuda!Released
  <2> QED
    BY <2>1, <2>2, CudaReleased
<1> HIDE DEF fresh, opened
<1>2. o.dec = Cuda!Released \/ \E e \in BOOLEAN : o.dec = opened(e)
  <2>1. \/ o = Cuda!Outcome(FALSE, Cuda!Released)
        \/ \E e \in BOOLEAN : o = Cuda!Outcome(TRUE, opened(e))
    BY DEF Cuda!Open, opened, fresh
  <2> QED
    BY <2>1 DEF Cuda!Outcome
<1>3. Cuda!Released.available = 0 /\ Cuda!Released.decoded = 0
      /\ Cuda!Released.returned = 0
  BY DEF Cuda!Released
<1> QED
  BY <1>1, <1>2, <1>3, CudaReleased, DecoderAssumption

LEMMA CudaDecode ==
  ASSUME NEW d \in CudaState, NEW e \in Cuda!Decode(d)
  PROVE  /\ e \in CudaState
         /\ e.source = d.source /\ e.opened = d.opened
         /\ \/ e.available = -1
            \/ e.available = e.decoded /\ e.returned + e.decoded <= MaxCache
<1>1. \A n \in 0 .. MaxBurst : Cuda!Displayed(n) \in 0 .. MaxCache
  BY DecoderAssumption DEF Cuda!Displayed
<1>2. CASE e = [d EXCEPT !.available = -1]
  BY <1>2, DecoderAssumption DEF CudaState, Cuda!Decoder
<1>6. 0 \in 0 .. MaxCache /\ -1 \in -1 .. MaxCache
      /\ 0 .. MaxCache \subseteq -1 .. MaxCache
  BY DecoderAssumption
<1>3. ASSUME NEW k \in 0 .. MaxCache, NEW a \in -1 .. MaxCache,
             NEW z \in 0 .. MaxCache, a = k, z = 0,
             e = [d EXCEPT !.available = a, !.decoded = k, !.returned = z]
      PROVE  /\ e \in CudaState
             /\ e.source = d.source /\ e.opened = d.opened
             /\ e.available = e.decoded /\ e.returned + e.decoded <= MaxCache
  <2>1. /\ e \in CudaState /\ e.source = d.source /\ e.opened = d.opened
        /\ e.available = a /\ e.decoded = k /\ e.returned = z
    BY <1>3 DEF CudaState, Cuda!Decoder
  <2> QED
    BY <1>3, <2>1, DecoderAssumption
<1>4. ASSUME NEW k \in 0 .. MaxCache, NEW a \in -1 .. MaxCache,
             NEW z \in 0 .. MaxCache, a = -1,
             e = [d EXCEPT !.available = a, !.decoded = k, !.returned = z,
                           !.error = TRUE]
      PROVE  /\ e \in CudaState
             /\ e.source = d.source /\ e.opened = d.opened
             /\ e.available = -1
  BY <1>4 DEF CudaState, Cuda!Decoder
<1>5. \/ e = [d EXCEPT !.available = -1]
      \/ \E n \in 0 .. MaxBurst :
           e = [d EXCEPT !.available = Cuda!Displayed(n),
                         !.decoded = Cuda!Displayed(n), !.returned = 0]
      \/ \E n \in 0 .. MaxBurst :
           e = [d EXCEPT !.available = -1, !.decoded = Cuda!Displayed(n),
                         !.returned = 0, !.error = TRUE]
  BY DEF Cuda!Decode
<1>7. ASSUME NEW n \in 0 .. MaxBurst,
             e = [d EXCEPT !.available = Cuda!Displayed(n),
                           !.decoded = Cuda!Displayed(n), !.returned = 0]
      PROVE  /\ e \in CudaState
             /\ e.source = d.source /\ e.opened = d.opened
             /\ e.available = e.decoded /\ e.returned + e.decoded <= MaxCache
  BY <1>1, <1>3, <1>6, <1>7, Zenon
<1>8. ASSUME NEW n \in 0 .. MaxBurst,
             e = [d EXCEPT !.available = -1, !.decoded = Cuda!Displayed(n),
                           !.returned = 0, !.error = TRUE]
      PROVE  /\ e \in CudaState
             /\ e.source = d.source /\ e.opened = d.opened
             /\ e.available = -1
  BY <1>1, <1>4, <1>6, <1>8, Zenon
<1> QED
  BY <1>2, <1>5, <1>7, <1>8

LEMMA CudaGrab ==
  ASSUME NEW d \in CudaState, CountsAgree(d), NEW delivers \in BOOLEAN,
         NEW o \in Cuda!Grab(d, delivers)
  PROVE  /\ o.ok \in BOOLEAN
         /\ o.dec \in CudaState /\ CountsAgree(o.dec)
         /\ o.dec.source = d.source
         /\ Cuda!isOpened(o.dec) => Cuda!isOpened(d)
         /\ o.ok => Cuda!HasFrame(o.dec)
         /\ Cuda!isOpened(o.dec) /\ Cuda!HasFrame(d) => Cuda!HasFrame(o.dec)
<1> DEFINE closed(e) == [e EXCEPT !.opened = FALSE]
<1>0. \A e \in CudaState : /\ closed(e) \in CudaState
                           /\ closed(e).source = e.source /\ ~closed(e).opened
  BY DEF CudaState, Cuda!Decoder
<1> HIDE DEF closed
<1>1. \/ o.ok = FALSE /\ o.dec = d
      \/ o.ok = TRUE /\ o.dec = d /\ Cuda!isOpened(d) /\ d.available > 0
      \/ \E e \in Cuda!Decode(d) :
           /\ Cuda!isOpened(d) /\ e.available # 0
           /\ \/ o.ok = FALSE /\ o.dec = closed(e)
              \/ o.ok = TRUE /\ o.dec = e /\ ~(e.available < 0)
  <2>1. \/ o = Cuda!Outcome(FALSE, d)
        \/ o = Cuda!Outcome(TRUE, d) /\ Cuda!isOpened(d) /\ d.available > 0
        \/ \E e \in Cuda!Decode(d) :
             /\ Cuda!isOpened(d) /\ e.available # 0
             /\ \/ o = Cuda!Outcome(FALSE, closed(e))
                \/ o = Cuda!Outcome(TRUE, e) /\ ~(e.available < 0)
    BY DEF Cuda!Grab, closed
  <2> QED
    BY <2>1 DEF Cuda!Outcome
<1>2. \A e \in CudaState : e.kind = "cuda" /\ e.available \in Int
                           /\ (isOpened(e) <=> Cuda!isOpened(e))
  BY DecoderAssumption DEF CudaState, Cuda!Decoder, isOpened
<1>3. CASE o.ok = FALSE /\ o.dec = d
  BY <1>3
<1>6. CASE o.ok = TRUE /\ o.dec = d /\ Cuda!isOpened(d) /\ d.available > 0
  BY <1>2, <1>6 DEF CountsAgree, Cuda!HasFrame
<1>4. ASSUME NEW e \in Cuda!Decode(d), Cuda!isOpened(d), o.ok = FALSE, o.dec = closed(e)
      PROVE  o.dec \in CudaState /\ CountsAgree(o.dec) /\ o.dec.source = d.source
             /\ ~Cuda!isOpened(o.dec)
  BY <1>0, <1>2, <1>4, CudaDecode DEF CountsAgree, Cuda!isOpened
<1>5. ASSUME NEW e \in Cuda!Decode(d), Cuda!isOpened(d), e.available # 0,
             ~(e.available < 0), o.ok = TRUE, o.dec = e
      PROVE  o.dec \in CudaState /\ CountsAgree(o.dec) /\ o.dec.source = d.source
             /\ Cuda!HasFrame(o.dec)
  BY <1>2, <1>5, CudaDecode DEF CountsAgree, Cuda!isOpened, Cuda!HasFrame
<1> QED
  BY <1>1, <1>3, <1>4, <1>5, <1>6

LEMMA CudaDrop ==
  ASSUME NEW d \in CudaState, CountsAgree(d)
  PROVE  /\ Cuda!Drop(d) \in CudaState /\ CountsAgree(Cuda!Drop(d))
         /\ Cuda!Drop(d).source = d.source
         /\ Cuda!Drop(d).opened = d.opened
<1>1. CASE ~Cuda!HasFrame(d)
  BY <1>1 DEF Cuda!Drop
<1>2. CASE Cuda!HasFrame(d)
  <2>1. \A e \in CudaState : e.kind = "cuda" /\ (isOpened(e) <=> Cuda!isOpened(e))
    BY DEF CudaState, Cuda!Decoder, isOpened
  <2>2. d.available > 0 /\ d.decoded > 0 /\ d.available = d.decoded
        /\ d.returned + d.decoded <= MaxCache
    BY <1>2, <2>1 DEF Cuda!HasFrame, CountsAgree
  <2> DEFINE e == Cuda!GetFrame(d)
  <2>3. /\ e \in CudaState
        /\ e.source = d.source /\ e.opened = d.opened
        /\ e.available = e.decoded /\ e.returned + e.decoded <= MaxCache
    <3>1. PICK k \in 0 .. MaxCache, r \in 0 .. MaxCache :
            k = d.decoded - 1 /\ r = d.returned + 1 /\ k = d.available - 1
      BY <2>2, DecoderAssumption DEF CudaState, Cuda!Decoder
    <3>2. e = [d EXCEPT !.decoded = k, !.returned = r, !.available = k]
      BY <3>1 DEF Cuda!GetFrame
    <3>3. k \in -1 .. MaxCache
      BY DecoderAssumption
    <3>4. /\ e \in CudaState /\ e.source = d.source /\ e.opened = d.opened
          /\ e.available = k /\ e.decoded = k /\ e.returned = r
      BY <3>2, <3>3 DEF CudaState, Cuda!Decoder
    <3>5. d.returned \in Int /\ d.decoded \in Int
      BY DecoderAssumption DEF CudaState, Cuda!Decoder
    <3> QED
      BY <2>2, <3>1, <3>4, <3>5, DecoderAssumption
  <2> QED
    BY <1>2, <2>3 DEF Cuda!Drop, CountsAgree
<1> QED
  BY <1>1, <1>2

LEMMA CudaTake ==
  ASSUME NEW d \in CudaState, NEW t \in Cuda!Take(d)
  PROVE  /\ t.dec = Cuda!Drop(d)
         /\ t.out.found = "picture" => t.out.address = d.source /\ t.out.whole
         /\ t.out.found = "nothing" => ~Cuda!HasFrame(d)
<1>1. PICK found \in IF Cuda!HasFrame(d) THEN {"picture", "failed"} ELSE {"nothing"} :
        t = [out |-> Cuda!Out(d, found), dec |-> Cuda!Drop(d)]
  BY DEF Cuda!Take
<1>2. /\ t.dec = Cuda!Drop(d) /\ t.out.found = found
      /\ found = "picture" => t.out.address = d.source /\ t.out.whole = TRUE
  BY <1>1 DEF Cuda!Out
<1> QED
  BY <1>1, <1>2

-----------------------------------------------------------------------------
(* The promises of the interface, whatever the class. *)

LEMMA ReleasedFacts ==
  ASSUME NEW kind \in Kind
  PROVE  /\ Good(Released(kind)) /\ ~isOpened(Released(kind))
         /\ Released(kind).kind = kind /\ Whole(Released(kind))
<1>1. CASE kind = "hik"
  BY <1>1, HikReleased DEF Released, Good, isOpened, Whole
<1>2. CASE kind = "cpu"
  BY <1>2, CpuReleased DEF Released, Good, isOpened, Whole
<1>3. CASE kind = "cuda"
  BY <1>3, CudaReleased DEF Released, Good, isOpened, Whole, CountsAgree
<1> QED
  BY <1>1, <1>2, <1>3 DEF Kind

(* open() connects to the address it was given, or leaves the decoder      *)
(* closed; only an address the class cannot read leaves it as it was.      *)
LEMMA OpenFacts ==
  ASSUME NEW d, Good(d), NEW u \in Url, NEW o \in Open(d, u)
  PROVE  /\ Good(o.dec) /\ o.dec.kind = d.kind
         /\ \/ AddressOf(o.dec) = u \/ ~isOpened(o.dec)
            \/ o.dec = d /\ d.kind = "hik" /\ u \in RtspUrl
         /\ Whole(d) => Whole(o.dec)
<1>1. CASE d \in HikState
  <2>1. o \in Hik!Open(d, u, camera # "dead")
    BY <1>1, Kinds DEF Open
  <2>2. (camera # "dead") \in BOOLEAN
    OBVIOUS
  <2>3. /\ o.dec \in HikState
        /\ o.dec.jpeg = "none" \/ o.dec = d
        /\ \/ o.dec.login = u \/ ~Hik!isOpened(o.dec)
           \/ o.dec = d /\ u \in RtspUrl
    BY <1>1, <2>1, <2>2, HikOpen
  <2> QED
    BY <1>1, <2>3, Kinds DEF Good, isOpened, AddressOf, Whole
<1>2. CASE d \in CpuState
  <2>1. o \in Cpu!Open(d, u, camera # "dead" /\ u \in RtspUrl)
    BY <1>2, Kinds DEF Open
  <2>2. o.dec \in CpuState /\ (o.dec.source = u \/ ~Cpu!isOpened(o.dec))
    BY <1>2, <2>1, CpuOpen
  <2> QED
    BY <1>2, <2>2, Kinds DEF Good, isOpened, AddressOf, Whole
<1>3. CASE d \in CudaState
  <2>1. o \in Cuda!Open(d, u, camera # "dead" /\ u \in RtspUrl)
    BY <1>3, Kinds DEF Open
  <2>2. /\ o.dec \in CudaState /\ (o.dec.source = u \/ ~Cuda!isOpened(o.dec))
        /\ o.dec.available = o.dec.decoded
        /\ o.dec.returned + o.dec.decoded <= MaxCache
    BY <1>3, <2>1, CudaOpen
  <2> QED
    BY <1>3, <2>2, Kinds DEF Good, isOpened, AddressOf, Whole, CountsAgree
<1> QED
  BY <1>1, <1>2, <1>3 DEF Good

(* grab() opens nothing and connects to nothing; what it reports as grabbed *)
(* a job can take; a failure leaves, if it leaves the decoder open, what a *)
(* job could take before.                                                  *)
LEMMA GrabFacts ==
  ASSUME NEW d, Good(d), NEW o \in Grab(d)
  PROVE  /\ o.ok \in BOOLEAN
         /\ Good(o.dec) /\ o.dec.kind = d.kind
         /\ AddressOf(o.dec) = AddressOf(d)
         /\ isOpened(o.dec) => isOpened(d)
         /\ o.ok => Holds(o.dec) /\ Whole(o.dec)
         /\ isOpened(o.dec) /\ Holds(d) => Holds(o.dec)
<1>0. (camera = "live") \in BOOLEAN
  OBVIOUS
<1>1. CASE d \in HikState
  <2>1. o \in Hik!Grab(d, camera = "live")
    BY <1>1, Kinds DEF Grab
  <2>2. /\ o.ok \in BOOLEAN
        /\ o.dec \in HikState
        /\ o.dec.login = d.login
        /\ Hik!isOpened(o.dec) => Hik!isOpened(d)
        /\ o.dec.jpeg # "none" \/ o.dec = d
        /\ o.ok => o.dec.jpeg = "whole"
    BY <1>0, <1>1, <2>1, HikGrab
  <2> QED
    BY <1>1, <2>2, Kinds DEF Good, isOpened, AddressOf, Whole, Holds
<1>2. CASE d \in CpuState
  <2>1. o \in Cpu!Grab(d, camera = "live")
    BY <1>2, Kinds DEF Grab
  <2>2. /\ o.ok \in BOOLEAN
        /\ o.dec \in CpuState
        /\ o.dec.source = d.source
        /\ Cpu!isOpened(o.dec) => Cpu!isOpened(d)
        /\ o.ok \/ d.ready => o.dec.ready
    BY <1>0, <1>2, <2>1, CpuGrab
  <2> QED
    BY <1>2, <2>2, Kinds DEF Good, isOpened, AddressOf, Whole, Holds
<1>3. CASE d \in CudaState /\ CountsAgree(d)
  <2>1. o \in Cuda!Grab(d, camera = "live")
    BY <1>3, Kinds DEF Grab
  <2>2. /\ o.ok \in BOOLEAN
        /\ o.dec \in CudaState /\ CountsAgree(o.dec)
        /\ o.dec.source = d.source
        /\ Cuda!isOpened(o.dec) => Cuda!isOpened(d)
        /\ o.ok => Cuda!HasFrame(o.dec)
        /\ Cuda!isOpened(o.dec) /\ Cuda!HasFrame(d) => Cuda!HasFrame(o.dec)
    BY <1>0, <1>3, <2>1, CudaGrab
  <2> QED
    BY <1>3, <2>2, Kinds DEF Good, isOpened, AddressOf, Whole, Holds
<1> QED
  BY <1>1, <1>2, <1>3 DEF Good

LEMMA DropFacts ==
  ASSUME NEW d, Good(d)
  PROVE  /\ Good(Drop(d)) /\ Drop(d).kind = d.kind
         /\ AddressOf(Drop(d)) = AddressOf(d)
         /\ isOpened(Drop(d)) => isOpened(d)
         /\ Whole(d) => Whole(Drop(d))
<1>1. CASE d \in HikState
  BY <1>1, Kinds DEF Drop, Hik!Drop, Good
<1>2. CASE d \in CpuState
  <2>1. /\ Drop(d) \in CpuState /\ Drop(d).source = d.source
        /\ Drop(d).opened = d.opened
    BY <1>2, Kinds, CpuConsumed DEF Drop, Cpu!Drop
  <2> QED
    BY <1>2, <2>1, Kinds DEF Good, isOpened, Cpu!isOpened, AddressOf, Whole
<1>3. CASE d \in CudaState /\ CountsAgree(d)
  <2>1. /\ Drop(d) \in CudaState /\ CountsAgree(Drop(d))
        /\ Drop(d).source = d.source /\ Drop(d).opened = d.opened
    BY <1>3, Kinds, CudaDrop DEF Drop
  <2> QED
    BY <1>3, <2>1, Kinds DEF Good, isOpened, Cuda!isOpened, AddressOf, Whole
<1> QED
  BY <1>1, <1>2, <1>3 DEF Good

(* A job takes pictures of the decoder's address, finds nothing only where *)
(* nothing was held, and a torn JPEG only where the buffer was not whole.  *)
LEMMA TakeFacts ==
  ASSUME NEW d, Good(d), use_shared_mem \in BOOLEAN, NEW t \in Take(d)
  PROVE  /\ Good(t.dec) /\ t.dec.kind = d.kind
         /\ AddressOf(t.dec) = AddressOf(d)
         /\ isOpened(t.dec) => isOpened(d)
         /\ Whole(d) => Whole(t.dec)
         /\ t.out.found = "picture" => t.out.address = AddressOf(d)
         /\ t.out.found = "nothing" => ~Holds(d)
         /\ t.out.found = "picture" /\ ~t.out.whole => ~Whole(d)
<1>1. CASE d \in HikState
  <2>1. t \in Hik!Take(d, use_shared_mem)
    BY <1>1, Kinds DEF Take
  <2>2. /\ t.dec \in HikState
        /\ t.dec.login = d.login /\ t.dec.jpeg = d.jpeg
        /\ t.dec.opened = d.opened
        /\ t.out.found = "picture" => t.out.address = d.login
        /\ t.out.found = "nothing" => d.jpeg = "none"
        /\ t.out.found = "picture" /\ ~t.out.whole => d.jpeg = "padded"
    BY <1>1, <2>1, HikTake
  <2> QED
    BY <1>1, <2>2, Kinds DEF Good, isOpened, Hik!isOpened, AddressOf, Whole, Holds
<1>2. CASE d \in CpuState
  <2>1. t \in Cpu!Take(d)
    BY <1>2, Kinds DEF Take
  <2>2. /\ t.dec = Cpu!Consumed(d)
        /\ t.out.found = "picture" => t.out.address = d.source /\ t.out.whole
        /\ t.out.found = "nothing" => ~d.ready
    BY <1>2, <2>1, CpuTake
  <2>3. t.dec = Drop(d)
    BY <1>2, <2>2, Kinds DEF Drop, Cpu!Drop
  <2> QED
    <3>1. AddressOf(d) = d.source /\ Whole(d)
          /\ (Holds(d) <=> d.ready)
      BY <1>2, Kinds DEF AddressOf, Whole, Holds
    <3> QED
      BY <2>2, <2>3, <3>1, DropFacts
<1>3. CASE d \in CudaState /\ CountsAgree(d)
  <2>1. t \in Cuda!Take(d)
    BY <1>3, Kinds DEF Take
  <2>2. /\ t.dec = Cuda!Drop(d)
        /\ t.out.found = "picture" => t.out.address = d.source /\ t.out.whole
        /\ t.out.found = "nothing" => ~Cuda!HasFrame(d)
    BY <1>3, <2>1, CudaTake
  <2>3. t.dec = Drop(d)
    BY <1>3, <2>2, Kinds DEF Drop
  <2> QED
    <3>1. AddressOf(d) = d.source /\ Whole(d)
          /\ (Holds(d) <=> Cuda!HasFrame(d))
      BY <1>3, Kinds DEF AddressOf, Whole, Holds
    <3> QED
      BY <2>2, <2>3, <3>1, DropFacts
<1> QED
  BY <1>1, <1>2, <1>3 DEF Good

-----------------------------------------------------------------------------
(* The invariant's types, in the parts the actions disturb one by one. *)
FlagTypes ==
  /\ running \in BOOLEAN /\ keep \in KeepOnFailure
  /\ use_shared_mem \in SharedMem /\ saved \in Saved
  /\ url \in Url /\ pending_url \in Url /\ pending \in Kind
  /\ url_changed \in BOOLEAN /\ decoder_changed \in BOOLEAN
  /\ force_reopen \in BOOLEAN /\ overtaken \in BOOLEAN /\ grabbed \in BOOLEAN
  /\ io_pc \in {"sleep", "open", "grab", "ended"}
  /\ job \in {"none", "queued", "running"}
  /\ camera \in {"live", "mute", "dead"}

ClockTypes ==
  /\ failures \in 0 .. MaxFailures
  /\ offline \in 0 .. OfflineLimit + 1
  /\ quiet \in 0 .. OfflineLimit + 1
  /\ grace \in 0 .. Grace + 1

SleepType == sleep \in 0 .. (MaxDelay * 5) \div 4

LEMMA TypeParts ==
  /\ TypeOK => FlagTypes /\ ClockTypes /\ SleepType
  /\ FlagTypes /\ ClockTypes /\ SleepType /\ Good(decoder) => TypeOK
BY DEF TypeOK, FlagTypes, ClockTypes, SleepType, Good, HikState, CpuState, CudaState

-----------------------------------------------------------------------------
(* The clocks. *)

LEMMA Limits ==
  /\ GraceRetry \in Nat /\ MaxDelay \in Nat /\ BaseDelay \in Nat
  /\ GraceRetry <= MaxDelay
  /\ Grace \in Nat /\ OfflineLimit \in Nat /\ MaxFailures \in 1 .. 7
BY TimeAssumption DEF Shifted

(* The back-off is never longer than a quarter more than MaxDelay. *)
LEMMA BackoffRange ==
  ASSUME NEW n \in 0 .. MaxFailures, NEW pause \in Backoff(n)
  PROVE  pause \in 0 .. (MaxDelay * 5) \div 4
<1>1. CASE n = 0
  BY <1>1, Limits DEF Backoff
<1>2. CASE n # 0
  <2>1. Shifted[n] \in Nat
    BY <1>2, Limits DEF Shifted
  <2> DEFINE product == BaseDelay * Shifted[n]
             delay   == AtMost(MaxDelay, product)
  <2>2. product \in Nat
    BY <2>1, Limits
  <2> HIDE DEF product
  <2>3. delay \in Nat /\ delay <= MaxDelay
    BY <2>2, Limits DEF AtMost
  <2>4. pause \in (delay * 3 + 3) \div 4 .. (delay * 5) \div 4
    BY <1>2 DEF Backoff, product
  <2> HIDE DEF delay
  <2> QED
    BY <2>3, <2>4, Limits
<1> QED
  BY <1>1, <1>2

(* Time passes for all clocks together. *)
LEMMA ClocksGoOn ==
  ASSUME ClockTypes, ClockInv, NEW delta \in CallTime
  PROVE  /\ OfflineLater(delta) \in 0 .. OfflineLimit + 1
         /\ Later(quiet, OfflineLimit, delta) \in 0 .. OfflineLimit + 1
         /\ OfflineLater(delta) <= Later(quiet, OfflineLimit, delta)
         /\ failures = 0 => OfflineLater(delta) = 0
         /\ Left(grace, delta) \in 0 .. Grace + 1
BY Limits DEF ClockTypes, ClockInv, CallTime, OfflineLater, Later, Left, AtMost

LEMMA ElapseStep ==
  ASSUME ClockTypes, ClockInv, NEW delta \in CallTime, Elapse(delta),
         UNCHANGED failures
  PROVE  ClockTypes' /\ ClockInv'
BY ClocksGoOn DEF Elapse, ClockTypes, ClockInv

LEMMA MarkFailureStep ==
  ASSUME ClockTypes, ClockInv, NEW delta \in CallTime, MarkFailure(delta)
  PROVE  ClockTypes' /\ ClockInv'
<1>1. CASE Left(grace, delta) > 0
  BY <1>1, ElapseStep DEF MarkFailure
<1>2. CASE ~(Left(grace, delta) > 0)
  <2>1. AtMost(MaxFailures, failures + 1) \in 1 .. MaxFailures
    BY Limits DEF AtMost, ClockTypes
  <2> QED
    BY <1>2, <2>1, ClocksGoOn, Limits DEF MarkFailure, ClockTypes, ClockInv
<1> QED
  BY <1>1, <1>2

LEMMA AliveStep ==
  ASSUME ClockTypes, Alive, grace' \in 0 .. Grace + 1
  PROVE  ClockTypes' /\ ClockInv'
BY Limits DEF Alive, ClockTypes, ClockInv

LEMMA ClockStep ==
  ASSUME IInv, [Next]_vars
  PROVE  ClockTypes' /\ ClockInv'
<1> USE TypeParts DEF IInv
<1>1. CASE UNCHANGED clocks
  BY <1>1 DEF clocks, ClockTypes, ClockInv
<1>2. CASE IoWake \/ IoNoOpen \/ IoOpenGivesUp \/ JobStep \/ CameraChanges
           \/ UNCHANGED vars
  BY <1>1, <1>2 DEF IoWake, IoNoOpen, IoOpenGivesUp, JobStep, JobSkips, JobTakes,
     JobEnds, JobTooLate, CameraChanges, vars
<1>3. CASE Tick
  BY <1>3, ElapseStep DEF Tick, CallTime
<1>4. CASE Update
  BY <1>4, AliveStep DEF Update, UpdateStream, ClockTypes
<1>5. CASE IoOpen
  <2>1. \/ Alive /\ grace' = Grace + 1
        \/ \E delta \in CallTime : MarkFailure(delta)
    BY <1>5 DEF IoOpen
  <2> QED
    BY <2>1, AliveStep, MarkFailureStep, Limits
<1>6. CASE IoGrabFailure
  <2>1. PICK o \in Grab(decoder), delta \in CallTime :
          IoGrabFailsInGrace(delta, o.dec) \/ IoGrabFails(delta, o.dec)
    BY <1>6, Zenon DEF IoGrabFailure
  <2>2. MarkFailure(delta) \/ (Elapse(delta) /\ UNCHANGED failures)
    <3>1. CASE IoGrabFailsInGrace(delta, o.dec)
      BY <3>1 DEF IoGrabFailsInGrace
    <3>2. CASE IoGrabFails(delta, o.dec)
      BY <3>2 DEF IoGrabFails
    <3> QED
      BY <2>1, <3>1, <3>2
  <2> QED
    BY <2>2, ElapseStep, MarkFailureStep
<1>7. CASE IoGrabSuccess
  BY <1>7, AliveStep, Limits DEF IoGrabSuccess
<1> QED
  BY <1>2, <1>3, <1>4, <1>5, <1>6, <1>7 DEF Next, IoStep

LEMMA SleepStep ==
  ASSUME IInv, [Next]_vars
  PROVE  SleepType'
<1> USE TypeParts DEF IInv
<1>1. ClockTypes'
  BY ClockStep
<1>2. 0 \in 0 .. (MaxDelay * 5) \div 4 /\ GraceRetry \in 0 .. (MaxDelay * 5) \div 4
  BY Limits
<1>3. CASE sleep' = sleep \/ sleep' = 0
  BY <1>2, <1>3 DEF SleepType
<1>4. CASE IoWake \/ IoNoOpen \/ IoOpenGivesUp \/ JobStep \/ CameraChanges
           \/ Update \/ UNCHANGED vars
  BY <1>3, <1>4 DEF IoWake, IoNoOpen, IoOpenGivesUp, IoGiveUp, JobStep, JobSkips,
     JobTakes, JobEnds, JobTooLate, CameraChanges, Update, UpdateStream, vars
<1>5. CASE Tick
  BY <1>5, Limits DEF Tick, SleepType
<1>6. CASE IoOpen
  <2>1. sleep' = sleep \/ sleep' \in Backoff(failures')
    BY <1>6 DEF IoOpen, IoSleep
  <2> QED
    BY <1>1, <1>3, <2>1, BackoffRange DEF SleepType, ClockTypes
<1>7. CASE IoGrabFailure
  <2>1. sleep' = sleep \/ sleep' = GraceRetry \/ sleep' \in Backoff(failures')
    BY <1>7 DEF IoGrabFailure, IoGrabFailsInGrace, IoGrabFails, IoSleep, IoGiveUp
  <2> QED
    BY <1>1, <1>2, <1>3, <2>1, BackoffRange DEF SleepType, ClockTypes
<1>8. CASE IoGrabSuccess
  BY <1>3, <1>8 DEF IoGrabSuccess, IoSleep
<1> QED
  BY <1>4, <1>5, <1>6, <1>7, <1>8 DEF Next, IoStep

-----------------------------------------------------------------------------
(* The flags and the addresses. *)
LEMMA TargetKindType == ASSUME NEW u \in Url, saved \in Saved PROVE TargetKind(u) \in Kind
BY DecoderAssumption DEF TargetKind, Kind

LEMMA KindOfGood == ASSUME NEW d, Good(d) PROVE d.kind \in Kind
BY Kinds DEF Good, Kind

LEMMA FlagStep ==
  ASSUME IInv, [Next]_vars
  PROVE  FlagTypes'
<1> USE TypeParts DEF IInv
<1>1. CASE IoStep
  <2>1. CASE IoWake
    BY <2>1 DEF IoWake, ApplyDecoderSwitch, ApplyUrlChange, NothingToApply,
       config, FlagTypes
  <2>2. CASE IoNoOpen
    BY <2>2 DEF IoNoOpen, config, switch, history, FlagTypes
  <2>3. CASE IoOpenGivesUp
    BY <2>3 DEF IoOpenGivesUp, IoGiveUp, ConsumeReopen, config, switch, FlagTypes
  <2>4. CASE IoOpen
    <3>1. /\ io_pc' \in {"grab", "sleep"} /\ overtaken' = TRUE
          /\ force_reopen' \in BOOLEAN
          /\ UNCHANGED <<running, config, switch, job, out, camera, grabbed>>
      BY <2>4 DEF IoOpen, IoSleep, ConsumeReopen
    <3> QED
      BY <3>1 DEF config, switch, FlagTypes
  <2>5. CASE IoGrabFailure
    <3>1. /\ io_pc' \in {"ended", "sleep"} /\ running' \in {FALSE, running}
          /\ grabbed' = FALSE
          /\ UNCHANGED <<config, switch, force_reopen, job, out, camera, overtaken>>
      BY <2>5 DEF IoGrabFailure, IoGrabFailsInGrace, IoGrabFails, IoGiveUp, IoSleep
    <3> QED
      BY <3>1 DEF config, switch, FlagTypes
  <2>6. CASE IoGrabSuccess
    <3>1. /\ io_pc' = "sleep" /\ grabbed' = TRUE /\ overtaken' \in BOOLEAN
          /\ job' \in {job, "queued"} /\ force_reopen' \in BOOLEAN
          /\ UNCHANGED <<running, config, switch, out, camera>>
      BY <2>6 DEF IoGrabSuccess, IoSleep, FlagTypes
    <3> QED
      BY <3>1 DEF config, switch, FlagTypes
  <2> QED
    BY <1>1, <2>1, <2>2, <2>3, <2>4, <2>5, <2>6 DEF IoStep
<1>2. CASE JobStep
  BY <1>2 DEF JobStep, JobSkips, JobTakes, JobEnds, JobTooLate, config, switch,
     history, FlagTypes
<1>3. CASE Update
  BY <1>3, TargetKindType DEF Update, UpdateStream, config, history, FlagTypes
<1>4. CASE Tick
  BY <1>4 DEF Tick, config, switch, history, FlagTypes
<1>5. CASE CameraChanges
  BY <1>5 DEF CameraChanges, config, switch, history, FlagTypes
<1>6. CASE UNCHANGED vars
  BY <1>6 DEF vars, config, switch, history, FlagTypes
<1> QED
  BY <1>1, <1>2, <1>3, <1>4, <1>5, <1>6 DEF Next

-----------------------------------------------------------------------------
(* What a step does to the decoder. *)

(* The ways in which a step leaves it other than it was. *)
Renewed == decoder' \in {Released(kind) : kind \in Kind}

LEMMA RenewedFacts ==
  ASSUME Renewed
  PROVE  Good(decoder') /\ ~isOpened(decoder') /\ Whole(decoder')
BY ReleasedFacts DEF Renewed

LEMMA DecoderStep ==
  ASSUME IInv, [Next]_vars
  PROVE  DecoderInv'
<1>0. /\ Good(decoder) /\ FlagTypes /\ decoder.kind \in Kind
      /\ grabbed => Whole(decoder)
      /\ job = "queued" /\ ~overtaken /\ isOpened(decoder) => Holds(decoder)
  BY TypeParts, KindOfGood DEF IInv, DecoderInv
<1> SUFFICES /\ Good(decoder')
             /\ grabbed' => Whole(decoder')
             /\ job' = "queued" /\ ~overtaken' /\ isOpened(decoder') => Holds(decoder')
  BY DEF DecoderInv
<1>1. CASE decoder' = decoder /\ (grabbed' => grabbed) /\ (job' = "queued" => job = "queued")
           /\ (~overtaken' => ~overtaken)
  BY <1>0, <1>1
<1>2. CASE Renewed
  BY <1>2, RenewedFacts
<1>3. CASE IoWake
  <2>1. /\ Renewed \/ decoder' = decoder
        /\ overtaken' = (overtaken \/ decoder' # decoder)
        /\ grabbed' = grabbed /\ job' = job
    BY <1>0, <1>3 DEF IoWake, ApplyDecoderSwitch, ApplyUrlChange,
       NothingToApply, FlagTypes, Renewed
  <2> QED
    BY <1>1, <1>2, <2>1
<1>4. CASE IoNoOpen \/ JobSkips \/ JobEnds \/ JobTooLate \/ Update \/ Tick
           \/ CameraChanges \/ UNCHANGED vars
  BY <1>1, <1>4 DEF IoNoOpen, JobSkips, JobEnds, JobTooLate, Update, UpdateStream,
     Tick, CameraChanges, vars, history
<1>5. CASE IoOpenGivesUp
  BY <1>0, <1>2, <1>5 DEF IoOpenGivesUp, IoGiveUp, Renewed
<1>6. CASE IoOpen
  <2>1. PICK o \in Open(decoder, url) : decoder' = o.dec
    BY <1>6 DEF IoOpen
  <2>2. overtaken' = TRUE /\ grabbed' = grabbed
    BY <1>6 DEF IoOpen
  <2> QED
    BY <1>0, <2>1, <2>2, OpenFacts DEF FlagTypes
<1>7. CASE IoGrabFailure
  <2>1. PICK o \in Grab(decoder) :
          \/ decoder' = o.dec
          \/ decoder' = Released(o.dec.kind)
          \/ decoder' = Released(decoder.kind)
    BY <1>7, Zenon DEF IoGrabFailure, IoGrabFailsInGrace, IoGrabFails, IoGiveUp
  <2>2. grabbed' = FALSE /\ job' = job /\ overtaken' = overtaken
    BY <1>7 DEF IoGrabFailure
  <2>3. /\ Good(o.dec) /\ o.dec.kind = decoder.kind
        /\ isOpened(o.dec) => isOpened(decoder)
        /\ isOpened(o.dec) /\ Holds(decoder) => Holds(o.dec)
    BY <1>0, GrabFacts
  <2> QED
    BY <1>0, <1>2, <2>1, <2>2, <2>3 DEF Renewed
<1>8. CASE IoGrabSuccess
  <2>1. PICK o \in Grab(decoder) :
          /\ o.ok
          /\ \/ decoder' = o.dec
             \/ decoder' = Drop(o.dec) /\ overtaken' = TRUE
    BY <1>8 DEF IoGrabSuccess
  <2>2. Good(o.dec) /\ Holds(o.dec) /\ Whole(o.dec)
    BY <1>0, <2>1, GrabFacts
  <2> QED
    BY <2>1, <2>2, DropFacts
<1>9. CASE JobTakes
  <2>1. PICK t \in Take(decoder) : decoder' = t.dec
    BY <1>9 DEF JobTakes
  <2>2. job' = "running" /\ grabbed' = grabbed
    BY <1>9 DEF JobTakes, history
  <2>3. use_shared_mem \in BOOLEAN
    BY <1>0, DecoderAssumption DEF FlagTypes
  <2> QED
    BY <1>0, <2>1, <2>2, <2>3, TakeFacts
<1> QED
  BY <1>3, <1>4, <1>5, <1>6, <1>7, <1>8, <1>9 DEF Next, IoStep, JobStep

-----------------------------------------------------------------------------
(* Which address it is connected to. *)
LEMMA AddressStep ==
  ASSUME IInv, [Next]_vars
  PROVE  AddressInv'
<1>0. /\ Good(decoder) /\ FlagTypes /\ decoder.kind \in Kind
      /\ isOpened(decoder) => AddressOf(decoder) = url \/ Reopening
      /\ url_changed /\ ~decoder_changed => TargetKind(pending_url) = decoder.kind
  BY TypeParts, KindOfGood DEF IInv, DecoderInv, AddressInv
<1> SUFFICES /\ isOpened(decoder') => AddressOf(decoder') = url' \/ Reopening'
             /\ url_changed' /\ ~decoder_changed' => TargetKind(pending_url') = decoder'.kind
  <2>1. saved' = saved
    BY DEF Next, IoStep, IoWake, IoNoOpen, IoOpenGivesUp, IoOpen, IoGrabFailure,
       IoGrabSuccess, JobStep, JobSkips, JobTakes, JobEnds, JobTooLate, Update,
       UpdateStream, Tick, CameraChanges, config, vars
  <2> QED
    BY <2>1 DEF AddressInv, TargetKind
<1>1. CASE UNCHANGED <<decoder, url, url_changed, decoder_changed, pending_url>>
           /\ ~Reopening
  BY <1>0, <1>1
<1>2. CASE IoWake
  <2>1. io_pc = "sleep" /\ io_pc' = "open" /\ pending_url' = pending_url
    BY <1>2 DEF IoWake
  <2>2. CASE ApplyDecoderSwitch
    BY <1>0, <2>2, RenewedFacts DEF ApplyDecoderSwitch, Renewed, FlagTypes
  <2>3. CASE ApplyUrlChange
    <3>1. CASE releaseOnUrlChange(decoder.kind)
      BY <1>0, <2>3, <3>1, RenewedFacts DEF ApplyUrlChange, Renewed
    <3>2. CASE ~releaseOnUrlChange(decoder.kind)
      <4>1. /\ decoder.kind = "hik" /\ decoder' = decoder /\ url' = pending_url
            /\ force_reopen' = TRUE /\ url_changed' = FALSE
            /\ TargetKind(pending_url) = decoder.kind
        BY <1>0, <2>3, <3>2 DEF ApplyUrlChange, releaseOnUrlChange
      <4>2. url' \notin RtspUrl
        BY <1>0, <4>1, DecoderAssumption DEF TargetKind, FlagTypes
      <4> QED
        BY <2>1, <4>1, <4>2 DEF Reopening
    <3> QED
      BY <3>1, <3>2
  <2>4. CASE NothingToApply
    BY <1>1, <2>1, <2>4 DEF NothingToApply, Reopening
  <2> QED
    BY <1>2, <2>2, <2>3, <2>4 DEF IoWake
<1>3. CASE IoNoOpen
  BY <1>1, <1>3 DEF IoNoOpen, NeedOpen, switch, Reopening
<1>4. CASE IoOpenGivesUp
  BY <1>0, <1>4, ReleasedFacts DEF IoOpenGivesUp, IoGiveUp, switch
<1>5. CASE IoOpen
  <2>1. PICK o \in Open(decoder, url) : decoder' = o.dec
    BY <1>5 DEF IoOpen
  <2>2. UNCHANGED switch
    BY <1>5 DEF IoOpen
  <2>3. /\ o.dec.kind = decoder.kind
        /\ \/ AddressOf(o.dec) = url \/ ~isOpened(o.dec)
           \/ o.dec = decoder /\ decoder.kind = "hik" /\ url \in RtspUrl
    BY <1>0, OpenFacts DEF FlagTypes
  <2> QED
    BY <1>0, <2>1, <2>2, <2>3 DEF Reopening, switch
<1>6. CASE IoGrabFailure
  <2>1. PICK o \in Grab(decoder) :
          \/ decoder' = o.dec
          \/ decoder' = Released(o.dec.kind)
          \/ decoder' = Released(decoder.kind)
    BY <1>6, Zenon DEF IoGrabFailure, IoGrabFailsInGrace, IoGrabFails, IoGiveUp
  <2>2. UNCHANGED switch /\ ~Reopening
    BY <1>6 DEF IoGrabFailure, Reopening
  <2> QED
    BY <1>0, <2>1, <2>2, GrabFacts, ReleasedFacts DEF switch
<1>7. CASE IoGrabSuccess
  <2>1. PICK o \in Grab(decoder) : decoder' = o.dec \/ decoder' = Drop(o.dec)
    BY <1>7 DEF IoGrabSuccess
  <2>2. UNCHANGED switch /\ ~Reopening
    BY <1>7 DEF IoGrabSuccess, Reopening
  <2> QED
    BY <1>0, <2>1, <2>2, GrabFacts, DropFacts DEF switch
<1>8. CASE JobTakes
  <2>1. PICK t \in Take(decoder) : decoder' = t.dec
    BY <1>8 DEF JobTakes
  <2>2. UNCHANGED switch /\ ~Reopening
    BY <1>8 DEF JobTakes, Reopening
  <2>3. use_shared_mem \in BOOLEAN
    BY <1>0, DecoderAssumption DEF FlagTypes
  <2> QED
    BY <1>0, <2>1, <2>2, <2>3, TakeFacts DEF switch
<1>9. CASE JobSkips \/ JobEnds \/ JobTooLate \/ Tick \/ CameraChanges \/ UNCHANGED vars
  <2>1. UNCHANGED <<decoder, switch, force_reopen, io_pc>>
    BY <1>9 DEF JobSkips, JobEnds, JobTooLate, Tick, CameraChanges, vars
  <2> QED
    BY <1>0, <2>1 DEF switch, Reopening, TargetKind
<1>10. CASE Update
  <2>1. /\ UNCHANGED <<decoder, url>> /\ ~Reopening
        /\ \/ decoder_changed' = TRUE
           \/ TargetKind(pending_url') = decoder.kind
    BY <1>10 DEF Update, UpdateStream, Reopening
  <2> QED
    BY <1>0, <2>1
<1> QED
  BY <1>2, <1>3, <1>4, <1>5, <1>6, <1>7, <1>8, <1>9, <1>10 DEF Next, IoStep, JobStep

-----------------------------------------------------------------------------
LEMMA InitIInv == Init => IInv
<1> SUFFICES ASSUME Init PROVE IInv
  OBVIOUS
<1>1. TargetKind(url) \in Kind
  BY TargetKindType DEF Init
<1>2. Good(decoder) /\ ~isOpened(decoder) /\ Whole(decoder)
  BY <1>1, ReleasedFacts DEF Init
<1>3. FlagTypes /\ ClockTypes /\ SleepType
  <2>1. FlagTypes
    BY <1>1 DEF Init, FlagTypes
  <2>2. ClockTypes
    BY Limits DEF Init, ClockTypes
  <2>3. SleepType
    BY Limits DEF Init, SleepType
  <2> QED
    BY <2>1, <2>2, <2>3
<1>4. DecoderInv /\ AddressInv /\ ClockInv
  BY <1>2 DEF Init, DecoderInv, AddressInv, ClockInv
<1> QED
  BY <1>2, <1>3, <1>4, TypeParts DEF IInv

(***************************************************************************)
(* The inductive invariant holds of every behaviour.                       *)
(***************************************************************************)
THEOREM Invariance == Spec => []IInv
<1>1. IInv /\ [Next]_vars => IInv'
  <2> SUFFICES ASSUME IInv, [Next]_vars PROVE IInv'
    OBVIOUS
  <2>1. (FlagTypes /\ ClockTypes /\ SleepType /\ Good(decoder) => TypeOK)'
    BY TypeParts, PTL
  <2>2. Good(decoder)'
    BY DecoderStep DEF DecoderInv
  <2> QED
    BY <2>1, <2>2, FlagStep, ClockStep, SleepStep, DecoderStep, AddressStep DEF IInv
<1> QED
  BY InitIInv, <1>1, PTL DEF Spec

(* Decoders and clocks stay in their ranges, whatever calls fail in        *)
(* whatever order: TypeOK.                                                 *)
THEOREM TypeCorrect == Spec => []TypeOK
<1>1. IInv => TypeOK
  BY DEF IInv
<1> QED
  BY <1>1, Invariance, PTL

(***************************************************************************)
(* The two classes of the CUDA decoder never lose count of their frames.   *)
(***************************************************************************)
THEOREM CountsStayEqual == Spec => []FrameCountsAgree
<1>1. IInv => FrameCountsAgree
  BY Kinds DEF IInv, DecoderInv, FrameCountsAgree, Good, CountsAgree
<1> QED
  BY <1>1, Invariance, PTL

-----------------------------------------------------------------------------
(* What a job that takes a picture finds. *)
LEMMA TakeStep ==
  ASSUME IInv, JobTakes
  PROVE  /\ out'.found = "picture" => out'.address = url
         /\ out'.found = "nothing" => overtaken
         /\ out'.found = "picture" /\ ~out'.whole => ~grabbed
<1>1. /\ Good(decoder) /\ FlagTypes
      /\ grabbed => Whole(decoder)
      /\ job = "queued" /\ ~overtaken /\ isOpened(decoder) => Holds(decoder)
      /\ isOpened(decoder) => AddressOf(decoder) = url \/ Reopening
  BY TypeParts DEF IInv, DecoderInv, AddressInv
<1>2. PICK t \in Take(decoder) : out' = t.out
  BY DEF JobTakes
<1>3. isOpened(decoder) /\ ~Reopening /\ job = "queued"
  BY DEF JobTakes, Reopening
<1>4. use_shared_mem \in BOOLEAN
  BY <1>1, DecoderAssumption DEF FlagTypes
<1>5. overtaken \in BOOLEAN /\ grabbed \in BOOLEAN
  BY <1>1 DEF FlagTypes
<1>6. /\ t.out.found = "picture" => t.out.address = AddressOf(decoder)
      /\ t.out.found = "nothing" => ~Holds(decoder)
      /\ t.out.found = "picture" /\ ~t.out.whole => ~Whole(decoder)
  BY <1>1, <1>4, TakeFacts
<1> QED
  BY <1>1, <1>2, <1>3, <1>5, <1>6

(***************************************************************************)
(* A picture is never of another address than the one the stream is set    *)
(* to, though the device SDK keeps its login over an update.               *)
(***************************************************************************)
THEOREM NoForeignPicture == Spec => PictureOfAddress
<1>1. IInv /\ [Next]_vars => [TakesPicture => out'.address = url]_vars
  BY TakeStep DEF TakesPicture
<1> QED
  BY <1>1, Invariance, PTL DEF Spec, PictureOfAddress

(* A job finds nothing only when a later call overtook it. *)
THEOREM JobFindsItsFrame == Spec => NothingOnlyIfOvertaken
<1>1. IInv /\ [Next]_vars => [JobTakes /\ out'.found = "nothing" => overtaken]_vars
  BY TakeStep
<1> QED
  BY <1>1, Invariance, PTL DEF Spec, NothingOnlyIfOvertaken

(* A JPEG with a tail is published only after a failed capture. *)
THEOREM NoTailAfterSuccess == Spec => PaddedOnlyAfterFailure
<1>1. IInv /\ [Next]_vars => [TakesPicture /\ ~out'.whole => ~grabbed]_vars
  BY TakeStep DEF TakesPicture
<1> QED
  BY <1>1, Invariance, PTL DEF Spec, PaddedOnlyAfterFailure

(* A step that gives the stream up. *)
LEMMA GiveUpStep ==
  ASSUME IInv, [Next]_vars, running, ~running'
  PROVE  quiet' > OfflineLimit
<1>1. /\ ClockTypes' /\ ClockInv' /\ ClockTypes /\ ClockInv
  BY ClockStep, TypeParts DEF IInv
<1>2. CASE IoOpenGivesUp
  <2>1. offline > OfflineLimit /\ UNCHANGED clocks
    BY <1>2 DEF IoOpenGivesUp, ShouldGiveUp
  <2> QED
    BY <1>1, <2>1, Limits DEF ClockTypes, ClockInv, clocks
<1>3. CASE IoGrabFailure
  <2>1. PICK o \in Grab(decoder), delta \in CallTime :
          IoGrabFailsInGrace(delta, o.dec) \/ IoGrabFails(delta, o.dec)
    BY <1>3, Zenon DEF IoGrabFailure
  <2>2. offline' > OfflineLimit
    BY <2>1 DEF IoGrabFailsInGrace, IoGrabFails, ShouldGiveUp
  <2> QED
    BY <1>1, <2>2, Limits DEF ClockTypes, ClockInv
<1>4. CASE running' = running
  BY <1>4
<1> QED
  BY <1>2, <1>3, <1>4 DEF Next, IoStep, IoWake, IoNoOpen, IoOpen, IoGrabSuccess,
     JobStep, JobSkips, JobTakes, JobEnds, JobTooLate, Update, UpdateStream, Tick,
     CameraChanges, vars

(***************************************************************************)
(* No stream is given up before its time: consecutive failures are counted *)
(* from the first of a row, and any sign of life forgets them.             *)
(***************************************************************************)
THEOREM GivenUpInTime == Spec => GivesUpOnlyWhenOffline
<1>1. IInv /\ [Next]_vars => [running /\ ~running' => quiet' > OfflineLimit]_vars
  BY GiveUpStep
<1> QED
  BY <1>1, Invariance, PTL DEF Spec, GivesUpOnlyWhenOffline

=============================================================================
