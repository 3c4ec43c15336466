--------------------------- MODULE ShmChannelProofs ---------------------------
(***************************************************************************)
(* Proofs about ShmChannel, for any number of slots (at least two), of     *)
(* frames and of objects: the inductive invariant IInv and the safety      *)
(* properties it implies.                                                  *)
(***************************************************************************)
EXTENDS ShmChannel, TLAPS

(* The steps of write_frame_raw(), and those of its steps between the two  *)
(* increments of the sequence.                                             *)
Dirty    == {"meta1", "meta2", "payload1", "payload2", "ready"}
InAWrite == Dirty \cup {"begin", "head"}

(* The slot head_idx names, and its first metadata. *)
HeadSlot(o)  == head_idx[o] % SlotCount
HeadFrame(o) == meta[o][HeadSlot(o)][1]

(* The path names the newest object or nothing, and the channel of the     *)
(* producer is the newest object or none.                                  *)
ObjectInv ==
  /\ link \in {None, created} /\ w_obj \in {None, created}
  /\ w_pc \in InAWrite \cup {"unlink"} => w_obj # None
  /\ w_pc \in {"create", "size", "stopped"} => w_obj = None
  /\ w_pc = "size" => link = created /\ created \in Object
  /\ w_pc \in {"unlink", "create"} => created < MaxObjects
  /\ w_pc \notin {"idle", "stopped"} => w_frame > 0

(* An object that does not exist yet, or has no size yet, is blank.        *)
BlankInv ==
  \A o \in Object : (o > created \/ (o = created /\ w_pc = "size")) =>
    /\ head_idx[o] = 0
    /\ \A s \in Slot : sequence[o][s] = 0 /\ meta[o][s][1] = 0
                                          /\ meta[o][s][2] = 0

(* head_idx is one behind the number of the next write, and names the last *)
(* complete frame.                                                         *)
HeadInv ==
  w_obj # None =>
    /\ count = 0 => head_idx[w_obj] = 0 /\ w_pc # "idle"
    /\ count > 0 => /\ head_idx[w_obj] = count - 1
                    /\ HeadFrame(w_obj) = IF w_pc = "idle" THEN w_frame
                                                           ELSE w_frame - 1

(* The sequence of a slot is odd exactly while the producer writes it; the *)
(* metadata under an even sequence are those of one frame.                 *)
SlotInv ==
  \A o \in Object, s \in Slot :
    /\ sequence[o][s] % 2 = 1 <=> (w_pc \in Dirty /\ o = w_obj /\ s = slot)
    /\ sequence[o][s] % 2 = 0 => meta[o][s][1] = meta[o][s][2]

(* How far the producer has come in the metadata of its slot. *)
ProgressInv ==
  /\ w_pc \in InAWrite \ {"begin", "meta1"} => meta[w_obj][slot][1] = w_frame
  /\ w_pc \in InAWrite \ {"begin", "meta1", "meta2"} =>
       meta[w_obj][slot][2] = w_frame

(* Frames are ordered: by object, and inside an object none is more than   *)
(* one ahead of the head.                                                  *)
OrderInv ==
  \A o \in Object, s \in Slot :
    /\ meta[o][s][1] <= w_frame
    /\ HeadFrame(o) = 0 \/ meta[o][s][1] <= HeadFrame(o) + 1
    /\ \A p \in Object, t \in Slot : o < p =>
         meta[p][t][1] = 0 \/ meta[o][s][1] <= meta[p][t][1]

(* What the reader knows of its object between its steps. *)
ReaderInv ==
  /\ r_total <= created
  /\ r_obj # None => r_obj = r_total
  /\ r_pc \notin {"idle", "connecting"} =>
       r_obj # None
  /\ r_pc \in {"meta1", "meta2", "v2"} => v1 <= sequence[r_obj][r_slot]
  /\ r_pc \in {"meta2", "v2"} /\ v1 = sequence[r_obj][r_slot] =>
       r_meta[1] = meta[r_obj][r_slot][1]
  /\ r_pc = "v2" /\ v1 = sequence[r_obj][r_slot] =>
       r_meta[2] = meta[r_obj][r_slot][2]

(* What comes next is at most one frame behind what the application has.   *)
SeenInv ==
  /\ seen.frame <= w_frame
  /\ \A o \in Object : o >= r_total =>
       HeadFrame(o) = 0 \/ seen.frame <= HeadFrame(o) + 1
  /\ r_pc \in {"v1", "meta1"} =>
       meta[r_obj][r_slot][1] = 0 \/ seen.frame <= meta[r_obj][r_slot][1] + 1
  /\ r_pc \in {"meta2", "v2", "payload1", "payload2"} =>
       /\ r_meta[1] <= meta[r_obj][r_slot][1]
       /\ r_meta[1] = 0 \/ seen.frame <= r_meta[1] + 1
  /\ r_pc \in {"payload1", "payload2"} => r_meta[1] # 0

IInv == /\ TypeOK /\ ObjectInv /\ BlankInv /\ HeadInv /\ SlotInv
        /\ ProgressInv /\ OrderInv /\ ReaderInv /\ SeenInv /\ MetaNotTorn

-----------------------------------------------------------------------------
(* The ring: a number has one slot, and neighbours have different slots. *)
LEMMA SlotOfNumber ==
  ASSUME NEW n \in Nat PROVE n % SlotCount \in Slot
BY SlotAssumption DEF Slot

LEMMA NeighbourSlots ==
  ASSUME NEW n \in Nat PROVE n % SlotCount # (n + 1) % SlotCount
<1> DEFINE q == n \div SlotCount
           p == (n + 1) \div SlotCount
<1>1. /\ q \in Int /\ p \in Int
      /\ n % SlotCount \in Int /\ (n + 1) % SlotCount \in Int
  BY SlotAssumption
<1>2. n = SlotCount * q + (n % SlotCount)
  BY SlotAssumption
<1>3. n + 1 = SlotCount * p + ((n + 1) % SlotCount)
  BY SlotAssumption
<1> HIDE DEF q, p
<1>4. SlotCount * p - SlotCount * q # 1
  <2>1. ASSUME NEW d \in Int PROVE SlotCount * d # 1
    BY SlotAssumption
  <2>2. SlotCount * (p - q) = SlotCount * p - SlotCount * q
    BY <1>1, SlotAssumption
  <2> QED
    BY <1>1, <2>1, <2>2
<1>5. SlotCount * p \in Int /\ SlotCount * q \in Int
  BY <1>1, SlotAssumption
<1> QED
  BY <1>1, <1>2, <1>3, <1>4, <1>5

LEMMA ZeroSlot == 0 % SlotCount = 0
BY SlotAssumption

(* One increment turns even into odd and odd into even. *)
LEMMA Parity ==
  ASSUME NEW n \in Nat
  PROVE  n % 2 \in {0, 1} /\ (n % 2 = 0 <=> (n + 1) % 2 = 1)
OBVIOUS

-----------------------------------------------------------------------------
(* The initial state satisfies every part of the inductive invariant. *)
LEMMA InitIInv == Init => IInv
<1> SUFFICES ASSUME Init PROVE IInv
  OBVIOUS
<1> USE SlotAssumption, BoundAssumption
        DEF Init, None, Fallback, Blank, Object, Frame
<1>1. TypeOK
  BY DEF TypeOK, MemoryTypes, WriterTypes, ReaderTypes, WriterState,
     ReaderState, Parts
<1>2. ObjectInv /\ HeadInv /\ ProgressInv
  BY DEF ObjectInv, HeadInv, ProgressInv, InAWrite, Dirty
<1>3. BlankInv /\ SlotInv
  BY DEF BlankInv, SlotInv, Parts, Dirty
<1>4. \A o \in Object : HeadSlot(o) \in Slot
  BY SlotOfNumber DEF HeadSlot
<1>5. \A o \in Object, s \in Slot : meta[o][s][1] = 0
  BY DEF Parts
<1>6. \A o \in Object : HeadFrame(o) = 0
  BY <1>4, <1>5 DEF HeadFrame
<1>7. OrderInv
  <2>1. w_frame = 0
    OBVIOUS
  <2> HIDE DEF Init
  <2> QED
    BY <1>5, <1>6, <2>1 DEF OrderInv
<1>8. ReaderInv /\ SeenInv /\ MetaNotTorn
  BY <1>6 DEF ReaderInv, SeenInv, MetaNotTorn
<1> QED
  BY <1>1, <1>2, <1>3, <1>7, <1>8 DEF IInv

-----------------------------------------------------------------------------

(* What the consumer leaves alone, and what the producer leaves alone. *)
LEMMA ReadFrame ==
  ASSUME Read PROVE UNCHANGED <<shm, memory, writer>>
BY Zenon DEF Read, Probe, ConnectNoFile, ConnectTooEarly, Connect, ReadHead, ReadV1,
   SlotBusy, ReadMeta, CheckV2, SlotChanged, ReadPayload1, Deliver

LEMMA WriteFrame ==
  ASSUME FrameFits \/ FrameNeedsObject \/ Write \/ Cleanup PROVE UNCHANGED reader
BY Zenon DEF FrameFits, FrameNeedsObject, Write, Cleanup, UnlinkOld, CreateObject,
   SizeObject, SizeFails, MarkWriting, WriteMeta, WritePayload, MarkReady,
   PublishHead

(* Only the steps inside a write touch the memory. *)
LEMMA ManageFrame ==
  ASSUME FrameFits \/ FrameNeedsObject \/ UnlinkOld \/ CreateObject \/ SizeObject
         \/ SizeFails \/ Cleanup
  PROVE  UNCHANGED memory
BY Zenon DEF FrameFits, FrameNeedsObject, Cleanup, UnlinkOld, CreateObject,
   SizeObject, SizeFails

(* The slots the two sides work on are slots. *)
LEMMA SlotsTyped ==
  ASSUME TypeOK
  PROVE  /\ slot \in Slot /\ r_slot \in Slot
         /\ \A o \in Object : HeadSlot(o) \in Slot
<1>1. count \in Nat /\ latest \in Nat /\ \A o \in Object : head_idx[o] \in Nat
  BY DEF TypeOK, MemoryTypes, WriterTypes, ReaderTypes
<1> QED
  BY <1>1, SlotOfNumber, Zenon DEF slot, r_slot, HeadSlot

-----------------------------------------------------------------------------
(* What the steps of a write do to the memory. *)
LEMMA BumpEffect ==
  ASSUME TypeOK, w_obj \in Object, Bump
  PROVE  /\ sequence' \in [Object -> [Slot -> Nat]]
         /\ sequence'[w_obj][slot] = sequence[w_obj][slot] + 1
         /\ \A o \in Object, s \in Slot :
              ~(o = w_obj /\ s = slot) => sequence'[o][s] = sequence[o][s]
BY SlotsTyped DEF Bump, TypeOK, MemoryTypes

LEMMA MetaEffect ==
  ASSUME TypeOK, w_obj \in Object, NEW part \in Parts, NEW from, NEW to,
         WriteMeta(part, from, to)
  PROVE  /\ meta' \in [Object -> [Slot -> [Parts -> Frame]]]
         /\ meta'[w_obj][slot][part] = w_frame
         /\ \A o \in Object, s \in Slot, q \in Parts :
              ~(o = w_obj /\ s = slot /\ q = part) =>
                meta'[o][s][q] = meta[o][s][q]
<1>1. meta' = [meta EXCEPT ![w_obj][slot][part] = w_frame]
  BY DEF WriteMeta
<1>2. meta \in [Object -> [Slot -> [Parts -> Frame]]] /\ w_frame \in Frame
  BY DEF TypeOK, MemoryTypes, WriterTypes
<1> QED
  BY <1>1, <1>2, SlotsTyped

-----------------------------------------------------------------------------
(* Objects only get the numbers there are, memory the values there are. *)
LEMMA WriterTypeStep == TypeOK /\ ObjectInv /\ [Next]_vars => WriterTypes'
<1> SUFFICES ASSUME TypeOK, ObjectInv, [Next]_vars PROVE WriterTypes'
  OBVIOUS
<1> USE BoundAssumption
        DEF TypeOK, WriterTypes, WriterState, Object, Frame, None, shm, memory,
            writer, Writing
<1>1. CASE FrameFits \/ FrameNeedsObject
  <2>1. w_frame' \in Frame /\ w_pc' \in WriterState
        /\ UNCHANGED <<link, created, sized, w_obj, count>>
    BY <1>1 DEF FrameFits, FrameNeedsObject
  <2> QED
    BY <2>1
<1>2. CASE UnlinkOld \/ SizeFails \/ Cleanup
  BY <1>2 DEF UnlinkOld, SizeFails, Cleanup
<1>3. CASE CreateObject
  <2>1. created' \in 0..MaxObjects /\ link' \in Object
        /\ sized' \subseteq 1..created' /\ w_pc' \in WriterState
    BY <1>3 DEF CreateObject, ObjectInv
  <2> QED
    BY <1>3, <2>1 DEF CreateObject
<1>4. CASE SizeObject
  BY <1>4 DEF SizeObject, ObjectInv
<1>5. CASE MarkWriting \/ MarkReady
  BY <1>5 DEF MarkWriting, MarkReady
<1>6. ASSUME NEW part, NEW from, NEW to \in WriterState,
             WriteMeta(part, from, to) \/ WritePayload(part, from, to)
      PROVE  WriterTypes'
  BY <1>6 DEF WriteMeta, WritePayload
<1>7. CASE PublishHead
  <2>1. count' \in Nat /\ w_pc' \in WriterState
        /\ UNCHANGED <<link, created, sized, w_obj, w_frame>>
    BY <1>7 DEF PublishHead
  <2> QED
    BY <2>1
<1>8. CASE Read
  BY <1>8, ReadFrame
<1>9. CASE UNCHANGED vars
  BY <1>9 DEF vars
<1> QED
  BY <1>1, <1>2, <1>3, <1>4, <1>5, <1>6, <1>7, <1>8, <1>9 DEF Next, Write

LEMMA MemoryTypeStep == TypeOK /\ ObjectInv /\ [Next]_vars => MemoryTypes'
<1> SUFFICES ASSUME TypeOK, ObjectInv, [Next]_vars PROVE MemoryTypes'
  OBVIOUS
<1> USE DEF MemoryTypes, memory
<1>1. w_pc \in InAWrite => w_obj \in Object
  BY BoundAssumption DEF ObjectInv, TypeOK, WriterTypes, Object, None
<1>2. ASSUME UNCHANGED memory PROVE MemoryTypes'
  BY <1>2 DEF TypeOK
<1>3. CASE MarkWriting \/ MarkReady
  <2>1. w_obj \in Object /\ Bump /\ UNCHANGED <<meta, payload, head_idx>>
    BY <1>1, <1>3 DEF MarkWriting, MarkReady, Writing, InAWrite, Dirty
  <2> QED
    BY <2>1, BumpEffect DEF TypeOK
<1>4. ASSUME NEW part \in Parts, NEW from \in InAWrite, NEW to,
             WriteMeta(part, from, to)
      PROVE  MemoryTypes'
  <2>1. w_obj \in Object /\ UNCHANGED <<sequence, payload, head_idx>>
    BY <1>1, <1>4 DEF WriteMeta, Writing
  <2> QED
    BY <1>4, <2>1, MetaEffect DEF TypeOK
<1>5. ASSUME NEW part \in Parts, NEW from \in InAWrite, NEW to,
             WritePayload(part, from, to)
      PROVE  MemoryTypes'
  <2>1. /\ w_obj \in Object /\ UNCHANGED <<sequence, meta, head_idx>>
        /\ payload' = [payload EXCEPT ![w_obj][slot][part] = w_frame]
    BY <1>1, <1>5 DEF WritePayload, Writing
  <2>2. payload' \in [Object -> [Slot -> [Parts -> Frame]]]
    BY <2>1, SlotsTyped DEF TypeOK, WriterTypes
  <2> QED
    BY <2>1, <2>2 DEF TypeOK
<1>6. CASE PublishHead
  BY <1>6 DEF PublishHead, TypeOK, WriterTypes
<1>7. CASE Read
  BY <1>7, <1>2, ReadFrame
<1>8. CASE UNCHANGED vars
  BY <1>8, <1>2 DEF vars
<1> QED
  BY <1>2, <1>3, <1>4, <1>5, <1>6, <1>7, <1>8, ManageFrame
     DEF Next, Write, Parts, InAWrite, Dirty

LEMMA ReaderTypeStep ==
  TypeOK /\ ObjectInv /\ ReaderInv /\ [Next]_vars => ReaderTypes'
<1> SUFFICES ASSUME TypeOK, ObjectInv, ReaderInv, [Next]_vars PROVE ReaderTypes'
  OBVIOUS
<1> USE DEF ReaderTypes, ReaderState, shm, memory, writer, mapping, locals,
            reader, Reading
<1>1. /\ ReaderTypes /\ sized \subseteq Object
      /\ r_pc \notin {"idle", "connecting"} => r_obj \in Object
      /\ \A o \in Object : head_idx[o] \in Nat
      /\ \A o \in Object : sequence[o][r_slot] \in Nat
      /\ \A o \in Object, q \in Parts :
           meta[o][r_slot][q] \in Frame /\ payload[o][r_slot][q] \in Frame
  <2>1. sized \subseteq Object /\ ReaderTypes /\ MemoryTypes /\ r_slot \in Slot
    BY SlotsTyped, BoundAssumption DEF TypeOK, WriterTypes, Object
  <2>2. r_pc \notin {"idle", "connecting"} => r_obj \in Object
    BY <2>1 DEF ReaderInv
  <2> QED
    BY <2>1, <2>2 DEF MemoryTypes
<1>2. 0 \in Frame /\ None \notin Object /\ Blank \in [Parts -> Frame]
  BY BoundAssumption DEF Frame, Object, None, Blank
<1>3. CASE Probe \/ ConnectNoFile \/ ConnectTooEarly \/ Connect
  BY <1>1, <1>2, <1>3 DEF Probe, ConnectNoFile, ConnectTooEarly, Connect, TypeOK,
     WriterTypes
<1>4. CASE ReadHead \/ ReadV1 \/ CheckV2
  BY <1>1, <1>2, <1>4 DEF ReadHead, ReadV1, CheckV2
<1>5. CASE SlotBusy \/ SlotChanged
  BY <1>1, <1>2, <1>5 DEF SlotBusy, SlotChanged, Fail, Forget
<1>6. ASSUME NEW part \in Parts,
             NEW from \in ReaderState \ {"idle", "connecting"},
             NEW to \in ReaderState, ReadMeta(part, from, to)
      PROVE  ReaderTypes'
  BY <1>1, <1>6 DEF ReadMeta
<1>7. CASE ReadPayload1 \/ Deliver
  BY <1>1, <1>2, <1>7 DEF ReadPayload1, Deliver, Forget, Parts
<1>8. CASE FrameFits \/ FrameNeedsObject \/ Write \/ Cleanup
  <2>1. sized \subseteq sized'
    BY <1>8 DEF FrameFits, FrameNeedsObject, Write, Cleanup, UnlinkOld,
       CreateObject, SizeObject, SizeFails, MarkWriting, WriteMeta,
       WritePayload, MarkReady, PublishHead
  <2> QED
    BY <1>1, <1>8, <2>1, WriteFrame
<1>9. CASE UNCHANGED vars
  BY <1>1, <1>9 DEF vars
<1> QED
  BY <1>3, <1>4, <1>5, <1>6, <1>7, <1>8, <1>9 DEF Next, Read, Parts

-----------------------------------------------------------------------------
(* The producer's objects follow each other. *)
LEMMA ObjectStep == TypeOK /\ ObjectInv /\ [Next]_vars => ObjectInv'
<1> SUFFICES ASSUME TypeOK, ObjectInv, [Next]_vars PROVE ObjectInv'
  OBVIOUS
<1> USE DEF ObjectInv, InAWrite, Dirty, shm, memory, writer, Writing
<1>0. /\ created \in Nat /\ MaxObjects \in Nat /\ w_frame \in Nat
      /\ created <= MaxObjects
  BY BoundAssumption DEF TypeOK, WriterTypes, Frame
<1>1. CASE FrameFits \/ FrameNeedsObject
  BY <1>0, <1>1 DEF FrameFits, FrameNeedsObject
<1>2. CASE UnlinkOld \/ SizeFails \/ Cleanup
  BY <1>2 DEF UnlinkOld, SizeFails, Cleanup
<1>3. CASE CreateObject
  BY <1>0, <1>3 DEF CreateObject, Object
<1>4. CASE SizeObject
  BY <1>4 DEF SizeObject, Object, None
<1>5. CASE MarkWriting \/ MarkReady
  BY <1>5 DEF MarkWriting, MarkReady
<1>6. ASSUME NEW part, NEW from \in InAWrite, NEW to \in InAWrite,
             WriteMeta(part, from, to) \/ WritePayload(part, from, to)
      PROVE  ObjectInv'
  BY <1>6 DEF WriteMeta, WritePayload
<1>7. CASE PublishHead
  BY <1>7 DEF PublishHead
<1>8. CASE Read
  BY <1>8, ReadFrame
<1>9. CASE UNCHANGED vars
  BY <1>9 DEF vars
<1> QED
  BY <1>1, <1>2, <1>3, <1>4, <1>5, <1>6, <1>7, <1>8, <1>9 DEF Next, Write

(* Where the producer writes: into its own object, once that has its size. *)
LEMMA WritePlace ==
  ASSUME TypeOK, ObjectInv, w_pc \in InAWrite
  PROVE  /\ w_obj \in Object /\ w_obj = created /\ slot \in Slot
         /\ w_frame \in Nat /\ w_frame > 0 /\ count \in Nat
BY SlotsTyped, BoundAssumption
   DEF ObjectInv, TypeOK, WriterTypes, Object, None, InAWrite, Dirty, Frame

(* What stays the same as long as the memory does. *)
LEMMA SameMemory ==
  ASSUME UNCHANGED memory
  PROVE  \A o : UNCHANGED <<HeadSlot(o), HeadFrame(o)>>
BY DEF memory, HeadSlot, HeadFrame

LEMMA SameWriter ==
  ASSUME UNCHANGED writer
  PROVE  UNCHANGED <<w_pc, w_obj, w_frame, count, slot>>
BY DEF writer, slot

(* Nobody writes to an object before it has its size. *)
LEMMA BlankStep == IInv /\ [Next]_vars => BlankInv'
<1> SUFFICES ASSUME IInv, [Next]_vars PROVE BlankInv'
  OBVIOUS
<1> USE DEF IInv, BlankInv, Writing
<1>0. created \in Nat
  BY DEF TypeOK, WriterTypes
<1>1. ASSUME UNCHANGED memory, created' = created, w_pc' = "size" => w_pc = "size"
      PROVE  BlankInv'
  BY <1>1 DEF memory
<1>2. CASE CreateObject
  <2>1. created' = created + 1 /\ UNCHANGED <<sequence, meta, head_idx>>
    BY <1>2 DEF CreateObject, memory
  <2>2. \A o \in Object : o > created' \/ o = created' => o > created
    BY <1>0, <2>1 DEF Object
  <2> QED
    BY <2>1, <2>2
<1>3. ASSUME w_pc \in InAWrite, w_pc' # "size", created' = created,
             \A o \in Object : o # w_obj =>
               /\ head_idx'[o] = head_idx[o]
               /\ \A s \in Slot : /\ sequence'[o][s] = sequence[o][s]
                                  /\ meta'[o][s][1] = meta[o][s][1]
                                  /\ meta'[o][s][2] = meta[o][s][2]
      PROVE  BlankInv'
  BY <1>0, <1>3, WritePlace
<1>4. CASE MarkWriting \/ MarkReady
  <2>1. w_pc \in InAWrite /\ w_pc' # "size" /\ Bump
        /\ UNCHANGED <<created, meta, head_idx>>
    BY <1>4 DEF MarkWriting, MarkReady, InAWrite, Dirty, shm
  <2> QED
    BY <1>3, <2>1, WritePlace, BumpEffect
<1>5. ASSUME NEW part \in Parts, NEW from \in InAWrite, NEW to,
             to # "size", WriteMeta(part, from, to)
      PROVE  BlankInv'
  <2>1. w_pc \in InAWrite /\ w_pc' # "size"
        /\ UNCHANGED <<created, sequence, head_idx>>
    BY <1>5 DEF WriteMeta, shm
  <2> QED
    BY <1>3, <1>5, <2>1, WritePlace, MetaEffect DEF Parts
<1>6. ASSUME NEW part, NEW from \in InAWrite, NEW to, to # "size",
             WritePayload(part, from, to)
      PROVE  BlankInv'
  <2>1. w_pc \in InAWrite /\ w_pc' # "size"
        /\ UNCHANGED <<created, sequence, meta, head_idx>>
    BY <1>6 DEF WritePayload, shm
  <2> QED
    BY <1>3, <2>1
<1>7. CASE PublishHead
  <2>1. w_pc \in InAWrite /\ w_pc' # "size"
        /\ UNCHANGED <<created, sequence, meta>>
        /\ head_idx' = [head_idx EXCEPT ![w_obj] = count]
    BY <1>7 DEF PublishHead, shm, InAWrite
  <2> QED
    BY <1>3, <2>1 DEF TypeOK, MemoryTypes
<1>8. CASE Read
  BY <1>8, <1>1, ReadFrame DEF shm, writer
<1>9. CASE UNCHANGED vars
  BY <1>9, <1>1 DEF vars, shm, writer
<1>10. CASE FrameFits \/ FrameNeedsObject \/ UnlinkOld \/ SizeObject \/ SizeFails
            \/ Cleanup
  BY <1>10, <1>1, ManageFrame DEF FrameFits, FrameNeedsObject, UnlinkOld,
     SizeObject, SizeFails, Cleanup, shm
<1> QED
  BY <1>2, <1>4, <1>5, <1>6, <1>7, <1>8, <1>9, <1>10
     DEF Next, Write, Parts, InAWrite, Dirty

(* The producer never writes the slot head_idx names, once a frame is in   *)
(* the object.                                                             *)
LEMMA WriteBehindHead ==
  ASSUME TypeOK, ObjectInv, HeadInv, w_pc \in InAWrite
  PROVE  /\ count > 0 => HeadSlot(w_obj) # slot
         /\ count = 0 => HeadSlot(w_obj) = slot
<1>1. count \in Nat /\ w_obj # None
  BY DEF TypeOK, WriterTypes, ObjectInv
<1>2. CASE count > 0
  <2>1. count - 1 \in Nat /\ head_idx[w_obj] = count - 1
    BY <1>1, <1>2 DEF HeadInv
  <2>2. (count - 1) % SlotCount # ((count - 1) + 1) % SlotCount
    BY <2>1, NeighbourSlots
  <2>3. (count - 1) + 1 = count
    BY <1>1
  <2> QED
    BY <1>2, <2>1, <2>2, <2>3 DEF HeadSlot, slot
<1>3. CASE count = 0
  BY <1>1, <1>3 DEF HeadInv, HeadSlot, slot
<1> QED
  BY <1>1, <1>2, <1>3

(* head_idx follows the last complete frame. *)
LEMMA HeadStep == IInv /\ [Next]_vars => HeadInv'
<1> SUFFICES ASSUME IInv, [Next]_vars PROVE HeadInv'
  OBVIOUS
<1> USE DEF IInv, Writing
<1>0. /\ count \in Nat /\ w_frame \in Nat
      /\ \A o \in Object : head_idx[o] \in Nat
  BY DEF TypeOK, WriterTypes, MemoryTypes, Frame
<1>1. CASE FrameFits \/ FrameNeedsObject
  <2>1. /\ w_pc = "idle" /\ w_pc' # "idle" /\ w_frame' = w_frame + 1
        /\ UNCHANGED <<memory, w_obj, count>>
    BY <1>1 DEF FrameFits, FrameNeedsObject
  <2>2. UNCHANGED <<head_idx, HeadFrame(w_obj)>>
    BY <2>1, SameMemory DEF memory, HeadFrame, HeadSlot
  <2> QED
    BY <1>0, <2>1, <2>2 DEF HeadInv
<1>2. CASE UnlinkOld \/ CreateObject \/ SizeFails \/ Cleanup
  BY <1>2 DEF UnlinkOld, CreateObject, SizeFails, Cleanup, HeadInv, ObjectInv
<1>3. CASE SizeObject
  <2>1. /\ w_pc = "size" /\ w_pc' = "begin" /\ w_obj' = link /\ count' = 0
        /\ UNCHANGED memory
    BY <1>3 DEF SizeObject
  <2>2. link = created /\ created \in Object
    BY <2>1 DEF ObjectInv
  <2> QED
    BY <2>1, <2>2 DEF HeadInv, BlankInv, memory
<1>4. ASSUME w_pc \in InAWrite, w_pc' # "idle", UNCHANGED <<w_obj, w_frame, count>>,
             UNCHANGED head_idx,
             count > 0 => HeadFrame(w_obj)' = HeadFrame(w_obj)
      PROVE  HeadInv'
  <2>1. w_pc # "idle"
    BY <1>4 DEF InAWrite, Dirty
  <2> QED
    BY <1>4, <2>1, <1>0, WritePlace DEF HeadInv
<1>5. CASE MarkWriting \/ MarkReady
  <2>1. /\ w_pc \in InAWrite /\ w_pc' # "idle"
        /\ UNCHANGED <<w_obj, w_frame, count, head_idx, meta>>
    BY <1>5 DEF MarkWriting, MarkReady, InAWrite, Dirty
  <2>2. HeadFrame(w_obj)' = HeadFrame(w_obj)
    BY <2>1 DEF HeadFrame, HeadSlot
  <2> QED
    BY <1>4, <2>1, <2>2
<1>6. ASSUME NEW part \in Parts, NEW from \in InAWrite, NEW to,
             to # "idle", WriteMeta(part, from, to)
      PROVE  HeadInv'
  <2>1. w_pc \in InAWrite /\ w_pc' # "idle"
        /\ UNCHANGED <<w_obj, w_frame, count, head_idx>>
    BY <1>6 DEF WriteMeta
  <2>2. count > 0 => HeadSlot(w_obj) # slot
    BY <2>1, WriteBehindHead
  <2>3. HeadSlot(w_obj)' = HeadSlot(w_obj) /\ HeadSlot(w_obj) \in Slot
    BY <2>1, WritePlace, SlotsTyped DEF HeadSlot
  <2>4. count > 0 => HeadFrame(w_obj)' = HeadFrame(w_obj)
    BY <1>6, <2>1, <2>2, <2>3, WritePlace, MetaEffect DEF HeadFrame, Parts
  <2> QED
    BY <1>4, <2>1, <2>4
<1>7. ASSUME NEW part, NEW from \in InAWrite, NEW to, to # "idle",
             WritePayload(part, from, to)
      PROVE  HeadInv'
  <2>1. /\ w_pc \in InAWrite /\ w_pc' # "idle"
        /\ UNCHANGED <<w_obj, w_frame, count, head_idx, meta>>
    BY <1>7 DEF WritePayload
  <2>2. HeadFrame(w_obj)' = HeadFrame(w_obj)
    BY <2>1 DEF HeadFrame, HeadSlot
  <2> QED
    BY <1>4, <2>1, <2>2
<1>8. CASE PublishHead
  <2>1. /\ w_pc = "head" /\ w_pc' = "idle" /\ count' = count + 1
        /\ head_idx' = [head_idx EXCEPT ![w_obj] = count]
        /\ UNCHANGED <<w_obj, w_frame, meta>>
    BY <1>8 DEF PublishHead
  <2>2. w_pc \in InAWrite \ {"begin", "meta1"} /\ w_pc \in InAWrite
    BY <2>1 DEF InAWrite, Dirty
  <2>3. meta[w_obj][slot][1] = w_frame /\ w_obj \in Object
    BY <2>2, WritePlace DEF ProgressInv
  <2>4. head_idx'[w_obj] = count
    BY <2>1, <2>3 DEF TypeOK, MemoryTypes
  <2>5. HeadFrame(w_obj)' = w_frame
    BY <2>1, <2>3, <2>4 DEF HeadFrame, HeadSlot, slot
  <2> QED
    BY <1>0, <2>1, <2>4, <2>5 DEF HeadInv
<1>9. CASE Read
  BY <1>9, ReadFrame, SameMemory, SameWriter DEF HeadInv, memory
<1>10. CASE UNCHANGED vars
  BY <1>10, SameMemory, SameWriter DEF HeadInv, vars, memory
<1> QED
  BY <1>1, <1>2, <1>3, <1>5, <1>6, <1>7, <1>8, <1>9, <1>10
     DEF Next, Write, Parts, InAWrite, Dirty

(* The sequence is odd during a write only, and the metadata under an even *)
(* sequence are whole.                                                     *)
LEMMA SlotStep == IInv /\ [Next]_vars => SlotInv'
<1> SUFFICES ASSUME IInv, [Next]_vars PROVE SlotInv'
  OBVIOUS
<1> USE DEF IInv, Writing
<1>0. \A o \in Object, s \in Slot : sequence[o][s] \in Nat
  BY DEF TypeOK, MemoryTypes
<1>1. ASSUME w_pc \notin Dirty, w_pc' \notin Dirty, UNCHANGED <<sequence, meta>>
      PROVE  SlotInv'
  BY <1>1 DEF SlotInv
<1>2. ASSUME w_pc \in Dirty, w_pc' \in Dirty,
             UNCHANGED <<sequence, w_obj, count>>,
             \A o \in Object, s \in Slot : ~(o = w_obj /\ s = slot) =>
               meta'[o][s][1] = meta[o][s][1] /\ meta'[o][s][2] = meta[o][s][2]
      PROVE  SlotInv'
  <2>1. slot' = slot
    BY <1>2 DEF slot
  <2>2. SUFFICES ASSUME NEW o \in Object, NEW s \in Slot
                 PROVE  /\ sequence[o][s] % 2 = 1 <=> (o = w_obj /\ s = slot)
                        /\ sequence[o][s] % 2 = 0 =>
                             meta'[o][s][1] = meta'[o][s][2]
    BY <1>2, <2>1 DEF SlotInv
  <2> QED
    BY <1>2 DEF SlotInv
<1>3. CASE MarkWriting
  <2>1. /\ w_pc \notin Dirty /\ w_pc' \in Dirty /\ w_pc \in InAWrite /\ Bump
        /\ UNCHANGED <<w_obj, count, meta>>
    BY <1>3 DEF MarkWriting, InAWrite, Dirty
  <2>2. slot' = slot
    BY <2>1 DEF slot
  <2>3. SUFFICES ASSUME NEW o \in Object, NEW s \in Slot
                 PROVE  /\ sequence'[o][s] % 2 = 1 <=> (o = w_obj /\ s = slot)
                        /\ sequence'[o][s] % 2 = 0 =>
                             meta[o][s][1] = meta[o][s][2]
    BY <2>1, <2>2 DEF SlotInv
  <2>4. sequence[o][s] % 2 = 0 /\ meta[o][s][1] = meta[o][s][2]
    BY <1>0, <2>1, Parity DEF SlotInv
  <2>5. CASE o = w_obj /\ s = slot
    BY <1>0, <2>1, <2>4, <2>5, BumpEffect, Parity
  <2>6. CASE ~(o = w_obj /\ s = slot)
    BY <2>1, <2>4, <2>6, BumpEffect, WritePlace
  <2> QED
    BY <2>5, <2>6
<1>4. CASE MarkReady
  <2>1. /\ w_pc \in Dirty /\ w_pc' \notin Dirty /\ Bump
        /\ w_pc \in InAWrite \ {"begin", "meta1", "meta2"}
        /\ UNCHANGED <<w_obj, count, meta>>
    BY <1>4 DEF MarkReady, InAWrite, Dirty
  <2>2. SUFFICES ASSUME NEW o \in Object, NEW s \in Slot
                 PROVE  /\ sequence'[o][s] % 2 # 1
                        /\ meta[o][s][1] = meta[o][s][2]
    BY <2>1 DEF SlotInv
  <2>3. w_obj \in Object
    BY <2>1, WritePlace
  <2>4. CASE o = w_obj /\ s = slot
    <3>1. sequence[o][s] % 2 = 1 /\ meta[o][s][1] = meta[o][s][2]
      BY <2>1, <2>4 DEF SlotInv, ProgressInv
    <3> QED
      BY <1>0, <2>1, <2>3, <2>4, <3>1, BumpEffect, Parity
  <2>5. CASE ~(o = w_obj /\ s = slot)
    <3>1. sequence[o][s] % 2 = 0 /\ meta[o][s][1] = meta[o][s][2]
      BY <1>0, <2>5, Parity DEF SlotInv
    <3> QED
      BY <2>1, <2>3, <2>5, <3>1, BumpEffect
  <2> QED
    BY <2>4, <2>5
<1>5. ASSUME NEW part \in Parts, NEW from \in Dirty, NEW to \in Dirty,
             WriteMeta(part, from, to)
      PROVE  SlotInv'
  <2>1. w_pc \in InAWrite /\ w_pc \in Dirty /\ w_pc' \in Dirty
        /\ UNCHANGED <<sequence, w_obj, count>>
    BY <1>5 DEF WriteMeta, InAWrite
  <2> QED
    BY <1>2, <1>5, <2>1, WritePlace, MetaEffect DEF Parts
<1>6. ASSUME NEW part, NEW from \in Dirty, NEW to \in Dirty,
             WritePayload(part, from, to)
      PROVE  SlotInv'
  <2>1. w_pc \in Dirty /\ w_pc' \in Dirty
        /\ UNCHANGED <<sequence, w_obj, count, meta>>
    BY <1>6 DEF WritePayload
  <2> QED
    BY <1>2, <2>1
<1>7. CASE PublishHead \/ FrameFits \/ FrameNeedsObject \/ UnlinkOld
           \/ CreateObject \/ SizeObject \/ SizeFails \/ Cleanup
  BY <1>7, <1>1, ManageFrame DEF memory, Dirty, PublishHead, FrameFits,
     FrameNeedsObject, UnlinkOld, CreateObject, SizeObject, SizeFails, Cleanup
<1>8. CASE Read \/ UNCHANGED vars
  BY <1>8, ReadFrame, SameWriter DEF vars, memory, SlotInv
<1> QED
  BY <1>3, <1>4, <1>5, <1>6, <1>7, <1>8 DEF Next, Write, Parts, Dirty

(* The producer writes its metadata part after part. *)
LEMMA ProgressStep == IInv /\ [Next]_vars => ProgressInv'
<1> SUFFICES ASSUME IInv, [Next]_vars PROVE ProgressInv'
  OBVIOUS
<1> USE DEF IInv, Writing
<1>1. ASSUME w_pc' \notin InAWrite \ {"begin", "meta1"} PROVE ProgressInv'
  BY <1>1 DEF ProgressInv
<1>2. CASE FrameFits \/ FrameNeedsObject \/ UnlinkOld \/ CreateObject
           \/ SizeObject \/ SizeFails \/ Cleanup \/ MarkWriting \/ PublishHead
  BY <1>2, <1>1 DEF InAWrite, Dirty, FrameFits, FrameNeedsObject, UnlinkOld,
     CreateObject, SizeObject, SizeFails, Cleanup, MarkWriting, PublishHead
<1>3. CASE WriteMeta(1, "meta1", "meta2")
  <2>1. w_pc \in InAWrite /\ w_pc' = "meta2" /\ UNCHANGED <<w_obj, w_frame, slot>>
    BY <1>3 DEF WriteMeta, InAWrite, Dirty, slot
  <2> QED
    BY <1>3, <2>1, WritePlace, MetaEffect DEF ProgressInv, Parts
<1>4. CASE WriteMeta(2, "meta2", "payload1")
  <2>1. /\ w_pc \in InAWrite \ {"begin", "meta1"} /\ w_pc \in InAWrite
        /\ UNCHANGED <<w_obj, w_frame, slot>>
    BY <1>4 DEF WriteMeta, InAWrite, Dirty, slot
  <2> QED
    BY <1>4, <2>1, WritePlace, MetaEffect DEF ProgressInv, Parts
<1>5. ASSUME NEW part,
             NEW from \in InAWrite \ {"begin", "meta1", "meta2"}, NEW to,
             WritePayload(part, from, to) \/ MarkReady
      PROVE  ProgressInv'
  <2>1. /\ w_pc \in InAWrite \ {"begin", "meta1", "meta2"}
        /\ UNCHANGED <<w_obj, w_frame, slot, meta>>
    BY <1>5 DEF WritePayload, MarkReady, InAWrite, Dirty, slot
  <2> QED
    BY <2>1 DEF ProgressInv
<1>6. CASE Read \/ UNCHANGED vars
  BY <1>6, ReadFrame, SameWriter DEF vars, memory, ProgressInv
<1> QED
  BY <1>2, <1>3, <1>4, <1>5, <1>6 DEF Next, Write, Parts, InAWrite, Dirty

-----------------------------------------------------------------------------
(* Every step leaves the first metadata and head_idx alone, or is the      *)
(* write of the first part, or the publication of the frame.               *)
LEMMA FrameMoves ==
  ASSUME IInv, [Next]_vars
  PROVE  \/ /\ \A o \in Object, s \in Slot : meta'[o][s][1] = meta[o][s][1]
            /\ \A o \in Object : HeadFrame(o)' = HeadFrame(o)
            /\ w_frame' \in Nat /\ w_frame' >= w_frame
         \/ WriteMeta(1, "meta1", "meta2")
         \/ PublishHead
<1> USE DEF IInv
<1>0. w_frame \in Nat
  BY DEF TypeOK, WriterTypes, Frame
<1>1. ASSUME UNCHANGED <<meta, head_idx>>
      PROVE  /\ \A o \in Object, s \in Slot : meta'[o][s][1] = meta[o][s][1]
             /\ \A o \in Object : HeadFrame(o)' = HeadFrame(o)
  BY <1>1 DEF HeadFrame, HeadSlot
<1>2. CASE FrameFits \/ FrameNeedsObject \/ UnlinkOld \/ CreateObject
           \/ SizeObject \/ SizeFails \/ Cleanup
  <2>1. w_frame' = w_frame \/ w_frame' = w_frame + 1
    BY <1>2 DEF FrameFits, FrameNeedsObject, UnlinkOld, CreateObject, SizeObject,
       SizeFails, Cleanup
  <2> QED
    BY <1>0, <1>1, <1>2, <2>1, ManageFrame DEF memory
<1>3. ASSUME NEW part, NEW from, NEW to,
             MarkWriting \/ MarkReady \/ WritePayload(part, from, to)
      PROVE  UNCHANGED <<meta, head_idx, w_frame>>
  BY <1>3 DEF MarkWriting, MarkReady, WritePayload
<1>4. CASE WriteMeta(2, "meta2", "payload1")
  <2>1. w_pc \in InAWrite /\ UNCHANGED <<head_idx, w_frame>>
    BY <1>4 DEF WriteMeta, Writing, InAWrite, Dirty
  <2>2. \A o \in Object, s \in Slot : meta'[o][s][1] = meta[o][s][1]
    BY <1>4, <2>1, WritePlace, MetaEffect DEF Parts
  <2>3. \A o \in Object : HeadSlot(o)' = HeadSlot(o) /\ HeadSlot(o) \in Slot
    BY <2>1, SlotsTyped DEF HeadSlot
  <2> QED
    BY <1>0, <2>1, <2>2, <2>3 DEF HeadFrame
<1>5. CASE Read \/ UNCHANGED vars
  BY <1>0, <1>1, <1>5, ReadFrame DEF vars, memory, writer
<1> QED
  BY <1>0, <1>1, <1>2, <1>3, <1>4, <1>5 DEF Next, Write

(* What writing the first metadata does to the frames. *)
LEMMA FirstMeta ==
  ASSUME IInv, WriteMeta(1, "meta1", "meta2")
  PROVE  /\ w_obj \in Object /\ w_obj = created /\ slot \in Slot
         /\ meta'[w_obj][slot][1] = w_frame
         /\ \A o \in Object, s \in Slot : ~(o = w_obj /\ s = slot) =>
              meta'[o][s][1] = meta[o][s][1]
         /\ count > 0 => /\ HeadFrame(w_obj)' = HeadFrame(w_obj)
                         /\ HeadFrame(w_obj) = w_frame - 1
         /\ count = 0 => HeadFrame(w_obj)' = w_frame
         /\ \A o \in Object : o # w_obj => HeadFrame(o)' = HeadFrame(o)
         /\ UNCHANGED <<w_frame, created, w_obj>>
<1> USE DEF IInv
<1>1. /\ w_pc = "meta1" /\ w_pc \in InAWrite
      /\ UNCHANGED <<head_idx, w_frame, created, w_obj>>
  BY DEF WriteMeta, Writing, InAWrite, Dirty, shm
<1>2. /\ w_obj \in Object /\ w_obj = created /\ slot \in Slot
      /\ meta'[w_obj][slot][1] = w_frame
      /\ \A o \in Object, s \in Slot : ~(o = w_obj /\ s = slot) =>
           meta'[o][s][1] = meta[o][s][1]
  BY <1>1, WritePlace, MetaEffect DEF Parts
<1>3. \A o \in Object : HeadSlot(o)' = HeadSlot(o) /\ HeadSlot(o) \in Slot
  BY <1>1, SlotsTyped DEF HeadSlot
<1>4. /\ count > 0 => HeadSlot(w_obj) # slot
      /\ count = 0 => HeadSlot(w_obj) = slot
  BY <1>1, WriteBehindHead
<1>5. count > 0 => HeadFrame(w_obj) = w_frame - 1
  BY <1>1 DEF HeadInv, ObjectInv
<1>6. HeadFrame(w_obj)' = meta'[w_obj][HeadSlot(w_obj)][1]
      /\ \A o \in Object : HeadFrame(o)' = meta'[o][HeadSlot(o)][1]
  BY <1>1, <1>2, <1>3 DEF HeadFrame
<1> QED
  BY <1>1, <1>2, <1>3, <1>4, <1>5, <1>6 DEF HeadFrame

(* What publishing a frame does: the head names the newest frame. *)
LEMMA NewHead ==
  ASSUME IInv, PublishHead
  PROVE  /\ w_obj \in Object
         /\ HeadFrame(w_obj)' = w_frame
         /\ \A o \in Object : o # w_obj => HeadFrame(o)' = HeadFrame(o)
         /\ UNCHANGED <<w_frame, meta, created, w_obj>>
<1> USE DEF IInv
<1>1. /\ w_pc = "head" /\ w_pc \in InAWrite \ {"begin", "meta1"}
      /\ w_pc \in InAWrite
      /\ head_idx' = [head_idx EXCEPT ![w_obj] = count]
      /\ UNCHANGED <<w_frame, meta, created, w_obj>>
  BY DEF PublishHead, Writing, InAWrite, Dirty, shm
<1>2. meta[w_obj][slot][1] = w_frame /\ w_obj \in Object
  BY <1>1, WritePlace DEF ProgressInv
<1>3. head_idx'[w_obj] = count
      /\ \A o \in Object : o # w_obj => head_idx'[o] = head_idx[o]
  BY <1>1, <1>2 DEF TypeOK, MemoryTypes
<1>4. HeadSlot(w_obj)' = slot
      /\ \A o \in Object : o # w_obj => HeadSlot(o)' = HeadSlot(o)
  BY <1>1, <1>3 DEF HeadSlot, slot
<1> QED
  BY <1>1, <1>2, <1>4 DEF HeadFrame

(* Frames stay ordered: what is written is the newest, in the newest       *)
(* object, and next to the head.                                           *)
LEMMA OrderStep == IInv /\ [Next]_vars => OrderInv'
<1> SUFFICES ASSUME IInv, [Next]_vars PROVE OrderInv'
  OBVIOUS
<1>0. /\ w_frame \in Nat /\ count \in Nat /\ created \in Nat
      /\ OrderInv /\ BlankInv
      /\ \A o \in Object, s \in Slot : meta[o][s][1] \in Nat
      /\ \A o \in Object : HeadFrame(o) \in Nat
      /\ \A o \in Object : o \in Nat
  <2>1. MemoryTypes /\ \A o \in Object : HeadSlot(o) \in Slot
    BY SlotsTyped DEF IInv, TypeOK
  <2>2. \A o \in Object, s \in Slot : meta[o][s][1] \in Nat
    BY <2>1 DEF MemoryTypes, Frame, Parts
  <2>3. w_frame \in Nat /\ count \in Nat /\ created \in Nat
    BY DEF IInv, TypeOK, WriterTypes, Frame
  <2> QED
    BY <2>1, <2>2, <2>3 DEF IInv, HeadFrame, Object
<1>1. CASE /\ \A o \in Object, s \in Slot : meta'[o][s][1] = meta[o][s][1]
           /\ \A o \in Object : HeadFrame(o)' = HeadFrame(o)
           /\ w_frame' \in Nat /\ w_frame' >= w_frame
  BY <1>0, <1>1 DEF OrderInv
<1>2. CASE WriteMeta(1, "meta1", "meta2")
  <2>1. SUFFICES ASSUME NEW o \in Object, NEW s \in Slot
                 PROVE  /\ meta'[o][s][1] <= w_frame
                        /\ \/ HeadFrame(o)' = 0
                           \/ meta'[o][s][1] <= HeadFrame(o)' + 1
                        /\ \A p \in Object, t \in Slot : o < p =>
                             \/ meta'[p][t][1] = 0
                             \/ meta'[o][s][1] <= meta'[p][t][1]
    BY <1>2, FirstMeta DEF OrderInv
  <2>2. meta'[o][s][1] <= w_frame
    BY <1>0, <1>2, FirstMeta DEF OrderInv
  <2>3. HeadFrame(o)' = 0 \/ meta'[o][s][1] <= HeadFrame(o)' + 1
    <3>1. CASE o # w_obj
      BY <1>0, <1>2, <3>1, FirstMeta DEF OrderInv
    <3>2. CASE o = w_obj /\ count = 0
      BY <1>0, <1>2, <2>2, <3>2, FirstMeta
    <3>3. CASE o = w_obj /\ count > 0
      BY <1>0, <1>2, <2>2, <3>3, FirstMeta
    <3> QED
      BY <1>0, <3>1, <3>2, <3>3
  <2>4. ASSUME NEW p \in Object, NEW t \in Slot, o < p
        PROVE  meta'[p][t][1] = 0 \/ meta'[o][s][1] <= meta'[p][t][1]
    <3>1. CASE p = w_obj /\ t = slot
      BY <1>2, <2>2, <3>1, FirstMeta
    <3>2. CASE o = w_obj /\ s = slot
      <4>1. p > created /\ p # w_obj
        BY <1>0, <1>2, <2>4, <3>2, FirstMeta
      <4>2. meta[p][t][1] = 0
        BY <1>0, <4>1 DEF BlankInv
      <4> QED
        BY <1>2, <4>1, <4>2, FirstMeta
    <3>3. CASE ~(p = w_obj /\ t = slot) /\ ~(o = w_obj /\ s = slot)
      BY <1>0, <1>2, <2>4, <3>3, FirstMeta DEF OrderInv
    <3> QED
      BY <3>1, <3>2, <3>3
  <2> QED
    BY <2>2, <2>3, <2>4
<1>3. CASE PublishHead
  BY <1>0, <1>3, NewHead DEF OrderInv
<1> QED
  BY <1>1, <1>2, <1>3, FrameMoves

-----------------------------------------------------------------------------
(***************************************************************************)
(* What the sequence number tells a reader: it only grows, and as long as  *)
(* it is even and the same, the metadata are the same.                     *)
(***************************************************************************)
LEMMA SequenceGuards ==
  ASSUME IInv, [Next]_vars
  PROVE  \A o \in Object, s \in Slot :
           /\ sequence'[o][s] \in Nat /\ sequence'[o][s] >= sequence[o][s]
           /\ sequence'[o][s] = sequence[o][s] /\ sequence[o][s] % 2 = 0 =>
                /\ meta'[o][s][1] = meta[o][s][1]
                /\ meta'[o][s][2] = meta[o][s][2]
<1> USE DEF IInv
<1>0. \A o \in Object, s \in Slot : sequence[o][s] \in Nat
  BY DEF TypeOK, MemoryTypes
<1>1. CASE UNCHANGED <<sequence, meta>>
  BY <1>0, <1>1
<1>2. CASE MarkWriting \/ MarkReady
  <2>1. w_pc \in InAWrite /\ Bump /\ UNCHANGED meta
    BY <1>2 DEF MarkWriting, MarkReady, Writing, InAWrite, Dirty
  <2>2. w_obj \in Object
    BY <2>1, WritePlace
  <2> QED
    BY <1>0, <2>1, <2>2, BumpEffect
<1>3. ASSUME NEW part \in Parts, NEW from \in Dirty, NEW to,
             WriteMeta(part, from, to)
      PROVE  /\ UNCHANGED sequence
             /\ \A o \in Object, s \in Slot : sequence[o][s] % 2 = 0 =>
                  /\ meta'[o][s][1] = meta[o][s][1]
                  /\ meta'[o][s][2] = meta[o][s][2]
  <2>1. w_pc \in InAWrite /\ w_pc \in Dirty /\ UNCHANGED sequence
    BY <1>3 DEF WriteMeta, Writing, InAWrite
  <2>2. w_obj \in Object /\ sequence[w_obj][slot] % 2 = 1
    BY <2>1, WritePlace DEF SlotInv
  <2> QED
    BY <1>3, <2>1, <2>2, MetaEffect DEF Parts
<1>4. ASSUME NEW part, NEW from, NEW to, WritePayload(part, from, to)
      PROVE  UNCHANGED <<sequence, meta>>
  BY <1>4 DEF WritePayload
<1>5. CASE FrameFits \/ FrameNeedsObject \/ UnlinkOld \/ CreateObject
           \/ SizeObject \/ SizeFails \/ Cleanup \/ PublishHead \/ Read
           \/ UNCHANGED vars
  <2>1. UNCHANGED <<sequence, meta>>
    BY <1>5, ManageFrame, ReadFrame DEF memory, vars, PublishHead
  <2> QED
    BY <2>1, <1>1
<1> QED
  BY <1>0, <1>1, <1>2, <1>3, <1>4, <1>5 DEF Next, Write, Parts, Dirty

(* The reader's slot is a slot of an object that exists. *)
LEMMA ReadPlace ==
  ASSUME TypeOK, ReaderInv, r_pc \notin {"idle", "connecting"}
  PROVE  r_obj \in Object /\ r_obj = r_total /\ r_slot \in Slot
<1>1. sized \subseteq Object /\ r_slot \in Slot
  BY SlotsTyped, BoundAssumption DEF TypeOK, WriterTypes, Object
<1> QED
  BY <1>1 DEF TypeOK, ReaderTypes, ReaderInv

(* While the producer moves, what the reader has read stays good as long   *)
(* as the sequence says so.                                                *)
LEMMA ReaderStepWriter ==
  IInv /\ [Next]_vars /\ UNCHANGED reader => (ReaderInv /\ MetaNotTorn)'
<1> SUFFICES ASSUME IInv, [Next]_vars, UNCHANGED reader
             PROVE  (ReaderInv /\ MetaNotTorn)'
  OBVIOUS
<1>1. /\ ReaderInv /\ MetaNotTorn
      /\ UNCHANGED <<r_pc, r_obj, r_total, r_slot, v1, r_meta>>
  BY DEF reader, mapping, locals, r_slot, IInv
<1>2. created \in Nat /\ created' \in Nat /\ created' >= created
      /\ r_total \in Int
  <2>1. created \in Nat /\ r_total \in Int
    BY DEF IInv, TypeOK, WriterTypes, ReaderTypes, Object, Fallback
  <2>2. created' = created \/ created' = created + 1
    <3>1. CASE Read \/ UNCHANGED vars
      BY <3>1, ReadFrame DEF vars, shm
    <3>2. ASSUME NEW part, NEW from, NEW to,
                 WriteMeta(part, from, to) \/ WritePayload(part, from, to)
          PROVE  created' = created
      BY <3>2 DEF WriteMeta, WritePayload, shm
    <3> QED
      BY <3>1, <3>2 DEF Next, Write, FrameFits, FrameNeedsObject, Cleanup,
         UnlinkOld, CreateObject, SizeObject, SizeFails, MarkWriting, MarkReady,
         PublishHead, shm
  <2> QED
    BY <2>1, <2>2
<1>3. CASE r_pc \in {"meta1", "meta2", "v2"}
  <2>1. r_obj \in Object /\ r_slot \in Slot
    BY <1>3, ReadPlace DEF IInv
  <2>2. v1 \in Nat /\ v1 % 2 = 0 /\ sequence[r_obj][r_slot] \in Nat
    BY <2>1 DEF IInv, TypeOK, MemoryTypes, ReaderTypes
  <2>3. v1 <= sequence[r_obj][r_slot]
    BY <1>1, <1>3 DEF ReaderInv
  <2>4. /\ sequence'[r_obj][r_slot] \in Nat
        /\ sequence'[r_obj][r_slot] >= sequence[r_obj][r_slot]
        /\ v1 = sequence'[r_obj][r_slot] =>
             /\ v1 = sequence[r_obj][r_slot]
             /\ meta'[r_obj][r_slot][1] = meta[r_obj][r_slot][1]
             /\ meta'[r_obj][r_slot][2] = meta[r_obj][r_slot][2]
    BY <2>1, <2>2, <2>3, SequenceGuards
  <2> QED
    BY <1>1, <1>2, <1>3, <2>2, <2>3, <2>4 DEF ReaderInv, MetaNotTorn
<1>4. CASE r_pc \notin {"meta1", "meta2", "v2"}
  BY <1>1, <1>2, <1>4 DEF ReaderInv, MetaNotTorn
<1> QED
  BY <1>3, <1>4

(* The steps of the reader: what it reads between two equal even sequence  *)
(* numbers is one frame's.                                                 *)
LEMMA ReaderStepReader == IInv /\ Read => (ReaderInv /\ MetaNotTorn)'
<1> SUFFICES ASSUME IInv, Read PROVE (ReaderInv /\ MetaNotTorn)'
  OBVIOUS
<1> USE DEF Reading
<1>1. /\ ReaderInv /\ MetaNotTorn /\ SlotInv
      /\ UNCHANGED <<sequence, meta, created, sized>>
      /\ sized \subseteq 1..created /\ created \in Nat
  BY ReadFrame DEF IInv, shm, memory, TypeOK, WriterTypes
<1>2. r_pc \notin {"idle", "connecting"} =>
        r_obj \in Object /\ r_slot \in Slot
  BY ReadPlace DEF IInv
<1>3. CASE Probe \/ ConnectNoFile \/ ConnectTooEarly
  BY <1>1, <1>3 DEF Probe, ConnectNoFile, ConnectTooEarly, ReaderInv,
     MetaNotTorn, mapping
<1>4. CASE Connect
  <2>1. /\ r_pc' = "idle" /\ r_obj' = link /\ r_total' = link
        /\ link \in 1..created
    BY <1>1, <1>4 DEF Connect
  <2> QED
    BY <1>1, <2>1 DEF ReaderInv, MetaNotTorn
<1>5. CASE ReadHead
  BY <1>1, <1>5 DEF ReadHead, ReaderInv, MetaNotTorn, mapping
<1>6. CASE ReadV1
  <2>1. /\ r_pc = "v1" /\ r_pc' = "meta1"
        /\ v1' = sequence[r_obj][r_slot]
        /\ UNCHANGED <<r_obj, r_total, r_slot>>
    BY <1>6 DEF ReadV1, mapping, r_slot
  <2>2. sequence[r_obj][r_slot] \in Nat
    BY <1>2, <2>1 DEF IInv, TypeOK, MemoryTypes
  <2> QED
    BY <1>1, <2>1, <2>2 DEF ReaderInv, MetaNotTorn
<1>7. CASE SlotBusy \/ SlotChanged
  BY <1>1, <1>7 DEF SlotBusy, SlotChanged, Fail, Forget, ReaderInv,
     MetaNotTorn, mapping
<1>8. CASE ReadMeta(1, "meta1", "meta2")
  <2>1. /\ r_pc = "meta1" /\ r_pc' = "meta2"
        /\ r_meta' = [r_meta EXCEPT ![1] = meta[r_obj][r_slot][1]]
        /\ UNCHANGED <<r_obj, r_total, r_slot, v1>>
    BY <1>8 DEF ReadMeta, mapping, r_slot
  <2>2. r_meta'[1] = meta[r_obj][r_slot][1]
    BY <2>1 DEF IInv, TypeOK, ReaderTypes, Parts
  <2> QED
    BY <1>1, <2>1, <2>2 DEF ReaderInv, MetaNotTorn
<1>9. CASE ReadMeta(2, "meta2", "v2")
  <2>1. /\ r_pc = "meta2" /\ r_pc' = "v2"
        /\ r_meta' = [r_meta EXCEPT ![2] = meta[r_obj][r_slot][2]]
        /\ UNCHANGED <<r_obj, r_total, r_slot, v1>>
    BY <1>9 DEF ReadMeta, mapping, r_slot
  <2>2. r_meta'[2] = meta[r_obj][r_slot][2] /\ r_meta'[1] = r_meta[1]
    BY <2>1 DEF IInv, TypeOK, ReaderTypes, Parts
  <2> QED
    BY <1>1, <2>1, <2>2 DEF ReaderInv, MetaNotTorn
<1>10. CASE CheckV2
  <2>1. /\ r_pc = "v2" /\ r_pc' = "payload1"
        /\ sequence[r_obj][r_slot] = v1
        /\ UNCHANGED <<r_obj, r_total, r_meta>>
    BY <1>10 DEF CheckV2, mapping, locals
  <2>2. v1 % 2 = 0
    BY DEF IInv, TypeOK, ReaderTypes
  <2>3. meta[r_obj][r_slot][1] = meta[r_obj][r_slot][2]
    BY <1>1, <1>2, <2>1, <2>2 DEF SlotInv
  <2> QED
    BY <1>1, <2>1, <2>3 DEF ReaderInv, MetaNotTorn
<1>11. CASE ReadPayload1 \/ Deliver
  BY <1>1, <1>11 DEF ReadPayload1, Deliver, Forget, ReaderInv, MetaNotTorn,
     mapping
<1> QED
  BY <1>3, <1>4, <1>5, <1>6, <1>7, <1>8, <1>9, <1>10, <1>11 DEF Read

-----------------------------------------------------------------------------
(* The values the order of frames is about are numbers. *)
LEMMA FrameTypes ==
  ASSUME TypeOK, ReaderInv
  PROVE  /\ w_frame \in Nat /\ count \in Nat /\ created \in Nat
         /\ seen.frame \in Nat /\ r_meta[1] \in Nat /\ r_total \in Int
         /\ \A o \in Object, s \in Slot : meta[o][s][1] \in Nat
         /\ \A o \in Object : o \in Nat /\ HeadFrame(o) \in Nat
         /\ r_pc \notin {"idle", "connecting"} =>
              /\ r_obj \in Object /\ r_obj = r_total /\ r_slot \in Slot
              /\ meta[r_obj][r_slot][1] \in Nat
<1>1. MemoryTypes /\ \A o \in Object : HeadSlot(o) \in Slot
  BY SlotsTyped DEF TypeOK
<1>2. \A o \in Object, s \in Slot : meta[o][s][1] \in Nat
  BY <1>1 DEF MemoryTypes, Frame, Parts
<1>3. w_frame \in Nat /\ count \in Nat /\ created \in Nat
  BY DEF TypeOK, WriterTypes, Frame
<1>4. seen.frame \in Nat /\ r_meta[1] \in Nat /\ r_total \in Int
  BY DEF TypeOK, ReaderTypes, Frame, Parts, Object, Fallback
<1>5. \A o \in Object : o \in Nat /\ HeadFrame(o) \in Nat
  BY <1>1, <1>2 DEF HeadFrame, Object
<1> QED
  BY <1>2, <1>3, <1>4, <1>5, ReadPlace

(* The producer only writes what is newer than all the reader has seen. *)
LEMMA SeenStepWriter == IInv /\ [Next]_vars /\ UNCHANGED reader => SeenInv'
<1> SUFFICES ASSUME IInv, [Next]_vars, UNCHANGED reader PROVE SeenInv'
  OBVIOUS
<1>1. UNCHANGED <<r_pc, r_obj, r_total, r_slot, r_meta, seen>>
  BY DEF reader, mapping, locals, r_slot
<1>2. /\ SeenInv /\ OrderInv
      /\ w_frame \in Nat /\ count \in Nat
      /\ seen.frame \in Nat /\ r_meta[1] \in Nat /\ r_total \in Int
      /\ \A o \in Object, s \in Slot : meta[o][s][1] \in Nat
      /\ \A o \in Object : o \in Nat /\ HeadFrame(o) \in Nat
      /\ r_pc \notin {"idle", "connecting"} => r_obj \in Object /\ r_slot \in Slot
  BY FrameTypes DEF IInv
<1>3. CASE /\ \A o \in Object, s \in Slot : meta'[o][s][1] = meta[o][s][1]
           /\ \A o \in Object : HeadFrame(o)' = HeadFrame(o)
           /\ w_frame' \in Nat /\ w_frame' >= w_frame
  BY <1>1, <1>2, <1>3 DEF SeenInv
<1>4. CASE WriteMeta(1, "meta1", "meta2")
  <2>1. \A o \in Object : HeadFrame(o)' \in {HeadFrame(o), w_frame}
    <3>1. CASE count = 0
      BY <1>4, <3>1, FirstMeta
    <3>2. CASE count > 0
      BY <1>4, <3>2, FirstMeta
    <3> QED
      BY <1>2, <3>1, <3>2
  <2>2. \A o \in Object, s \in Slot :
          meta'[o][s][1] \in {meta[o][s][1], w_frame}
    BY <1>4, FirstMeta
  <2>3. w_frame' = w_frame
    BY <1>4, FirstMeta
  <2>4. seen.frame <= w_frame
    BY <1>2 DEF SeenInv
  <2>5. \A o \in Object : o >= r_total =>
          HeadFrame(o)' = 0 \/ seen.frame <= HeadFrame(o)' + 1
    BY <1>2, <2>1, <2>4 DEF SeenInv
  <2>6. r_pc \in {"v1", "meta1"} =>
          \/ meta'[r_obj][r_slot][1] = 0
          \/ seen.frame <= meta'[r_obj][r_slot][1] + 1
    BY <1>2, <2>2, <2>4 DEF SeenInv
  <2>7. r_pc \in {"meta2", "v2", "payload1", "payload2"} =>
          r_meta[1] <= meta'[r_obj][r_slot][1]
    BY <1>2, <2>2 DEF SeenInv, OrderInv
  <2> QED
    BY <1>1, <1>2, <2>3, <2>4, <2>5, <2>6, <2>7 DEF SeenInv
<1>5. CASE PublishHead
  <2>1. \A o \in Object : HeadFrame(o)' \in {HeadFrame(o), w_frame}
    BY <1>5, NewHead
  <2>2. UNCHANGED <<w_frame, meta>>
    BY <1>5, NewHead
  <2> QED
    BY <1>1, <1>2, <2>1, <2>2 DEF SeenInv
<1> QED
  BY <1>3, <1>4, <1>5, FrameMoves

(* The steps of the reader: it starts at a head that is at most one behind *)
(* what it has, and what it takes is at most one ahead of a head.          *)
LEMMA SeenStepReader == IInv /\ Read => SeenInv'
<1> SUFFICES ASSUME IInv, Read PROVE SeenInv'
  OBVIOUS
<1> USE DEF Reading
<1>1. /\ UNCHANGED <<meta, w_frame>> /\ UNCHANGED memory
      /\ \A o \in Object : HeadFrame(o)' = HeadFrame(o)
  BY ReadFrame, SameMemory DEF memory, writer
<1>2. /\ SeenInv /\ OrderInv /\ ReaderInv
      /\ w_frame \in Nat /\ created \in Nat
      /\ seen.frame \in Nat /\ r_meta[1] \in Nat /\ r_total \in Int
      /\ \A o \in Object, s \in Slot : meta[o][s][1] \in Nat
      /\ \A o \in Object : o \in Nat /\ HeadFrame(o) \in Nat
      /\ r_pc \notin {"idle", "connecting"} =>
           /\ r_obj \in Object /\ r_obj = r_total /\ r_slot \in Slot
           /\ meta[r_obj][r_slot][1] \in Nat
  BY FrameTypes DEF IInv
<1>3. CASE Probe \/ ConnectNoFile \/ ConnectTooEarly \/ SlotBusy \/ SlotChanged
  <2>1. r_pc' \in {"idle", "connecting"} /\ UNCHANGED <<r_total, seen>>
    BY <1>3 DEF Probe, ConnectNoFile, ConnectTooEarly, SlotBusy, SlotChanged,
       Fail, mapping
  <2> QED
    BY <1>1, <1>2, <2>1 DEF SeenInv
<1>4. CASE Connect
  <2>1. r_pc' = "idle" /\ r_total' = link /\ UNCHANGED seen /\ link \in sized
    BY <1>4 DEF Connect
  <2>2. link = created /\ created >= r_total
    BY <2>1 DEF IInv, ObjectInv, ReaderInv, TypeOK, WriterTypes, None
  <2> QED
    BY <1>1, <1>2, <2>1, <2>2 DEF SeenInv
<1>5. CASE ReadHead
  <2>1. /\ r_pc' = "v1" /\ r_obj # None /\ UNCHANGED <<r_obj, r_total, seen>>
        /\ latest' = head_idx[r_obj]
    BY <1>5 DEF ReadHead, mapping
  <2>2. r_obj = r_total /\ r_obj \in Object
    BY <2>1, BoundAssumption
       DEF IInv, ReaderInv, TypeOK, ReaderTypes, WriterTypes, Object
  <2>3. meta[r_obj][r_slot'][1] = HeadFrame(r_obj)
    BY <2>1 DEF r_slot, HeadFrame, HeadSlot
  <2>4. HeadFrame(r_obj) = 0 \/ seen.frame <= HeadFrame(r_obj) + 1
    BY <1>2, <2>2 DEF SeenInv
  <2> QED
    BY <1>1, <1>2, <2>1, <2>3, <2>4 DEF SeenInv
<1>6. CASE ReadV1
  <2>1. /\ r_pc = "v1" /\ r_pc' = "meta1"
        /\ UNCHANGED <<r_obj, r_total, r_slot, seen>>
    BY <1>6 DEF ReadV1, mapping, r_slot
  <2> QED
    BY <1>1, <1>2, <2>1 DEF SeenInv
<1>7. CASE ReadMeta(1, "meta1", "meta2")
  <2>1. /\ r_pc = "meta1" /\ r_pc' = "meta2"
        /\ r_meta' = [r_meta EXCEPT ![1] = meta[r_obj][r_slot][1]]
        /\ UNCHANGED <<r_obj, r_total, r_slot, seen>>
    BY <1>7 DEF ReadMeta, mapping, r_slot
  <2>2. r_meta'[1] = meta[r_obj][r_slot][1]
    BY <2>1 DEF IInv, TypeOK, ReaderTypes, Parts
  <2> QED
    BY <1>1, <1>2, <2>1, <2>2 DEF SeenInv
<1>8. CASE ReadMeta(2, "meta2", "v2") \/ CheckV2 \/ ReadPayload1
  <2>1. /\ r_pc \in {"meta2", "v2", "payload1"}
        /\ r_pc' \in {"v2", "payload1", "payload2"}
        /\ r_pc = "payload1" \/ r_pc' \notin {"payload1", "payload2"}
             \/ r_meta[1] # 0
        /\ UNCHANGED <<r_obj, r_total, r_slot, seen>>
        /\ r_meta' = r_meta
             \/ r_meta' = [r_meta EXCEPT ![2] = meta[r_obj][r_slot][2]]
    BY <1>8 DEF ReadMeta, CheckV2, ReadPayload1, mapping, locals, r_slot
  <2>2. r_meta'[1] = r_meta[1]
    BY <2>1 DEF IInv, TypeOK, ReaderTypes, Parts
  <2> QED
    BY <1>1, <1>2, <2>1, <2>2 DEF SeenInv
<1>9. CASE Deliver
  <2>1. /\ r_pc = "payload2" /\ r_pc' = "idle"
        /\ seen'.frame = r_meta[1] /\ UNCHANGED r_total
    BY <1>9 DEF Deliver, mapping
  <2>2. /\ r_meta[1] <= meta[r_obj][r_slot][1] /\ r_meta[1] # 0
        /\ r_obj \in Object /\ r_obj = r_total /\ r_slot \in Slot
    BY <1>2, <2>1 DEF SeenInv
  <2>3. r_meta[1] <= w_frame
    BY <1>2, <2>2 DEF OrderInv
  <2>4. ASSUME NEW o \in Object, o >= r_total
        PROVE  HeadFrame(o) = 0 \/ r_meta[1] <= HeadFrame(o) + 1
    <3>1. CASE o = r_obj
      BY <1>2, <2>2, <3>1 DEF OrderInv
    <3>2. CASE o # r_obj
      <4>1. r_obj < o /\ HeadSlot(o) \in Slot
        BY <1>2, <2>2, <2>4, <3>2, SlotsTyped DEF IInv
      <4>2. HeadFrame(o) = 0 \/ meta[r_obj][r_slot][1] <= HeadFrame(o)
        BY <1>2, <2>2, <4>1 DEF OrderInv, HeadFrame
      <4> QED
        BY <1>2, <2>2, <4>2
    <3> QED
      BY <3>1, <3>2
  <2> QED
    BY <1>1, <2>1, <2>3, <2>4 DEF SeenInv
<1> QED
  BY <1>3, <1>4, <1>5, <1>6, <1>7, <1>8, <1>9 DEF Read

-----------------------------------------------------------------------------
(***************************************************************************)
(* The inductive invariant: objects follow each other, the sequence says   *)
(* when a slot is whole, head_idx follows the last complete frame, and the *)
(* frames are ordered, those of the reader too.                            *)
(***************************************************************************)
THEOREM Invariance == Spec => []IInv
<1>1. Init => IInv
  BY InitIInv
<1>2. IInv /\ [Next]_vars => IInv'
  <2> SUFFICES ASSUME IInv, [Next]_vars PROVE IInv'
    OBVIOUS
  <2>1. TypeOK'
    BY WriterTypeStep, MemoryTypeStep, ReaderTypeStep DEF IInv, TypeOK
  <2>2. ObjectInv' /\ BlankInv' /\ HeadInv' /\ SlotInv' /\ ProgressInv' /\ OrderInv'
    BY ObjectStep, BlankStep, HeadStep, SlotStep, ProgressStep, OrderStep DEF IInv
  <2>3. ReaderInv' /\ SeenInv' /\ MetaNotTorn'
    <3>1. CASE Read
      BY <3>1, ReaderStepReader, SeenStepReader
    <3>2. CASE UNCHANGED reader
      BY <3>2, ReaderStepWriter, SeenStepWriter
    <3> QED
      BY <3>1, <3>2, WriteFrame DEF Next, vars
  <2> QED
    BY <2>1, <2>2, <2>3 DEF IInv
<1> QED
  BY <1>1, <1>2, PTL DEF Spec

(* Every state of the channel and of its two sides is well formed. *)
THEOREM TypeCorrect == Spec => []TypeOK
<1>1. IInv => TypeOK
  BY DEF IInv
<1> QED
  BY <1>1, Invariance, PTL

(* The metadata a reader goes on with after its second check are whole. *)
THEOREM MetaWhole == Spec => []MetaNotTorn
<1>1. IInv => MetaNotTorn
  BY DEF IInv
<1> QED
  BY <1>1, Invariance, PTL

(***************************************************************************)
(* The slot head_idx names is not being written: the producer of an object *)
(* that has a frame is always one slot ahead of it.                        *)
(***************************************************************************)
THEOREM HeadReadable == Spec => []HeadSlotReady
<1>1. IInv => HeadSlotReady
  <2> SUFFICES ASSUME IInv, NEW o \in Object,
                      ~(w_obj = o /\ count = 0),
                      sequence[o][HeadSlot(o)] % 2 # 0
               PROVE  FALSE
    BY DEF HeadSlotReady, HeadSlot
  <2>1. HeadSlot(o) \in Slot /\ count \in Nat
    BY SlotsTyped DEF IInv, TypeOK, WriterTypes
  <2>2. sequence[o][HeadSlot(o)] \in Nat
    BY <2>1 DEF IInv, TypeOK, MemoryTypes
  <2>3. w_pc \in Dirty /\ o = w_obj /\ HeadSlot(o) = slot
    BY <2>1, <2>2, Parity DEF IInv, SlotInv
  <2>4. count > 0 /\ w_pc \in InAWrite
    BY <2>1, <2>3 DEF InAWrite
  <2> QED
    BY <2>3, <2>4, WriteBehindHead DEF IInv
<1> QED
  BY <1>1, Invariance, PTL

(***************************************************************************)
(* The application may be handed the frame before the last one once more,  *)
(* but nothing older, in one object and across objects.                    *)
(***************************************************************************)
THEOREM TimeGoesOn == Spec => BackByAtMostOne
<1>1. IInv /\ [Next]_vars => [seen'.frame >= seen.frame - 1]_vars
  <2> SUFFICES ASSUME IInv, [Next]_vars PROVE seen'.frame >= seen.frame - 1
    OBVIOUS
  <2>1. seen.frame \in Nat /\ r_meta[1] \in Nat
    BY FrameTypes DEF IInv
  <2>2. CASE Deliver
    <3>1. r_pc = "payload2" /\ seen'.frame = r_meta[1]
      BY <2>2 DEF Deliver, Reading
    <3> QED
      BY <2>1, <3>1 DEF IInv, SeenInv
  <2>3. CASE UNCHANGED seen
    BY <2>1, <2>3
  <2>4. Read => Deliver \/ UNCHANGED seen
    BY DEF Read, Probe, ConnectNoFile, ConnectTooEarly, Connect, ReadHead, ReadV1,
       SlotBusy, ReadMeta, CheckV2, SlotChanged, ReadPayload1, Fail
  <2> QED
    BY <2>2, <2>3, <2>4, WriteFrame DEF Next, vars, reader
<1> QED
  BY <1>1, Invariance, PTL DEF Spec, BackByAtMostOne

=============================================================================
