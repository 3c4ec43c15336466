----------------------------- MODULE ShmChannel -----------------------------
(***************************************************************************)
(* Raw frames through shared memory: the producer is ZeroCopyChannel       *)
(* (include/zero_copy_channel.hpp), driven by StreamTask::ensureShmChannel *)
(* and stepCompute; the consumer is _ShmReader (client/remote_capture.py). *)
(* A ring of slots, each guarded by a sequence number that is odd while    *)
(* the slot is written, and head_idx, the number of the last write.        *)
(*                                                                         *)
(* When a frame outgrows the slots the producer unlinks the object and     *)
(* creates another under the same path; a consumer that mapped the old one *)
(* must notice.  Objects are numbered, and the number stands for both the  *)
(* inode and the size: a later object is larger.                           *)
(*                                                                         *)
(* A frame is the number of its write; zero is memory nobody wrote.        *)
(* Metadata and payload have two parts each, so that they can be torn.     *)
(* Memory is sequentially consistent, as the x86-64 build makes the        *)
(* accesses of both sides.  grab() repeats the tests of retrieve() without *)
(* copying, so it is not modelled; waiting on the semaphore, which is cut  *)
(* into slices, only delays the next attempt.                              *)
(***************************************************************************)
EXTENDS Integers

CONSTANTS
  SlotCount,   (* SHM_SLOT_COUNT                                             *)
  MaxFrames,   (* bound on the frames the producer writes                    *)
  MaxObjects   (* bound on the objects it creates                            *)

ASSUME SlotAssumption == SlotCount \in Nat /\ SlotCount >= 2
ASSUME BoundAssumption == MaxFrames \in Nat /\ MaxObjects \in Nat

Object == 1..MaxObjects
Slot   == 0..(SlotCount - 1)
Frame  == 0..MaxFrames
Parts  == {1, 2}

None     == 0     (* no object: not linked, not mapped, not identified       *)
Fallback == -1    (* TOTAL_SIZE of the layout a reader starts with           *)
Blank    == [part \in Parts |-> 0]

VARIABLES
  link,       (* the object at /dev/shm/<stream_id>                          *)
  created,    (* number of objects created                                   *)
  sized,      (* objects past ftruncate() and memset()                       *)
  sequence,   (* per object and slot                                         *)
  meta,       (* per object and slot                                         *)
  payload,    (* per object and slot                                         *)
  head_idx,   (* per object                                                  *)
  w_pc,       (* progress of the producer                                    *)
  w_obj,      (* the object of its channel, shm_channel_                     *)
  w_frame,    (* the frame it writes or wrote last                           *)
  count,      (* number of the write under way, or of the next one           *)
  r_pc,       (* progress of the consumer                                    *)
  r_obj,      (* the object it has mapped                                    *)
  r_identity, (* _identity, recorded when it opened the path                 *)
  r_total,    (* the object TOTAL_SIZE was derived from                      *)
  last_idx,   (* _last_idx                                                   *)
  latest,     (* head_idx as it read it                                      *)
  v1,         (* the sequence it read first                                  *)
  r_meta,     (* the metadata it read                                        *)
  r_payload,  (* the payload it copied                                       *)
  seen        (* the last frame handed to the application                    *)

shm     == <<link, created, sized>>
memory  == <<sequence, meta, payload, head_idx>>
writer  == <<w_pc, w_obj, w_frame, count>>
mapping == <<r_obj, r_identity, r_total>>
locals  == <<latest, v1, r_meta, r_payload>>
reader  == <<r_pc, mapping, last_idx, locals, seen>>

vars == <<shm, memory, writer, reader>>

Init ==
  /\ link = None /\ created = 0 /\ sized = {}
  /\ sequence = [o \in Object |-> [s \in Slot |-> 0]]
  /\ meta     = [o \in Object |-> [s \in Slot |-> Blank]]
  /\ payload  = [o \in Object |-> [s \in Slot |-> Blank]]
  /\ head_idx = [o \in Object |-> 0]
  /\ w_pc = "idle" /\ w_obj = None /\ w_frame = 0 /\ count = 0
  /\ r_pc = "idle" /\ r_obj = None /\ r_identity = None /\ r_total = Fallback
  /\ last_idx = -1
  /\ latest = 0 /\ v1 = 0 /\ r_meta = Blank /\ r_payload = Blank
  /\ seen = [frame |-> 0, payload |-> Blank]

-----------------------------------------------------------------------------
(***************************************************************************)
(* The producer: ensureShmChannel() for each frame, then write_frame_raw() *)
(* in the order of its numbered steps.                                     *)
(***************************************************************************)
Writing(from, to) == w_pc = from /\ w_pc' = to

(* The frame fits the slots of the channel. *)
FrameFits ==
  /\ w_frame < MaxFrames /\ w_obj # None
  /\ Writing("idle", "begin")
  /\ w_frame' = w_frame + 1
  /\ UNCHANGED <<shm, memory, w_obj, count, reader>>

(* There is no channel, or its slots are too small. *)
FrameNeedsObject ==
  /\ w_frame < MaxFrames /\ created < MaxObjects
  /\ Writing("idle", IF w_obj = None THEN "create" ELSE "unlink")
  /\ w_frame' = w_frame + 1
  /\ UNCHANGED <<shm, memory, w_obj, count, reader>>

UnlinkOld ==
  /\ Writing("unlink", "create")
  /\ link' = None /\ w_obj' = None
  /\ UNCHANGED <<created, sized, memory, w_frame, count, reader>>

(* shm_open(O_CREAT): the object is visible, with size zero. *)
CreateObject ==
  /\ Writing("create", "size")
  /\ created' = created + 1 /\ link' = created + 1
  /\ UNCHANGED <<sized, memory, w_obj, w_frame, count, reader>>

SizeObject ==
  /\ Writing("size", "begin")
  /\ sized' = sized \cup {link}
  /\ w_obj' = link /\ count' = 0
  /\ UNCHANGED <<link, created, memory, w_frame, reader>>

(* ftruncate() or mmap() fails: the object is unlinked, the frame is lost. *)
SizeFails ==
  /\ Writing("size", "idle")
  /\ link' = None
  /\ UNCHANGED <<created, sized, memory, w_obj, w_frame, count, reader>>

(* Mutant: the slot is the one head_idx still names. *)
SlotOfHead == head_idx[w_obj] % SlotCount

slot == count % SlotCount

Bump == sequence' = [sequence EXCEPT ![w_obj][slot] = @ + 1]

MarkWriting ==
  /\ Writing("begin", "meta1")
  /\ Bump
  /\ UNCHANGED <<shm, meta, payload, head_idx, w_obj, w_frame, count, reader>>

WriteMeta(part, from, to) ==
  /\ Writing(from, to)
  /\ meta' = [meta EXCEPT ![w_obj][slot][part] = w_frame]
  /\ UNCHANGED <<shm, sequence, payload, head_idx, w_obj, w_frame, count,
                 reader>>

WritePayload(part, from, to) ==
  /\ Writing(from, to)
  /\ payload' = [payload EXCEPT ![w_obj][slot][part] = w_frame]
  /\ UNCHANGED <<shm, sequence, meta, head_idx, w_obj, w_frame, count, reader>>

MarkReady ==
  /\ Writing("ready", "head")
  /\ Bump
  /\ UNCHANGED <<shm, meta, payload, head_idx, w_obj, w_frame, count, reader>>

PublishHead ==
  /\ Writing("head", "idle")
  /\ head_idx' = [head_idx EXCEPT ![w_obj] = count]
  /\ count' = count + 1
  /\ UNCHANGED <<shm, sequence, meta, payload, w_obj, w_frame, reader>>

(* cleanup(), from stop(): the mutex keeps it out of a write. *)
Cleanup ==
  /\ w_obj # None
  /\ Writing("idle", "stopped")
  /\ link' = None /\ w_obj' = None
  /\ UNCHANGED <<created, sized, memory, w_frame, count, reader>>

Write ==
  \/ UnlinkOld \/ CreateObject \/ SizeObject \/ SizeFails
  \/ MarkWriting
  \/ WriteMeta(1, "meta1", "meta2") \/ WriteMeta(2, "meta2", "payload1")
  \/ WritePayload(1, "payload1", "payload2")
  \/ WritePayload(2, "payload2", "ready")
  \/ MarkReady \/ PublishHead

-----------------------------------------------------------------------------
(***************************************************************************)
(* The consumer: _maybe_reconnect() once no frame has come for a while,    *)
(* connect(), and the steps of retrieve().                                 *)
(***************************************************************************)
Reading(from, to) == r_pc = from /\ r_pc' = to

(* The attempt ends without a frame. *)
Forget ==
  /\ latest' = 0 /\ v1' = 0 /\ r_meta' = Blank /\ r_payload' = Blank

Fail(from) == Reading(from, "idle") /\ Forget /\ UNCHANGED <<last_idx, seen>>

SizeOf(o) == IF o \in sized THEN o ELSE 0

(* stat(): another object, or another size; close the mapping. *)
Probe ==
  /\ link # None /\ (link # r_identity \/ SizeOf(link) # r_total)
  /\ Reading("idle", "connecting")
  /\ r_obj' = None
  /\ UNCHANGED <<shm, memory, writer, r_identity, r_total, last_idx, locals,
                 seen>>

ConnectNoFile ==
  /\ link = None
  /\ Reading("connecting", "idle")
  /\ UNCHANGED <<shm, memory, writer, mapping, last_idx, locals, seen>>

(* An object without size cannot be mapped; its identity is remembered. *)
ConnectTooEarly ==
  /\ link # None /\ link \notin sized
  /\ Reading("connecting", "idle")
  /\ r_identity' = link
  /\ UNCHANGED <<shm, memory, writer, r_obj, r_total, last_idx, locals, seen>>

(* Mutant: the index of the old object is kept. *)
ConnectKeepsIndex ==
  /\ link \in sized
  /\ Reading("connecting", "idle")
  /\ r_obj' = link /\ r_identity' = link /\ r_total' = link
  /\ UNCHANGED <<shm, memory, writer, last_idx, locals, seen>>

Connect ==
  /\ link \in sized
  /\ Reading("connecting", "idle")
  /\ r_obj' = link /\ r_identity' = link /\ r_total' = link
  /\ last_idx' = -1
  /\ UNCHANGED <<shm, memory, writer, locals, seen>>

(* Mutant: head_idx is taken for the number of the next write. *)
RSlotBefore == (latest + SlotCount - 1) % SlotCount

r_slot == latest % SlotCount

ReadHead ==
  /\ r_obj # None /\ head_idx[r_obj] # last_idx
  /\ Reading("idle", "v1")
  /\ latest' = head_idx[r_obj]
  /\ UNCHANGED <<shm, memory, writer, mapping, last_idx, v1, r_meta,
                 r_payload, seen>>

ReadV1 ==
  /\ Reading("v1", "meta1")
  /\ sequence[r_obj][r_slot] % 2 = 0
  /\ v1' = sequence[r_obj][r_slot]
  /\ UNCHANGED <<shm, memory, writer, mapping, last_idx, latest, r_meta,
                 r_payload, seen>>

SlotBusy ==
  /\ Fail("v1")
  /\ sequence[r_obj][r_slot] % 2 = 1
  /\ UNCHANGED <<shm, memory, writer, mapping>>

ReadMeta(part, from, to) ==
  /\ Reading(from, to)
  /\ r_meta' = [r_meta EXCEPT ![part] = meta[r_obj][r_slot][part]]
  /\ UNCHANGED <<shm, memory, writer, mapping, last_idx, latest, v1,
                 r_payload, seen>>

(* Mutant: the sequence is not read again. *)
NoSecondCheck ==
  /\ r_meta[1] # 0
  /\ Reading("v2", "payload1")
  /\ UNCHANGED <<shm, memory, writer, mapping, last_idx, locals, seen>>

(* The second read of the sequence, after the test of the size. *)
CheckV2 ==
  /\ Reading("v2", "payload1")
  /\ r_meta[1] # 0 /\ sequence[r_obj][r_slot] = v1
  /\ UNCHANGED <<shm, memory, writer, mapping, last_idx, locals, seen>>

SlotChanged ==
  /\ Fail("v2")
  /\ r_meta[1] = 0 \/ sequence[r_obj][r_slot] # v1
  /\ UNCHANGED <<shm, memory, writer, mapping>>

ReadPayload1 ==
  /\ Reading("payload1", "payload2")
  /\ r_payload' = [r_payload EXCEPT ![1] = payload[r_obj][r_slot][1]]
  /\ UNCHANGED <<shm, memory, writer, mapping, last_idx, latest, v1, r_meta,
                 seen>>

(* The rest of the copy; then the frame goes to the application. *)
Deliver ==
  /\ Reading("payload2", "idle")
  /\ seen' = [frame   |-> r_meta[1],
              payload |-> [r_payload EXCEPT ![2] =
                             payload[r_obj][r_slot][2]]]
  /\ last_idx' = latest
  /\ Forget
  /\ UNCHANGED <<shm, memory, writer, mapping>>

Read ==
  \/ Probe \/ ConnectNoFile \/ ConnectTooEarly \/ Connect
  \/ ReadHead \/ ReadV1 \/ SlotBusy
  \/ ReadMeta(1, "meta1", "meta2") \/ ReadMeta(2, "meta2", "v2")
  \/ CheckV2 \/ SlotChanged
  \/ ReadPayload1 \/ Deliver

-----------------------------------------------------------------------------
Next == FrameFits \/ FrameNeedsObject \/ Write \/ Cleanup \/ Read

Spec == Init /\ [][Next]_vars

(***************************************************************************)
(* Fairness: a write that was begun ends, and the consumer keeps trying:   *)
(* every unsuccessful attempt is followed by another after a bounded wait, *)
(* and every stretch without a frame by a probe.  Frames need not come.    *)
(***************************************************************************)
Fairness == WF_vars(Write) /\ WF_vars(Read)

FairSpec == Spec /\ Fairness

-----------------------------------------------------------------------------
WriterState == {"idle", "unlink", "create", "size", "begin", "meta1", "meta2",
                "payload1", "payload2", "ready", "head", "stopped"}
ReaderState == {"idle", "connecting", "v1", "meta1", "meta2", "v2",
                "payload1", "payload2"}

MemoryTypes ==
  /\ sequence \in [Object -> [Slot -> Nat]]
  /\ meta \in [Object -> [Slot -> [Parts -> Frame]]]
  /\ payload \in [Object -> [Slot -> [Parts -> Frame]]]
  /\ head_idx \in [Object -> Nat]

WriterTypes ==
  /\ link \in Object \cup {None} /\ created \in 0..MaxObjects
  /\ sized \subseteq 1..created
  /\ w_pc \in WriterState /\ w_obj \in sized \cup {None}
  /\ w_frame \in Frame /\ count \in Nat

ReaderTypes ==
  /\ r_pc \in ReaderState /\ r_obj \in sized \cup {None}
  /\ r_identity \in Object \cup {None}
  /\ r_total \in Object \cup {Fallback}
  /\ last_idx \in Nat \cup {-1} /\ latest \in Nat
  /\ v1 \in Nat /\ v1 % 2 = 0
  /\ r_meta \in [Parts -> Frame] /\ r_payload \in [Parts -> Frame]
  /\ seen \in [frame : Frame, payload : [Parts -> Frame]]

(* Both sides keep their types; the sequence a reader relies on is even. *)
TypeOK == MemoryTypes /\ WriterTypes /\ ReaderTypes

(***************************************************************************)
(* The metadata a reader goes on with after its second check belong to one *)
(* frame: size, geometry and time stamp fit each other.                    *)
(***************************************************************************)
MetaNotTorn ==
  r_pc \in {"payload1", "payload2"} => r_meta[1] = r_meta[2]

(***************************************************************************)
(* Once an object has its first frame, the slot head_idx names is never    *)
(* being written: a reader that does not lag is never turned away.         *)
(***************************************************************************)
HeadSlotReady ==
  \A o \in Object :
    meta[o][head_idx[o] % SlotCount][1] # 0 /\ ~(w_obj = o /\ count = 0)
      => sequence[o][head_idx[o] % SlotCount] % 2 = 0

(***************************************************************************)
(* Frames may come twice, and a reader that stalled for a whole round of   *)
(* the ring may be handed the frame before the last one next, but time     *)
(* never goes back further, not even across a rebuild.                     *)
(***************************************************************************)
BackByAtMostOne == [][seen'.frame >= seen.frame - 1]_vars

(***************************************************************************)
(* When the producer has nothing more to write, the reader gets its last   *)
(* frame, whatever was rebuilt in between.                                 *)
(***************************************************************************)
LastFrameSeen ==
  (w_frame = MaxFrames /\ w_pc = "idle" /\ w_obj # None)
    ~> (seen.frame = MaxFrames \/ w_obj = None)

(***************************************************************************)
(* What README.md says of the second check in its example reader: it       *)
(* guards against a concurrent overwrite, so a delivered payload is one    *)
(* frame, the one the metadata describe.                                   *)
(***************************************************************************)
NoTornPayload ==
  \A part \in Parts : seen.payload[part] = seen.frame

=============================================================================
