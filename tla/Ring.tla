-------------------------------- MODULE Ring --------------------------------
(***************************************************************************)
(* The shared-memory ring of corsair_ipc (ring.rs) with the framing of     *)
(* protocol.rs: one producer and one consumer, in two processes, that      *)
(* share a 16-byte header (write and read offset) and Capacity data bytes. *)
(*                                                                         *)
(* The offsets only grow; a byte with absolute offset o lives in slot      *)
(* o % Capacity.  Nothing locks the ring across the processes, so the      *)
(* model interleaves the two sides byte by byte: write_frame is a load of  *)
(* the offsets, one step for each byte copied and the store that publishes *)
(* them; read_available is a load, one step per byte and set_read.         *)
(*                                                                         *)
(* A body is abstracted to the number of the frame and its length.  The    *)
(* four-byte length prefix of pack_frame is the `len` every byte of the    *)
(* model carries; the decoder looks at it in the first byte only.          *)
(***************************************************************************)
EXTENDS Integers, Sequences

CONSTANTS Capacity,    \* data bytes of the ring (1 MiB in production)
          Lengths,     \* frame lengths the producer may offer
          MaxFrames,   \* bound: frames the producer offers
          KeepTail     \* does the consumer keep an incomplete frame for the
                       \* next round (trader) or discard it (command_pump)?

ASSUME CapacityAssumption == Capacity \in Nat \ {0}
ASSUME LengthsAssumption == Lengths \subseteq Nat \ {0}
ASSUME MaxFramesAssumption == MaxFrames \in Nat
ASSUME KeepTailAssumption == KeepTail \in BOOLEAN

VARIABLES w,           \* header: write_offset
          r,           \* header: read_offset
          data,        \* the slots
          wr,          \* the producer inside write_frame
          rd,          \* the consumer inside read_available
          offered,     \* frames offered so far (numbers them)
          frames_dropped,
          buf,         \* bytes the consumer keeps for the next round
          accepted,    \* history: frames for which write_frame said true
          stream,      \* history: all bytes published
          got,         \* history: all bytes read_available returned
          delivered    \* history: frames decoded by the consumer

shared == <<w, r, data>>
history == <<accepted, stream, got, delivered>>
vars == <<w, r, data, wr, rd, offered, frames_dropped, buf,
          accepted, stream, got, delivered>>

-----------------------------------------------------------------------------
(* Framing *)

Byte == [id : 0 .. MaxFrames, pos : Nat, len : Nat]

ZeroByte == [id |-> 0, pos |-> 0, len |-> 0]

pack_frame(id, n) == [k \in 1 .. n |-> [id |-> id, pos |-> k, len |-> n]]

(* One byte more for try_unpack_frame: a frame is complete when as many    *)
(* bytes are there as its first byte announces.  Bytes that are no frame   *)
(* the producer packed decode to frame number 0.                           *)
try_unpack_frame(acc, b) ==
  LET rest == Append(acc.rest, b)
      head == rest[1]
  IN IF Len(rest) < head.len
     THEN [acc EXCEPT !.rest = rest]
     ELSE [rest |-> <<>>,
           out  |-> Append(acc.out,
                           IF rest = pack_frame(head.id, head.len)
                           THEN head.id ELSE 0)]

unpack_all_frames(bytes) ==
  LET unpacked[k \in 0 .. Len(bytes)] ==
        IF k = 0 THEN [rest |-> <<>>, out |-> <<>>]
        ELSE try_unpack_frame(unpacked[k - 1], bytes[k])
  IN unpacked[Len(bytes)]

-----------------------------------------------------------------------------
(* Producer *)

IdleWriter == [pc |-> "idle", w |-> 0, frame |-> <<>>, k |-> 0]
IdleReader == [pc |-> "idle", w |-> 0, r |-> 0, bytes |-> <<>>]

Slot(offset) == offset % Capacity

(* Two plausible slips in the admission test. *)
FitsOffByOne(n) == n <= Capacity \div 2 /\ Capacity - (w - r) + 1 >= n
FitsIgnoringReader(n) == n <= Capacity \div 2

(* write_frame's two early returns, as one condition: a frame longer than  *)
(* half of the ring is refused whatever room there is; otherwise it needs  *)
(* as many free bytes as it has.                                           *)
Fits(n) == n <= Capacity \div 2 /\ Capacity - (w - r) >= n

WriteRefusedCountsTwice(n) ==
  /\ wr.pc = "idle"
  /\ offered < MaxFrames
  /\ ~Fits(n)
  /\ offered' = offered + 1
  /\ frames_dropped' = frames_dropped + 2
  /\ UNCHANGED <<shared, wr, rd, buf, history>>

WriteRefused(n) ==
  /\ wr.pc = "idle"
  /\ offered < MaxFrames
  /\ ~Fits(n)
  /\ offered' = offered + 1
  /\ frames_dropped' = frames_dropped + 1
  /\ UNCHANGED <<shared, wr, rd, buf, history>>

WriteBegin(n) ==
  /\ wr.pc = "idle"
  /\ offered < MaxFrames
  /\ Fits(n)
  /\ offered' = offered + 1
  /\ wr' = [pc |-> "copy", w |-> w, frame |-> pack_frame(offered + 1, n), k |-> 0]
  /\ UNCHANGED <<shared, rd, frames_dropped, buf, history>>

WriteByte ==
  /\ wr.pc = "copy" /\ wr.k < Len(wr.frame)
  /\ data' = [data EXCEPT ![Slot(wr.w + wr.k)] = wr.frame[wr.k + 1]]
  /\ wr' = [wr EXCEPT !.k = @ + 1]
  /\ UNCHANGED <<w, r, rd, offered, frames_dropped, buf, history>>

PublishEarly ==
  /\ wr.pc = "copy"
  /\ w' = wr.w + Len(wr.frame)
  /\ stream' = stream \o wr.frame
  /\ accepted' = Append(accepted, offered)
  /\ wr' = IdleWriter
  /\ UNCHANGED <<r, data, rd, offered, frames_dropped, buf, got, delivered>>

(* The Release store of the new write offset.  The notification that       *)
(* follows is the subject of EventLoop.                                    *)
Publish ==
  /\ wr.pc = "copy" /\ wr.k = Len(wr.frame)
  /\ w' = wr.w + Len(wr.frame)
  /\ stream' = stream \o wr.frame
  /\ accepted' = Append(accepted, offered)
  /\ wr' = IdleWriter
  /\ UNCHANGED <<r, data, rd, offered, frames_dropped, buf, got, delivered>>

-----------------------------------------------------------------------------
(* Consumer *)

(* read_available with nothing to read returns at once and changes nothing *)
(* (saturating_sub), so only a non-empty read is a step.                   *)
ReadBegin ==
  /\ rd.pc = "idle" /\ w > r
  /\ rd' = [pc |-> "copy", w |-> w, r |-> r, bytes |-> <<>>]
  /\ UNCHANGED <<shared, wr, offered, frames_dropped, buf, history>>

ReadByte ==
  /\ rd.pc = "copy" /\ Len(rd.bytes) < rd.w - rd.r
  /\ rd' = [rd EXCEPT !.bytes = Append(@, data[Slot(rd.r + Len(@))])]
  /\ UNCHANGED <<shared, wr, offered, frames_dropped, buf, history>>

SetReadToLatest ==
  /\ rd.pc = "copy" /\ Len(rd.bytes) = rd.w - rd.r
  /\ r' = w
  /\ got' = got \o rd.bytes
  /\ LET unpacked == unpack_all_frames(buf \o rd.bytes)
     IN /\ delivered' = delivered \o unpacked.out
        /\ buf' = IF KeepTail THEN unpacked.rest ELSE <<>>
  /\ rd' = IdleReader
  /\ UNCHANGED <<w, data, wr, offered, frames_dropped, accepted, stream>>

(* set_read, then the caller's unpack_all_frames: the trader appends the   *)
(* chunk to the tail it kept, command_pump starts from an empty buffer.    *)
SetRead ==
  /\ rd.pc = "copy" /\ Len(rd.bytes) = rd.w - rd.r
  /\ r' = rd.r + Len(rd.bytes)
  /\ got' = got \o rd.bytes
  /\ LET unpacked == unpack_all_frames(buf \o rd.bytes)
     IN /\ delivered' = delivered \o unpacked.out
        /\ buf' = IF KeepTail THEN unpacked.rest ELSE <<>>
  /\ rd' = IdleReader
  /\ UNCHANGED <<w, data, wr, offered, frames_dropped, accepted, stream>>

-----------------------------------------------------------------------------
(* create_owner: offsets zero, slots zero-filled, no frame in flight. *)
Init ==
  /\ w = 0 /\ r = 0
  /\ data = [s \in 0 .. Capacity - 1 |-> ZeroByte]
  /\ wr = IdleWriter /\ rd = IdleReader
  /\ offered = 0 /\ frames_dropped = 0
  /\ buf = <<>>
  /\ accepted = <<>> /\ stream = <<>> /\ got = <<>> /\ delivered = <<>>

Producer ==
  \/ \E n \in Lengths : WriteRefused(n) \/ WriteBegin(n)
  \/ WriteByte
  \/ Publish

Consumer == ReadBegin \/ ReadByte \/ SetRead

Next == Producer \/ Consumer

Spec == Init /\ [][Next]_vars

(* The producer may stop offering frames; once inside write_frame it goes  *)
(* on.  The consumer polls for ever: command_pump every millisecond, the   *)
(* trader at the latest after its 100 ms timeout.                          *)
FairSpec == Spec /\ WF_vars(WriteByte \/ Publish) /\ WF_vars(Consumer)

-----------------------------------------------------------------------------
(* Properties *)

(* Every variable has its type. *)
TypeOK ==
  /\ w \in Nat /\ r \in Nat
  /\ data \in [0 .. Capacity - 1 -> Byte]
  /\ wr \in [pc : {"idle", "copy"}, w : Nat, frame : Seq(Byte), k : Nat]
  /\ rd \in [pc : {"idle", "copy"}, w : Nat, r : Nat, bytes : Seq(Byte)]
  /\ offered \in 0 .. MaxFrames
  /\ frames_dropped \in 0 .. MaxFrames
  /\ accepted \in Seq(0 .. MaxFrames)
  /\ stream \in Seq(Byte) /\ got \in Seq(Byte)

(* The consumer has read exactly the published stream up to its offset,    *)
(* and each byte still to be read is intact in its slot, however the two   *)
(* sides' byte copies interleave and wherever the ring wraps.              *)
StreamIntact ==
  /\ r <= w /\ w = Len(stream)
  /\ got = SubSeq(stream, 1, r)
  /\ \A o \in r .. w - 1 : data[Slot(o)] = stream[o + 1]

(* The frames the consumer decodes are the accepted ones in their order,   *)
(* none lost, repeated or garbled, and no round ends in the middle of a    *)
(* frame -- which is why command_pump may discard the tail of its buffer.  *)
FramesInOrder ==
  /\ delivered = SubSeq(accepted, 1, Len(delivered))
  /\ buf = <<>>
  /\ r = w => delivered = accepted

(* No step overwrites a byte that is published and not yet released by     *)
(* the consumer's set_read: what write_frame's `free` is for.              *)
NoOverwrite ==
  [][\A o \in r .. w - 1 : r' <= o => data'[Slot(o)] = data[Slot(o)]]_vars

(* Whatever is published is read in the end. *)
PublishedIsRead == \A n \in 1 .. MaxFrames :
  n <= Len(accepted) ~> n <= Len(delivered)

Abstract == INSTANCE LossyStream
              WITH Element <- Byte, sent <- stream, taken <- got

(* The ring implements the abstract lossy stream: seen through the bytes   *)
(* published and the bytes read, no step does anything but append to the   *)
(* one or extend the other along it.                                       *)
ImplementsLossyStream == Abstract!Spec
=============================================================================
