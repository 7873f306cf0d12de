----------------------------- MODULE RingProofs -----------------------------
(***************************************************************************)
(* Proofs about the shared-memory ring, for every capacity, every set of   *)
(* frame lengths and any number of frames: types, the integrity of the     *)
(* byte stream, the absence of overwrites, the refinement of LossyStream,  *)
(* and that the frames are decoded whole and in order.                     *)
(***************************************************************************)
EXTENDS Ring, DataTheorems, SequenceTheorems, WellFoundedInduction, TLAPS

(* A remainder is below its modulus. *)
LEMMA ModRange ==
  ASSUME NEW C \in Nat \ {0}, NEW a \in Nat
  PROVE  a % C \in 0 .. C - 1
OBVIOUS

(* A positive multiple of C is at least C. *)
LEMMA MulAtLeast ==
  ASSUME NEW C \in Nat \ {0}, NEW k \in Int, k > 0
  PROVE  C * k >= C
OBVIOUS

(* Where the elements of two sequences are in their concatenation. *)
LEMMA ConcatFacts ==
  ASSUME NEW S, NEW a \in Seq(S), NEW b \in Seq(S)
  PROVE  /\ a \o b \in Seq(S)
         /\ Len(a \o b) = Len(a) + Len(b)
         /\ \A i \in 1 .. Len(a) : (a \o b)[i] = a[i]
         /\ \A j \in 1 .. Len(b) : (a \o b)[Len(a) + j] = b[j]
<1>1. PICK n \in Nat, m \in Nat : n = Len(a) /\ m = Len(b)
  BY LenProperties
<1>2. /\ a \o b \in Seq(S)
      /\ Len(a \o b) = n + m
      /\ \A i \in 1 .. n + m :
            (a \o b)[i] = IF i <= n THEN a[i] ELSE b[i - n]
  BY <1>1, ConcatProperties, Zenon
<1>3. ASSUME NEW j \in 1 .. m
      PROVE  (a \o b)[n + j] = b[j]
  <2>1. n + j \in 1 .. n + m /\ ~(n + j <= n) /\ (n + j) - n = j
    OBVIOUS
  <2> QED
    BY <1>2, <2>1
<1>4. ASSUME NEW i \in 1 .. n
      PROVE  (a \o b)[i] = a[i]
  <2>1. i \in 1 .. n + m /\ i <= n
    OBVIOUS
  <2> QED
    BY <1>2, <2>1
<1> QED
  BY <1>1, <1>2, <1>3, <1>4, Zenon

(* What the reader copied continues the prefix it had read before. *)
LEMMA PrefixExtends ==
  ASSUME NEW S, NEW s \in Seq(S), NEW n \in Nat, NEW b \in Seq(S),
         n + Len(b) <= Len(s),
         \A j \in 1 .. Len(b) : b[j] = s[n + j]
  PROVE  SubSeq(s, 1, n) \o b = SubSeq(s, 1, n + Len(b))
<1>m. PICK m \in Nat : m = Len(b)
  BY LenProperties
<1> USE <1>m
<1> DEFINE p == SubSeq(s, 1, n)
           q == SubSeq(s, 1, n + m)
<1>1. \A i \in 1 .. n + m : s[i] \in S
  BY ElementOfSeq, LenProperties
<1>2. p \in Seq(S) /\ Len(p) = n /\ \A i \in 1 .. n : p[i] = s[i]
  BY <1>1, SubSeqProperties
<1>3. q \in Seq(S) /\ Len(q) = n + m /\ \A i \in 1 .. n + m : q[i] = s[i]
  BY <1>1, SubSeqProperties
<1> HIDE DEF p, q
<1>4. /\ p \o b \in Seq(S) /\ Len(p \o b) = n + m
      /\ \A i \in 1 .. n + m : (p \o b)[i] = IF i <= n THEN p[i] ELSE b[i - n]
  <2>1. /\ p \o b \in Seq(S) /\ Len(p \o b) = Len(p) + Len(b)
        /\ \A i \in 1 .. Len(p) + Len(b) :
             (p \o b)[i] = IF i <= Len(p) THEN p[i] ELSE b[i - Len(p)]
    BY <1>2, ConcatProperties, Zenon
  <2> QED
    BY <2>1, <1>2, <1>m, Zenon
<1>5. ASSUME NEW i \in 1 .. n + m
      PROVE  (p \o b)[i] = q[i]
  <2>1. CASE i \in 1 .. n
    <3>1. (p \o b)[i] = p[i] /\ p[i] = s[i] /\ q[i] = s[i]
      BY <2>1, <1>2, <1>3, <1>4
    <3> QED
      BY <3>1
  <2>2. CASE i \notin 1 .. n
    <3>1. i - n \in 1 .. m /\ n + (i - n) = i /\ ~(i <= n)
      BY <2>2
    <3>2. b[i - n] = s[n + (i - n)]
      BY <3>1
    <3>3. (p \o b)[i] = b[i - n] /\ q[i] = s[i]
      BY <3>1, <1>3, <1>4
    <3> QED
      BY <3>1, <3>2, <3>3
  <2> QED
    BY <2>1, <2>2
<1>6. \A i \in 1 .. Len(p \o b) : (p \o b)[i] = q[i]
  BY <1>4, <1>5
<1>7. p \o b = q
  BY <1>3, <1>4, <1>6, SeqEqual
<1> QED
  BY <1>7 DEF p, q

(* Offsets less than Capacity apart have different slots. *)
LEMMA SlotDistinct ==
  ASSUME NEW a \in Nat, NEW b \in Nat, a < b, b < a + Capacity
  PROVE  Slot(a) # Slot(b)
<1> DEFINE qa == a \div Capacity
           qb == b \div Capacity
<1> USE CapacityAssumption
<1>1. /\ qa \in Int /\ qb \in Int
      /\ a = Capacity * qa + (a % Capacity)
      /\ b = Capacity * qb + (b % Capacity)
  OBVIOUS
<1>2. SUFFICES ASSUME a % Capacity = b % Capacity PROVE FALSE
  BY DEF Slot
<1>3. b - a = Capacity * (qb - qa)
  BY <1>1, <1>2
<1>4. qb - qa > 0 => FALSE
  BY <1>1, <1>3, MulAtLeast
<1>5. qb - qa <= 0 => Capacity * (qb - qa) <= 0
  BY <1>1
<1> QED
  BY <1>1, <1>3, <1>4, <1>5

-----------------------------------------------------------------------------
(* The inductive invariant.  StreamIntact is not inductive by itself: it   *)
(* needs that the producer's loaded offset is still current and that the   *)
(* room it found is still there, that the bytes it has copied are the      *)
(* frame's, and that what the reader copied agrees with the stream.        *)

OffsetsInv ==
  /\ r <= w /\ w - r <= Capacity
  /\ Len(stream) = w
  /\ frames_dropped <= offered

WriterInv ==
  wr.pc = "copy" =>
    /\ wr.w = w /\ wr.k <= Len(wr.frame)
    /\ Len(wr.frame) <= Capacity - (w - r)
    /\ \A j \in 0 .. wr.k - 1 : data[Slot(w + j)] = wr.frame[j + 1]

ReaderInv ==
  rd.pc = "copy" =>
    /\ rd.r = r /\ rd.w <= w
    /\ Len(rd.bytes) <= rd.w - r
    /\ \A j \in 1 .. Len(rd.bytes) : rd.bytes[j] = stream[r + j]

IndInv == TypeOK /\ OffsetsInv /\ StreamIntact /\ WriterInv /\ ReaderInv

(* create_owner leaves a ring that satisfies the invariant. *)
LEMMA InitInd == Init => IndInv
<1> SUFFICES ASSUME Init PROVE IndInv
  OBVIOUS
<1> USE CapacityAssumption, MaxFramesAssumption
<1>1. TypeOK
  BY DEF Init, TypeOK, IdleWriter, IdleReader, ZeroByte, Byte
<1>2. OffsetsInv /\ WriterInv /\ ReaderInv
  BY DEF Init, OffsetsInv, WriterInv, ReaderInv, IdleWriter, IdleReader
<1>3. StreamIntact
  BY DEF Init, StreamIntact
<1> QED
  BY <1>1, <1>2, <1>3 DEF IndInv

(* A packed frame is a sequence of bytes of the length asked for. *)
LEMMA PackFrameType ==
  ASSUME NEW id \in 0 .. MaxFrames, NEW n \in Nat
  PROVE  /\ pack_frame(id, n) \in Seq(Byte)
         /\ Len(pack_frame(id, n)) = n
BY MaxFramesAssumption DEF pack_frame, Byte

(* A slot is an index of the ring. *)
LEMMA SlotRange == \A o \in Nat : Slot(o) \in 0 .. Capacity - 1
BY CapacityAssumption, ModRange DEF Slot

(* A refused frame touches nothing but the counters. *)
LEMMA WriteRefusedInd ==
  ASSUME IndInv, NEW n \in Lengths, WriteRefused(n)
  PROVE  IndInv'
<1> USE DEF WriteRefused, shared, history
<1>1. TypeOK'
  <2>1. offered' \in 0 .. MaxFrames /\ frames_dropped' \in 0 .. MaxFrames
    BY MaxFramesAssumption DEF IndInv, TypeOK, OffsetsInv
  <2>2. UNCHANGED <<w, r, data, wr, rd, accepted, stream, got>>
    OBVIOUS
  <2> HIDE DEF WriteRefused
  <2> QED
    BY <2>1, <2>2 DEF IndInv, TypeOK
<1>2. OffsetsInv' /\ StreamIntact' /\ WriterInv' /\ ReaderInv'
  BY DEF IndInv, TypeOK, OffsetsInv, StreamIntact, WriterInv, ReaderInv
<1> QED
  BY <1>1, <1>2 DEF IndInv

(* write_frame past its admission test: the frame fits the free bytes. *)
LEMMA WriteBeginInd ==
  ASSUME IndInv, NEW n \in Lengths, WriteBegin(n)
  PROVE  IndInv'
<1> USE DEF WriteBegin, shared, history
<1>1. n \in Nat /\ offered + 1 \in 0 .. MaxFrames
  BY LengthsAssumption, MaxFramesAssumption DEF IndInv, TypeOK
<1>2. /\ pack_frame(offered + 1, n) \in Seq(Byte)
      /\ Len(pack_frame(offered + 1, n)) = n
  BY <1>1, PackFrameType
<1>3. TypeOK'
  BY <1>1, <1>2 DEF IndInv, TypeOK
<1>4. OffsetsInv' /\ StreamIntact' /\ ReaderInv'
  BY DEF IndInv, TypeOK, OffsetsInv, StreamIntact, ReaderInv
<1>5. WriterInv'
  <2>1. /\ wr'.w = w /\ wr'.k = 0 /\ wr'.frame = pack_frame(offered + 1, n)
        /\ w' = w /\ r' = r /\ data' = data
    OBVIOUS
  <2>2. n <= Capacity - (w - r)
    <3>1. Capacity - (w - r) >= n /\ w \in Nat /\ r \in Nat
      BY DEF Fits, IndInv, TypeOK
    <3> QED
      BY <3>1, <1>1, CapacityAssumption
  <2>3. \A j \in 0 .. wr'.k - 1 : data'[Slot(w' + j)] = wr'.frame[j + 1]
    BY <2>1
  <2>4. wr'.w = w' /\ wr'.k <= Len(wr'.frame) /\ Len(wr'.frame) <= Capacity - (w' - r')
    <3>1. wr'.k = 0 /\ Len(wr'.frame) = n /\ wr'.w = w' /\ w' = w /\ r' = r
      BY <2>1, <1>2
    <3> HIDE DEF WriteBegin
    <3> QED
      BY <3>1, <2>2, <1>1
  <2> QED
    BY <2>3, <2>4 DEF WriterInv
<1> QED
  BY <1>3, <1>4, <1>5 DEF IndInv

(* The slot of the byte being copied is not the slot of an unread byte. *)
LEMMA WriteByteInd ==
  ASSUME IndInv, WriteByte
  PROVE  IndInv' /\ \A o \in r .. w - 1 : data'[Slot(o)] = data[Slot(o)]
<1> DEFINE here == Slot(wr.w + wr.k)
<1>1. /\ wr.w = w /\ w \in Nat /\ r \in Nat /\ wr.k \in Nat
      /\ wr.k < Len(wr.frame) /\ Len(wr.frame) <= Capacity - (w - r)
      /\ r <= w /\ w - r <= Capacity /\ Len(wr.frame) \in Nat
      /\ wr.frame \in Seq(Byte)
  BY DEF IndInv, TypeOK, OffsetsInv, WriterInv, WriteByte
<1>2. here \in 0 .. Capacity - 1
  <2>1. wr.w + wr.k \in Nat
    BY <1>1
  <2> HIDE DEF here
  <2>2. \A o \in Nat : o = wr.w + wr.k => Slot(o) = here
    BY DEF here
  <2> QED
    BY <2>1, <2>2, SlotRange
<1>3. wr.frame[wr.k + 1] \in Byte
  BY <1>1
<1>4. data' = [data EXCEPT ![here] = wr.frame[wr.k + 1]]
  BY DEF WriteByte
<1>5. data \in [0 .. Capacity - 1 -> Byte]
  BY DEF IndInv, TypeOK
<1>6. \A o \in r .. w - 1 : Slot(o) # here
  BY <1>1, SlotDistinct, CapacityAssumption
<1>7. \A o \in r .. w - 1 : data'[Slot(o)] = data[Slot(o)]
  BY <1>1, <1>4, <1>5, <1>6, SlotRange
<1>8. TypeOK'
  <2>1. data' \in [0 .. Capacity - 1 -> Byte]
    BY <1>2, <1>3, <1>4, <1>5
  <2>2. wr' \in [pc : {"idle", "copy"}, w : Nat, frame : Seq(Byte), k : Nat]
    <3>1. wr \in [pc : {"idle", "copy"}, w : Nat, frame : Seq(Byte), k : Nat]
      BY DEF IndInv, TypeOK
    <3>2. wr' = [wr EXCEPT !.k = wr.k + 1]
      BY DEF WriteByte
    <3> QED
      BY <3>1, <3>2
  <2>3. UNCHANGED <<w, r, rd, offered, frames_dropped, accepted, stream, got>>
    BY DEF WriteByte, history
  <2> QED
    BY <2>1, <2>2, <2>3 DEF IndInv, TypeOK
<1>9. OffsetsInv' /\ ReaderInv'
  BY DEF IndInv, TypeOK, OffsetsInv, ReaderInv, WriteByte, history
<1>10. StreamIntact'
  BY <1>7 DEF IndInv, StreamIntact, WriteByte, history
<1>11. WriterInv'
  <2>1. ASSUME NEW j \in 0 .. wr.k - 1
        PROVE  Slot(w + j) # here
    BY <1>1, SlotDistinct, CapacityAssumption
  <2>2. ASSUME NEW j \in 0 .. wr.k
        PROVE  data'[Slot(w + j)] = wr.frame[j + 1]
    <3>1. CASE j = wr.k
      BY <3>1, <1>1, <1>2, <1>4, <1>5
    <3>2. CASE j # wr.k
      <4>1. j \in 0 .. wr.k - 1
        BY <3>2, <1>1
      <4>2. data[Slot(w + j)] = wr.frame[j + 1]
        BY <4>1 DEF IndInv, WriterInv, WriteByte
      <4>3. Slot(w + j) # here
        BY <4>1, <2>1
      <4>4. Slot(w + j) \in 0 .. Capacity - 1
        <5>1. w + j \in Nat
          BY <1>1
        <5> QED
          BY <5>1, SlotRange, Zenon
      <4> QED
        BY <4>2, <4>3, <4>4, <1>4, <1>5
    <3> QED
      BY <3>1, <3>2
  <2>3. wr' = [wr EXCEPT !.k = wr.k + 1] /\ w' = w /\ r' = r
    BY DEF WriteByte
  <2>4. /\ wr'.pc = wr.pc /\ wr'.w = wr.w /\ wr'.frame = wr.frame
        /\ wr'.k = wr.k + 1
    BY <2>3 DEF IndInv, TypeOK
  <2> QED
    BY <1>1, <2>2, <2>3, <2>4 DEF WriterInv
<1> QED
  BY <1>7, <1>8, <1>9, <1>10, <1>11 DEF IndInv

(* Publishing moves nothing: the bytes of the frame are already in their   *)
(* slots, and become the new end of the stream.                            *)
LEMMA PublishInd ==
  ASSUME IndInv, Publish
  PROVE  IndInv'
<1> USE CapacityAssumption DEF Publish
<1>1. /\ wr.w = w /\ w \in Nat /\ r \in Nat /\ wr.k = Len(wr.frame)
      /\ Len(wr.frame) \in Nat /\ wr.frame \in Seq(Byte)
      /\ Len(wr.frame) <= Capacity - (w - r)
      /\ r <= w /\ Len(stream) = w /\ stream \in Seq(Byte)
      /\ \A j \in 0 .. Len(wr.frame) - 1 : data[Slot(w + j)] = wr.frame[j + 1]
  BY DEF IndInv, TypeOK, OffsetsInv, WriterInv
<1>2. /\ stream' = stream \o wr.frame /\ stream' \in Seq(Byte)
      /\ w' = w + Len(wr.frame) /\ r' = r /\ w' \in Nat
      /\ Len(stream') = w'
      /\ \A o \in 1 .. w : stream'[o] = stream[o]
      /\ \A j \in 1 .. Len(wr.frame) : stream'[w + j] = wr.frame[j]
  <2>1. stream' = stream \o wr.frame /\ w' = w + Len(wr.frame) /\ r' = r
    BY <1>1
  <2>2. /\ stream \o wr.frame \in Seq(Byte)
        /\ Len(stream \o wr.frame) = w + Len(wr.frame)
        /\ \A o \in 1 .. w : (stream \o wr.frame)[o] = stream[o]
        /\ \A j \in 1 .. Len(wr.frame) : (stream \o wr.frame)[w + j] = wr.frame[j]
    <3> HIDE DEF Publish
    <3>1. /\ stream \in Seq(Byte) /\ wr.frame \in Seq(Byte)
          /\ w \in Nat /\ Len(stream) = w /\ Len(wr.frame) \in Nat
      BY <1>1
    <3>2. /\ stream \o wr.frame \in Seq(Byte)
          /\ Len(stream \o wr.frame) = Len(stream) + Len(wr.frame)
      <4> DEFINE f == wr.frame
      <4>1. f \in Seq(Byte)
        BY <3>1
      <4> HIDE DEF f
      <4>2. stream \o f \in Seq(Byte) /\ Len(stream \o f) = Len(stream) + Len(f)
        BY <4>1, <3>1, ConcatProperties
      <4> QED
        BY <4>2 DEF f
    <3>3. \A o \in 1 .. Len(stream) : (stream \o wr.frame)[o] = stream[o]
      BY <3>1, ConcatFacts
    <3>4. \A j \in 1 .. Len(wr.frame) :
             (stream \o wr.frame)[Len(stream) + j] = wr.frame[j]
      BY <3>1, ConcatFacts
    <3> QED
      BY <3>1, <3>2, <3>3, <3>4
  <2>3. w' \in Nat
    BY <1>1, <2>1
  <2> HIDE DEF Publish
  <2> QED
    BY <2>1, <2>2, <2>3, Zenon
<1>3. \A o \in 1 .. w : stream'[o] = stream[o]
  BY <1>2
<1>4. \A j \in 0 .. Len(wr.frame) - 1 : stream'[w + j + 1] = wr.frame[j + 1]
  <2> SUFFICES ASSUME NEW j \in 0 .. Len(wr.frame) - 1
               PROVE  stream'[w + j + 1] = wr.frame[j + 1]
    OBVIOUS
  <2>1. j + 1 \in 1 .. Len(wr.frame) /\ w + (j + 1) = w + j + 1
    BY <1>1
  <2>2. stream'[w + (j + 1)] = wr.frame[j + 1]
    BY <2>1, <1>2, Zenon
  <2> QED
    BY <2>1, <2>2, Zenon
<1>5. TypeOK'
  BY <1>1, <1>2 DEF IndInv, TypeOK, IdleWriter
<1>6. OffsetsInv'
  <2>1. w' = w + Len(wr.frame) /\ r' = r /\ Len(stream') = w'
    BY <1>2
  <2>2. r' <= w' /\ w' - r' <= Capacity
    BY <1>1, <2>1
  <2>3. frames_dropped' <= offered'
    BY DEF IndInv, OffsetsInv
  <2> QED
    BY <2>1, <2>2, <2>3 DEF OffsetsInv
<1>7. StreamIntact'
  <2>1. got' = SubSeq(stream', 1, r')
    <3>1. SubSeq(stream', 1, r) = SubSeq(stream, 1, r)
      BY <1>1, <1>2, <1>3
    <3> QED
      BY <3>1, <1>2 DEF IndInv, StreamIntact
  <2>2. ASSUME NEW o \in r .. w' - 1
        PROVE  data[Slot(o)] = stream'[o + 1]
    <3>1. CASE o < w
      BY <3>1, <1>1, <1>3 DEF IndInv, StreamIntact
    <3>2. CASE o >= w
      <4>1. PICK j \in 0 .. Len(wr.frame) - 1 : o = w + j
        <5> HIDE DEF Publish
        <5>1. w' = w + Len(wr.frame) /\ r' = r /\ w \in Nat /\ r \in Nat /\ Len(wr.frame) \in Nat
          BY <1>1, <1>2, Zenon
        <5>2. o - w \in 0 .. Len(wr.frame) - 1 /\ o = w + (o - w)
          BY <5>1, <3>2
        <5> QED
          BY <5>2
      <4>2. data[Slot(w + j)] = wr.frame[j + 1]
        BY <1>1
      <4> QED
        BY <4>1, <4>2, <1>4
    <3> QED
      BY <3>1, <3>2, <1>1
  <2> QED
    BY <2>1, <2>2, <1>2, <1>6 DEF StreamIntact, OffsetsInv
<1>8. WriterInv'
  BY DEF WriterInv, IdleWriter
<1>9. ReaderInv'
  <2> SUFFICES ASSUME rd.pc = "copy"
               PROVE  /\ rd.r = r /\ rd.w <= w'
                      /\ Len(rd.bytes) <= rd.w - r
                      /\ \A j \in 1 .. Len(rd.bytes) : rd.bytes[j] = stream'[r + j]
    <3>1. rd' = rd /\ r' = r
      BY <1>2
    <3> HIDE DEF Publish
    <3> QED
      BY <3>1, Zenon DEF ReaderInv
  <2>1. /\ rd.r = r /\ rd.w <= w /\ Len(rd.bytes) <= rd.w - r
        /\ \A j \in 1 .. Len(rd.bytes) : rd.bytes[j] = stream[r + j]
        /\ rd.w \in Nat /\ Len(rd.bytes) \in Nat
    <3> HIDE DEF Publish
    <3>1. rd.w \in Nat /\ Len(rd.bytes) \in Nat
      BY DEF IndInv, TypeOK
    <3>2. ReaderInv
      BY DEF IndInv
    <3> QED
      BY <3>1, <3>2, Zenon DEF ReaderInv
  <2> HIDE DEF Publish
  <2>2. ASSUME NEW j \in 1 .. Len(rd.bytes)
        PROVE  r + j \in 1 .. w
    BY <2>1, <1>1
  <2>3. \A j \in 1 .. Len(rd.bytes) : stream'[r + j] = stream[r + j]
    BY <2>2, <1>3, Zenon
  <2>4. rd.w <= w'
    <3>1. w' = w + Len(wr.frame) /\ w \in Nat /\ Len(wr.frame) \in Nat
      BY <1>1, <1>2, Zenon
    <3> QED
      BY <3>1, <2>1
  <2> QED
    BY <2>1, <2>3, <2>4
<1> QED
  BY <1>5, <1>6, <1>7, <1>8, <1>9 DEF IndInv

(* read_available takes its copy of the two offsets. *)
LEMMA ReadBeginInd ==
  ASSUME IndInv, ReadBegin
  PROVE  IndInv'
<1> USE DEF ReadBegin, shared, history
<1>1. TypeOK'
  BY DEF IndInv, TypeOK
<1>2. OffsetsInv' /\ StreamIntact' /\ WriterInv'
  BY DEF IndInv, TypeOK, OffsetsInv, StreamIntact, WriterInv
<1>3. ReaderInv'
  BY DEF IndInv, TypeOK, ReaderInv
<1> QED
  BY <1>1, <1>2, <1>3 DEF IndInv

(* A copied byte is the next one of the stream. *)
LEMMA ReadByteInd ==
  ASSUME IndInv, ReadByte
  PROVE  IndInv'
<1> DEFINE n == Len(rd.bytes)
           b == data[Slot(rd.r + n)]
<1>1. /\ rd \in [pc : {"idle", "copy"}, w : Nat, r : Nat, bytes : Seq(Byte)]
      /\ rd.bytes \in Seq(Byte) /\ n \in Nat /\ rd.r = r /\ r \in Nat /\ w \in Nat
      /\ rd.w \in Nat /\ rd.w <= w /\ n < rd.w - r
      /\ \A j \in 1 .. n : rd.bytes[j] = stream[r + j]
  BY DEF IndInv, TypeOK, ReaderInv, ReadByte
<1>2. r + n \in r .. w - 1
  BY <1>1
<1>3. b = stream[r + n + 1]
  BY <1>1, <1>2 DEF IndInv, StreamIntact
<1>4. b \in Byte
  <2>1. r + n + 1 \in 1 .. Len(stream) /\ stream \in Seq(Byte)
    BY <1>1, <1>2 DEF IndInv, TypeOK, OffsetsInv
  <2> QED
    BY <2>1, <1>3
<1>5. rd' = [rd EXCEPT !.bytes = Append(rd.bytes, b)]
  BY DEF ReadByte
<1> HIDE DEF b
<1>6. /\ rd' \in [pc : {"idle", "copy"}, w : Nat, r : Nat, bytes : Seq(Byte)]
      /\ rd'.r = rd.r /\ rd'.w = rd.w /\ rd'.bytes = Append(rd.bytes, b)
  <2>1. rd \in [pc : {"idle", "copy"}, w : Nat, r : Nat, bytes : Seq(Byte)]
    BY <1>1
  <2>2. Append(rd.bytes, b) \in Seq(Byte)
    BY <1>1, <1>4
  <2> QED
    BY <2>1, <2>2, <1>5
<1>7. UNCHANGED <<w, r, data, wr, offered, frames_dropped, accepted, stream, got>>
  BY DEF ReadByte, shared, history
<1>8. TypeOK'
  BY <1>6, <1>7 DEF IndInv, TypeOK
<1>9. OffsetsInv' /\ StreamIntact' /\ WriterInv'
  BY <1>7 DEF IndInv, OffsetsInv, StreamIntact, WriterInv
<1>10. ReaderInv'
  <2>1. /\ Len(rd'.bytes) = n + 1
        /\ \A j \in 1 .. n : rd'.bytes[j] = rd.bytes[j]
        /\ rd'.bytes[n + 1] = b
    BY <1>1, <1>4, <1>6
  <2>2. \A j \in 1 .. n + 1 : rd'.bytes[j] = stream[r + j]
    <3> SUFFICES ASSUME NEW j \in 1 .. n + 1
                 PROVE  rd'.bytes[j] = stream[r + j]
      OBVIOUS
    <3>1. CASE j = n + 1
      <4>1. r + j = r + n + 1
        BY <3>1, <1>1
      <4> QED
        BY <3>1, <4>1, <2>1, <1>3
    <3>2. CASE j # n + 1
      <4>1. j \in 1 .. n
        BY <3>2, <1>1
      <4> QED
        BY <4>1, <2>1, <1>1
    <3> QED
      BY <3>1, <3>2
  <2> QED
    BY <2>1, <2>2, <1>1, <1>6, <1>7 DEF ReaderInv
<1> QED
  BY <1>8, <1>9, <1>10 DEF IndInv

(* set_read releases exactly the bytes that were copied. *)
LEMMA SetReadInd ==
  ASSUME IndInv, SetRead
  PROVE  IndInv'
<1> USE CapacityAssumption
<1> DEFINE n == Len(rd.bytes)
<1>1. /\ rd.bytes \in Seq(Byte) /\ n \in Nat /\ rd.r = r /\ r \in Nat /\ w \in Nat
      /\ rd.w \in Nat /\ rd.w <= w /\ n = rd.w - r
      /\ \A j \in 1 .. n : rd.bytes[j] = stream[r + j]
      /\ stream \in Seq(Byte) /\ Len(stream) = w /\ w - r <= Capacity
      /\ got = SubSeq(stream, 1, r) /\ got \in Seq(Byte)
  BY DEF IndInv, TypeOK, OffsetsInv, ReaderInv, SetRead, StreamIntact
<1>2. /\ r' = r + n /\ got' = got \o rd.bytes /\ rd' = IdleReader
      /\ UNCHANGED <<w, data, wr, offered, frames_dropped, accepted, stream>>
  BY <1>1 DEF SetRead
<1>3. got' = SubSeq(stream, 1, r + n)
  <2>1. r + n <= Len(stream)
    BY <1>1
  <2>2. SubSeq(stream, 1, r) \o rd.bytes = SubSeq(stream, 1, r + n)
    <3>1. /\ stream \in Seq(Byte) /\ r \in Nat /\ rd.bytes \in Seq(Byte)
          /\ r + Len(rd.bytes) <= Len(stream)
          /\ \A j \in 1 .. Len(rd.bytes) : rd.bytes[j] = stream[r + j]
      BY <1>1, <2>1
    <3> QED
      BY <3>1, PrefixExtends, Zenon
  <2> QED
    BY <1>1, <1>2, <2>2
<1>4. TypeOK'
  <2>1. got' \in Seq(Byte) /\ r' \in Nat
    BY <1>1, <1>2, ConcatProperties
  <2> QED
    BY <2>1, <1>2 DEF IndInv, TypeOK, IdleReader
<1>5. OffsetsInv' /\ ReaderInv'
  BY <1>1, <1>2 DEF IndInv, OffsetsInv, ReaderInv, IdleReader
<1>6. StreamIntact'
  <2>1. \A o \in r' .. w - 1 : o \in r .. w - 1
    <3>1. r' = r + n /\ n \in Nat /\ r \in Nat /\ w \in Nat
      BY <1>1, <1>2, Zenon
    <3> HIDE DEF n
    <3> QED
      BY <3>1
  <2>2. \A o \in r' .. w - 1 : data[Slot(o)] = stream[o + 1]
    BY <2>1 DEF IndInv, StreamIntact
  <2> QED
    BY <1>2, <1>3, <1>5, <2>2 DEF StreamIntact, OffsetsInv
<1>7. WriterInv'
  <2>1. wr.pc = "copy" => Len(wr.frame) <= Capacity - (w - r')
    <3>1. wr.pc = "copy" => Len(wr.frame) \in Nat /\ Len(wr.frame) <= Capacity - (w - r)
      BY DEF IndInv, TypeOK, WriterInv
    <3>2. r' = r + n /\ n \in Nat /\ r \in Nat /\ w \in Nat
      BY <1>1, <1>2, Zenon
    <3> HIDE DEF n
    <3> QED
      BY <3>1, <3>2
  <2>2. wr' = wr /\ w' = w /\ data' = data
    BY <1>2 DEF SetRead
  <2>3. WriterInv
    BY DEF IndInv
  <2> HIDE DEF SetRead
  <2> QED
    BY <2>1, <2>2, <2>3, Zenon DEF WriterInv
<1> QED
  BY <1>4, <1>5, <1>6, <1>7 DEF IndInv

(* Every step preserves the invariant. *)
LEMMA NextInd == IndInv /\ [Next]_vars => IndInv'
<1> SUFFICES ASSUME IndInv, [Next]_vars PROVE IndInv'
  OBVIOUS
<1>1. ASSUME NEW n \in Lengths, WriteRefused(n) PROVE IndInv'
  BY <1>1, WriteRefusedInd
<1>2. ASSUME NEW n \in Lengths, WriteBegin(n) PROVE IndInv'
  BY <1>2, WriteBeginInd
<1>3. CASE WriteByte
  BY <1>3, WriteByteInd
<1>4. CASE Publish
  BY <1>4, PublishInd
<1>5. CASE ReadBegin
  BY <1>5, ReadBeginInd
<1>6. CASE ReadByte
  BY <1>6, ReadByteInd
<1>7. CASE SetRead
  BY <1>7, SetReadInd
<1>8. CASE UNCHANGED vars
  BY <1>8 DEF vars, IndInv, TypeOK, OffsetsInv, StreamIntact, WriterInv, ReaderInv
<1> QED
  BY <1>1, <1>2, <1>3, <1>4, <1>5, <1>6, <1>7, <1>8 DEF Next, Producer, Consumer

(* The inductive invariant holds in every reachable state. *)
THEOREM RingInvariant == Spec => []IndInv
<1>1. IndInv /\ [][Next]_vars => []IndInv
  BY NextInd, PTL
<1> QED
  BY <1>1, InitInd, PTL DEF Spec

(* Types: every variable of the ring keeps its type, for every capacity    *)
(* and any number of frames.                                               *)
THEOREM TypeCorrect == Spec => []TypeOK
<1>1. IndInv => TypeOK
  BY DEF IndInv
<1> QED
  BY <1>1, RingInvariant, PTL

(* The byte stream survives every interleaving of write_frame's and        *)
(* read_available's copies: what was read is a prefix of what was          *)
(* published, and the rest is intact in the ring.                          *)
THEOREM StreamIsIntact == Spec => []StreamIntact
<1>1. IndInv => StreamIntact
  BY DEF IndInv
<1> QED
  BY <1>1, RingInvariant, PTL

(* write_frame's test of `free` is enough: no step overwrites a byte that  *)
(* is published and not yet released.                                      *)
THEOREM NeverOverwrites == Spec => NoOverwrite
<1> DEFINE Kept == \A o \in r .. w - 1 : r' <= o => data'[Slot(o)] = data[Slot(o)]
<1>1. IndInv /\ [Next]_vars => [Kept]_vars
  <2> SUFFICES ASSUME IndInv, Next PROVE Kept
    OBVIOUS
  <2>1. CASE WriteByte
    BY <2>1, WriteByteInd
  <2>2. CASE ~WriteByte
    <3>1. data' = data
      BY <2>2 DEF Next, Producer, Consumer, WriteRefused, WriteBegin, Publish,
                  ReadBegin, ReadByte, SetRead, shared
    <3> QED
      BY <3>1
  <2> QED
    BY <2>1, <2>2
<1> QED
  BY <1>1, RingInvariant, PTL DEF Spec, NoOverwrite

-----------------------------------------------------------------------------
(* Refinement of LossyStream: Publish accepts, SetRead takes, every other  *)
(* step stutters.                                                          *)

(* Publish is an Accept of the abstract stream. *)
LEMMA PublishAccepts ==
  ASSUME IndInv, Publish
  PROVE  Abstract!Accept
<1>1. /\ stream \in Seq(Byte) /\ wr.frame \in Seq(Byte)
      /\ stream' = stream \o wr.frame /\ got' = got
  BY DEF IndInv, TypeOK, Publish
<1>2. /\ stream' \in Seq(Byte) /\ Len(stream') = Len(stream) + Len(wr.frame)
      /\ \A i \in 1 .. Len(stream) : stream'[i] = stream[i]
      /\ Len(stream) \in Nat /\ Len(wr.frame) \in Nat
  BY <1>1, ConcatProperties, LenProperties
<1>3. SubSeq(stream', 1, Len(stream)) = stream
  BY <1>1, <1>2
<1> QED
  BY <1>1, <1>2, <1>3 DEF Abstract!Accept

(* SetRead is a Take of the abstract stream. *)
LEMMA SetReadTakes ==
  ASSUME IndInv, SetRead
  PROVE  Abstract!Take
<1>1. stream' = stream /\ r' \in Nat /\ r \in Nat /\ r <= r' /\ r' <= Len(stream)
  <2>1. stream' = stream /\ r' = rd.r + Len(rd.bytes) /\ Len(rd.bytes) = rd.w - rd.r
    BY DEF SetRead
  <2>2. rd.r = r /\ rd.w <= w /\ w = Len(stream)
    BY DEF IndInv, ReaderInv, SetRead, StreamIntact
  <2>3. r \in Nat /\ rd.w \in Nat /\ w \in Nat /\ Len(rd.bytes) \in Nat
    BY DEF IndInv, TypeOK
  <2> QED
    BY <2>1, <2>2, <2>3
<1>2. IndInv'
  BY SetReadInd
<1>3. got' = SubSeq(stream, 1, r')
  BY <1>1, <1>2 DEF IndInv, StreamIntact
<1>4. Len(got) = r
  <2>1. got = SubSeq(stream, 1, r) /\ stream \in Seq(Byte) /\ r <= Len(stream)
    BY <1>1 DEF IndInv, StreamIntact, TypeOK, OffsetsInv
  <2>2. \A i \in 1 .. r : stream[i] \in Byte
    BY <2>1, <1>1, ElementOfSeq, LenProperties
  <2>3. Len(SubSeq(stream, 1, r)) = r
    BY <2>2, <1>1, SubSeqProperties
  <2> QED
    BY <2>1, <2>3
<1>5. r' \in Len(got) .. Len(stream)
  BY <1>1, <1>4 DEF IndInv, TypeOK
<1> QED
  BY <1>1, <1>3, <1>5 DEF Abstract!Take

(* The ring implements the abstract stream: no step of either process does *)
(* anything to it but append a frame or read further along.                *)
THEOREM RingRefinesLossyStream == Spec => ImplementsLossyStream
<1>1. Init => Abstract!Init
  BY DEF Init, Abstract!Init
<1>2. IndInv /\ [Next]_vars => [Abstract!Next]_(Abstract!vars)
  <2> SUFFICES ASSUME IndInv, [Next]_vars PROVE [Abstract!Next]_(Abstract!vars)
    OBVIOUS
  <2>1. CASE Publish
    BY <2>1, PublishAccepts DEF Abstract!Next
  <2>2. CASE SetRead
    BY <2>2, SetReadTakes DEF Abstract!Next
  <2>3. CASE ~Publish /\ ~SetRead
    BY <2>3 DEF Next, Producer, Consumer, WriteRefused, WriteBegin, WriteByte,
                ReadBegin, ReadByte, vars, history, Abstract!vars
  <2> QED
    BY <2>1, <2>2, <2>3
<1> QED
  BY <1>1, <1>2, RingInvariant, PTL DEF Spec, ImplementsLossyStream, Abstract!Spec

-----------------------------------------------------------------------------
(* Decoding: FramesInOrder.  unpack_all_frames is a recursive function, so *)
(* its value is found by induction, as the least byte at which the claim   *)
(* would fail.                                                             *)

Start == [rest |-> <<>>, out |-> <<>>]

(* f is the recursive function of unpack_all_frames on the first n bytes. *)
Unpacks(f, bytes, n) ==
  f = [k \in 0 .. n |-> IF k = 0 THEN Start ELSE try_unpack_frame(f[k - 1], bytes[k])]

(* There is one for every n. *)
LEMMA UnpacksExists ==
  ASSUME NEW bytes, NEW n \in Nat
  PROVE  \E f : Unpacks(f, bytes, n)
<1> DEFINE T == {m \in Nat : ~ \E f : Unpacks(f, bytes, m)}
<1> SUFFICES ASSUME T # {} PROVE FALSE
  OBVIOUS
<1>1. T \subseteq Nat
  OBVIOUS
<1> HIDE DEF T
<1>2. PICK m \in T : \A y \in T : m <= y
  BY <1>1, LeastOf
<1>3. m \in Nat /\ ~ \E f : Unpacks(f, bytes, m)
  BY DEF T
<1>4. m # 0
  <2> SUFFICES ASSUME m = 0 PROVE FALSE
    OBVIOUS
  <2> DEFINE f == [k \in 0 .. 0 |-> Start]
  <2>1. f = [k \in 0 .. 0 |-> IF k = 0 THEN Start ELSE try_unpack_frame(f[k - 1], bytes[k])]
    OBVIOUS
  <2> HIDE DEF f
  <2> QED
    BY <1>3, <2>1 DEF Unpacks
<1>5. m - 1 \in Nat /\ ~(m <= m - 1)
  BY <1>3, <1>4
<1>6. PICK f : Unpacks(f, bytes, m - 1)
  BY <1>2, <1>5 DEF T
<1>7. f = [k \in 0 .. m - 1 |-> IF k = 0 THEN Start ELSE try_unpack_frame(f[k - 1], bytes[k])]
  BY <1>6 DEF Unpacks
<1> DEFINE g == [k \in 0 .. m |-> IF k = m THEN try_unpack_frame(f[m - 1], bytes[m]) ELSE f[k]]
           h == [k \in 0 .. m |-> IF k = 0 THEN Start ELSE try_unpack_frame(g[k - 1], bytes[k])]
<1>8. ASSUME NEW k \in 0 .. m PROVE g[k] = h[k]
  <2>1. CASE k = m
    <3>1. m - 1 \in 0 .. m /\ m - 1 # m
      BY <1>3, <1>4
    <3>2. g[m - 1] = f[m - 1]
      BY <3>1
    <3> QED
      BY <1>4, <2>1, <3>2
  <2>2. CASE k # m
    <3>1. k \in 0 .. m - 1
      BY <1>3, <2>2
    <3>2. f[k] = IF k = 0 THEN Start ELSE try_unpack_frame(f[k - 1], bytes[k])
      BY <1>7, <3>1
    <3>3. k # 0 => k - 1 \in 0 .. m /\ k - 1 # m
      BY <1>3, <3>1
    <3>4. k # 0 => g[k - 1] = f[k - 1]
      BY <3>3
    <3> QED
      BY <2>2, <3>2, <3>4
  <2> QED
    BY <2>1, <2>2
<1>9. g = h
  BY <1>8
<1>10. g = [k \in 0 .. m |-> IF k = 0 THEN Start ELSE try_unpack_frame(g[k - 1], bytes[k])]
  BY <1>9
<1> HIDE DEF g, h
<1> QED
  BY <1>3, <1>10 DEF Unpacks

LEMMA UnpackIsRecursive ==
  ASSUME NEW bytes \in Seq(Byte)
  PROVE  \E f : Unpacks(f, bytes, Len(bytes)) /\ unpack_all_frames(bytes) = f[Len(bytes)]
<1> DEFINE f == CHOOSE unpacked : unpacked =
                  [k \in 0 .. Len(bytes) |->
                     IF k = 0 THEN [rest |-> <<>>, out |-> <<>>]
                     ELSE try_unpack_frame(unpacked[k - 1], bytes[k])]
<1>1. unpack_all_frames(bytes) = f[Len(bytes)]
  BY Zenon DEF unpack_all_frames
<1>2. \E g : g = [k \in 0 .. Len(bytes) |->
                    IF k = 0 THEN [rest |-> <<>>, out |-> <<>>]
                    ELSE try_unpack_frame(g[k - 1], bytes[k])]
  BY UnpacksExists DEF Unpacks, Start
<1>3. f = [k \in 0 .. Len(bytes) |-> IF k = 0 THEN Start ELSE try_unpack_frame(f[k - 1], bytes[k])]
  BY <1>2, Zenon DEF Start
<1> HIDE DEF f
<1> QED
  BY <1>1, <1>3 DEF Unpacks

-----------------------------------------------------------------------------
(* One byte more of a frame *)

ByteOf(id, n, k) == [id |-> id, pos |-> k, len |-> n]
PartOf(id, n, j) == [k \in 1 .. j |-> ByteOf(id, n, k)]

LEMMA NothingOf ==
  ASSUME NEW id, NEW n
  PROVE  PartOf(id, n, 0) = <<>>
<1>1. 1 .. 0 = {}
  OBVIOUS
<1> QED
  BY <1>1 DEF PartOf

LEMMA PartGrows ==
  ASSUME NEW id, NEW n, NEW j \in Nat \ {0}
  PROVE  /\ Append(PartOf(id, n, j - 1), ByteOf(id, n, j)) = PartOf(id, n, j)
         /\ Len(PartOf(id, n, j)) = j /\ PartOf(id, n, j)[1] = ByteOf(id, n, 1)
<1> DEFINE B == {ByteOf(id, n, k) : k \in Nat}
           p == PartOf(id, n, j - 1)
           q == PartOf(id, n, j)
<1>1. p \in Seq(B) /\ Len(p) = j - 1 /\ \A k \in 1 .. j - 1 : p[k] = ByteOf(id, n, k)
  BY DEF PartOf
<1>2. q \in Seq(B) /\ Len(q) = j /\ \A k \in 1 .. j : q[k] = ByteOf(id, n, k)
  BY DEF PartOf
<1>3. ByteOf(id, n, j) \in B
  OBVIOUS
<1> HIDE DEF p, q, B
<1> DEFINE a == Append(p, ByteOf(id, n, j))
<1>4. /\ a \in Seq(B) /\ Len(a) = j /\ a[j] = ByteOf(id, n, j)
      /\ \A k \in 1 .. j - 1 : a[k] = p[k]
  BY <1>1, <1>3
<1>5. \A k \in 1 .. j : k \in 1 .. j - 1 \/ k = j
  OBVIOUS
<1> HIDE DEF a
<1>6. \A k \in 1 .. j : a[k] = q[k]
  BY <1>1, <1>2, <1>4, <1>5
<1>7. a = q
  BY <1>2, <1>4, <1>6, SeqEqual
<1>8. 1 \in 1 .. j
  OBVIOUS
<1> QED
  BY <1>2, <1>7, <1>8 DEF a, p, q

LEMMA OneByteMore ==
  ASSUME NEW id \in Nat, NEW n \in Nat \ {0}, NEW j \in 1 .. n, NEW out
  PROVE  try_unpack_frame([rest |-> PartOf(id, n, j - 1), out |-> out], ByteOf(id, n, j)) =
           IF j < n THEN [rest |-> PartOf(id, n, j), out |-> out]
           ELSE [rest |-> <<>>, out |-> Append(out, id)]
<1> DEFINE acc == [rest |-> PartOf(id, n, j - 1), out |-> out]
           q == PartOf(id, n, j)
<1>1. /\ acc.rest = PartOf(id, n, j - 1) /\ acc.out = out
      /\ \A x : [acc EXCEPT !.rest = x] = [rest |-> x, out |-> out]
  OBVIOUS
<1>2. Append(acc.rest, ByteOf(id, n, j)) = q /\ Len(q) = j /\ q[1] = ByteOf(id, n, 1)
  BY <1>1, PartGrows
<1>3. q[1].len = n /\ q[1].id = id
  BY <1>2 DEF ByteOf
<1>4. j = n => q = pack_frame(id, n)
  BY DEF pack_frame, PartOf, ByteOf
<1>5. ~(j < n) => j = n
  OBVIOUS
<1> HIDE DEF acc, q
<1>6. try_unpack_frame(acc, ByteOf(id, n, j)) =
        IF j < n THEN [acc EXCEPT !.rest = q]
        ELSE [rest |-> <<>>, out |-> Append(acc.out, IF q = pack_frame(id, n) THEN id ELSE 0)]
  BY <1>2, <1>3, Zenon DEF try_unpack_frame
<1> QED
  BY <1>1, <1>4, <1>5, <1>6 DEF acc, q

-----------------------------------------------------------------------------
(* A stream of whole frames *)

(* The bytes of s are the frames ids, one after the other; cut has the     *)
(* place where each ends.                                                  *)
Framed(s, ids, cut) ==
  /\ cut \in [0 .. Len(ids) -> 0 .. Len(s)]
  /\ cut[0] = 0 /\ cut[Len(ids)] = Len(s)
  /\ \A m, n \in 0 .. Len(ids) : m < n => cut[m] < cut[n]
  /\ \A n \in 1 .. Len(ids) : \A j \in 1 .. cut[n] - cut[n - 1] :
       s[cut[n - 1] + j] = ByteOf(ids[n], cut[n] - cut[n - 1], j)

(* A frame more. *)
LEMMA FramedGrows ==
  ASSUME NEW s \in Seq(Byte), NEW ids \in Seq(0 .. MaxFrames), NEW cut, Framed(s, ids, cut),
         NEW id \in 0 .. MaxFrames, NEW n \in Nat \ {0}, NEW t, t = s \o pack_frame(id, n),
         NEW is, is = Append(ids, id)
  PROVE  \E c : /\ Framed(t, is, c) /\ c[Len(ids) + 1] = Len(t)
                /\ \A m \in 0 .. Len(ids) : c[m] = cut[m]
<1> DEFINE N == Len(ids)
           L == Len(s)
<1>1. N \in Nat /\ L \in Nat /\ is \in Seq(0 .. MaxFrames) /\ Len(is) = N + 1 /\ is[N + 1] = id
      /\ \A m \in 1 .. N : is[m] = ids[m]
  OBVIOUS
<1>2. /\ pack_frame(id, n) \in Seq(Byte) /\ Len(pack_frame(id, n)) = n
      /\ \A j \in 1 .. n : pack_frame(id, n)[j] = ByteOf(id, n, j)
  BY PackFrameType DEF pack_frame, ByteOf
<1> DEFINE f == pack_frame(id, n)
<1> HIDE DEF f
<1>3. /\ Len(t) = L + n /\ \A i \in 1 .. L : t[i] = s[i]
      /\ \A j \in 1 .. n : t[L + j] = f[j]
  <2>1. t = s \o f /\ s \in Seq(Byte) /\ f \in Seq(Byte) /\ Len(f) = n
    BY <1>2 DEF f
  <2>2. Len(s \o f) = Len(s) + Len(f)
    BY <2>1, ConcatFacts
  <2>3. \A i \in 1 .. Len(s) : (s \o f)[i] = s[i]
    BY <2>1, ConcatFacts
  <2>4. \A j \in 1 .. Len(f) : (s \o f)[Len(s) + j] = f[j]
    BY <2>1, ConcatFacts
  <2> QED
    BY <2>1, <2>2, <2>3, <2>4
<1>4. /\ cut \in [0 .. N -> 0 .. L] /\ cut[0] = 0 /\ cut[N] = L
      /\ \A m, k \in 0 .. N : m < k => cut[m] < cut[k]
      /\ \A k \in 1 .. N : \A j \in 1 .. cut[k] - cut[k - 1] :
           s[cut[k - 1] + j] = ByteOf(ids[k], cut[k] - cut[k - 1], j)
  BY DEF Framed
<1> DEFINE c == [m \in 0 .. N + 1 |-> IF m = N + 1 THEN L + n ELSE cut[m]]
<1> HIDE DEF N, L
<1>5. /\ \A m \in 0 .. N + 1 : m \in 0 .. N \/ m = N + 1
      /\ \A m \in 0 .. N : m \in 0 .. N + 1 /\ m # N + 1
      /\ N + 1 \in 0 .. N + 1 /\ N \in 0 .. N /\ 0 \in 0 .. N
  BY <1>1
<1>6. c[N + 1] = L + n /\ \A m \in 0 .. N : c[m] = cut[m]
  BY <1>5
<1>7. \A m \in 0 .. N : cut[m] \in Nat /\ cut[m] <= L
  BY <1>1, <1>4
<1>8. c \in [0 .. N + 1 -> 0 .. L + n]
  <2>1. \A m \in 0 .. N + 1 : c[m] \in 0 .. L + n
    <3>1. \A m \in 0 .. N : c[m] \in 0 .. L + n
      BY <1>1, <1>6, <1>7
    <3>2. c[N + 1] \in 0 .. L + n
      BY <1>1, <1>6
    <3> QED
      BY <1>5, <3>1, <3>2
  <2> QED
    BY <2>1
<1> HIDE DEF c
<1>9. c[0] = 0
  BY <1>4, <1>5, <1>6
<1>10. ASSUME NEW m \in 0 .. N + 1, NEW k \in 0 .. N + 1, m < k PROVE c[m] < c[k]
  <2>1. m \in 0 .. N
    BY <1>1, <1>10
  <2>2. CASE k \in 0 .. N
    BY <1>4, <1>6, <1>10, <2>1, <2>2
  <2>3. CASE k = N + 1
    <3>1. c[m] = cut[m] /\ cut[m] \in Nat /\ cut[m] <= L
      BY <1>6, <1>7, <2>1
    <3>2. c[k] = L + n /\ L \in Nat
      BY <1>1, <1>6, <2>3
    <3> QED
      BY <3>1, <3>2
  <2> QED
    BY <1>5, <2>2, <2>3
<1>11. ASSUME NEW k \in 1 .. N + 1, NEW j \in 1 .. c[k] - c[k - 1]
       PROVE  t[c[k - 1] + j] = ByteOf(is[k], c[k] - c[k - 1], j)
  <2>1. CASE k = N + 1
    <3>1. k - 1 = N /\ N \in 0 .. N
      BY <1>1, <2>1
    <3>2. c[k - 1] = L /\ c[k] = L + n
      BY <1>4, <1>6, <2>1, <3>1
    <3>3. c[k] - c[k - 1] = n
      BY <1>1, <3>2
    <3>4. t[L + j] = ByteOf(id, n, j)
      BY <1>2, <1>3, <3>3 DEF f
    <3> QED
      BY <1>1, <2>1, <3>2, <3>3, <3>4
  <2>2. CASE k # N + 1
    <3>1. k \in 1 .. N /\ k \in 0 .. N /\ k - 1 \in 0 .. N
      BY <1>1, <2>2
    <3>2. c[k] = cut[k] /\ c[k - 1] = cut[k - 1]
      BY <1>6, <3>1
    <3>3. s[cut[k - 1] + j] = ByteOf(ids[k], cut[k] - cut[k - 1], j)
      BY <1>4, <3>1, <3>2
    <3>4. cut[k - 1] + j \in 1 .. L
      <4>1. /\ cut[k] \in Nat /\ cut[k] <= L /\ cut[k - 1] \in Nat /\ L \in Nat
            /\ j \in 1 .. cut[k] - cut[k - 1]
        BY <1>1, <1>7, <3>1, <3>2
      <4> QED
        BY <4>1, SMTT(30)
    <3> QED
      BY <1>1, <1>3, <3>1, <3>2, <3>3, <3>4
  <2> QED
    BY <2>1, <2>2
<1>12. Framed(t, is, c)
  BY <1>1, <1>3, <1>6, <1>8, <1>9, <1>10, <1>11 DEF Framed
<1> QED
  BY <1>3, <1>6, <1>12 DEF N, L

(* The frames from d to m, and the bytes from a to b. *)
FramesFrom(ids, d, m) == [n \in 1 .. m - d |-> ids[d + n]]
BytesFrom(bytes, s, a, b) ==
  Len(bytes) = b - a /\ \A j \in 1 .. Len(bytes) : bytes[j] = s[a + j]

(* From the end of one frame to the end of another unpack_all_frames finds *)
(* the frames between, and leaves nothing.                                 *)
LEMMA WholeFramesDecode ==
  ASSUME NEW s \in Seq(Byte), NEW ids \in Seq(0 .. MaxFrames), NEW cut, Framed(s, ids, cut),
         NEW d \in 0 .. Len(ids), NEW m \in d .. Len(ids), NEW bytes \in Seq(Byte),
         BytesFrom(bytes, s, cut[d], cut[m])
  PROVE  unpack_all_frames(bytes) = [rest |-> <<>>, out |-> FramesFrom(ids, d, m)]
<1> DEFINE N == Len(ids)
           B == Len(bytes)
           Out(i) == [n \in 1 .. i |-> ids[d + n]]
           Size(i) == cut[d + i + 1] - cut[d + i]
           Begun(i, k) == k - (cut[d + i] - cut[d])
<1>1. PICK f : Unpacks(f, bytes, B) /\ unpack_all_frames(bytes) = f[B]
  BY UnpackIsRecursive
<1>2. N \in Nat /\ B \in Nat /\ d \in 0 .. N /\ m \in 0 .. N /\ d <= m
      /\ \A n \in 1 .. N : ids[n] \in Nat
  BY MaxFramesAssumption
<1>3. /\ \A n \in 0 .. N : cut[n] \in Nat
      /\ \A a, b \in 0 .. N : a < b => cut[a] < cut[b]
      /\ \A n \in 1 .. N : \A j \in 1 .. cut[n] - cut[n - 1] :
           s[cut[n - 1] + j] = ByteOf(ids[n], cut[n] - cut[n - 1], j)
  <2>1. cut \in [0 .. N -> 0 .. Len(s)]
    BY DEF Framed
  <2>2. \A n \in 0 .. N : cut[n] \in 0 .. Len(s)
    BY <2>1
  <2>3. \A n \in 0 .. N : cut[n] \in Nat
    BY <2>2
  <2> QED
    BY <2>3 DEF Framed
<1>4. B = cut[m] - cut[d] /\ \A j \in 1 .. B : bytes[j] = s[cut[d] + j]
  BY DEF BytesFrom
<1> HIDE DEF N, B
<1>5. /\ f[0] = Start
      /\ \A k \in 1 .. B : f[k] = try_unpack_frame(f[k - 1], bytes[k])
  <2>1. f = [k \in 0 .. B |-> IF k = 0 THEN Start ELSE try_unpack_frame(f[k - 1], bytes[k])]
    BY <1>1 DEF Unpacks
  <2>2. 0 \in 0 .. B /\ \A k \in 1 .. B : k \in 0 .. B /\ k # 0
    BY <1>2
  <2> QED
    BY <2>1, <2>2
<1> DEFINE In(i, k) == /\ i < m - d => Begun(i, k) < Size(i)
                       /\ i = m - d => Begun(i, k) = 0
                       /\ Begun(i, k) >= 0
                       /\ f[k] = [rest |-> PartOf(ids[d + i + 1], Size(i), Begun(i, k)), out |-> Out(i)]
           P(k) == \E i \in 0 .. m - d : In(i, k)
<1>6. \A i \in 0 .. m - d : d + i \in 0 .. N /\ d + i \in Nat /\ (i < m - d => d + i + 1 \in 1 .. N /\ d + i + 1 \in 0 .. N)
  BY <1>2
<1>7. \A i \in 0 .. m - d : cut[d + i] \in Nat /\ cut[d] \in Nat /\ (i < m - d => cut[d + i + 1] \in Nat /\ Size(i) > 0 /\ Size(i) \in Nat)
  <2>1. \A i \in 0 .. m - d : d + i < d + i + 1
    BY <1>6
  <2> QED
    BY <1>2, <1>3, <1>6, <2>1
<1>8. P(0)
  <2>1. 0 \in 0 .. m - d /\ d + 0 = d
    BY <1>2
  <2>2. Begun(0, 0) = 0
    <3>1. cut[d + 0] = cut[d] /\ cut[d] \in Nat
      BY <1>7, <2>1
    <3> QED
      BY <3>1
  <2>3. Out(0) = <<>>
    <3>1. 1 .. 0 = {}
      OBVIOUS
    <3> QED
      BY <3>1
  <2> HIDE DEF Out, Begun
  <2>4. f[0] = [rest |-> PartOf(ids[d + 0 + 1], Size(0), Begun(0, 0)), out |-> Out(0)]
    BY <1>5, <2>2, <2>3, NothingOf DEF Start
  <2>5. 0 < m - d => Begun(0, 0) < Size(0)
    BY <1>7, <2>1, <2>2
  <2>6. Begun(0, 0) >= 0
    BY <2>2
  <2> HIDE DEF Size
  <2> QED
    BY <2>1, <2>2, <2>4, <2>5, <2>6
<1>9. ASSUME NEW k \in 1 .. B, P(k - 1) PROVE P(k)
  <2>1. PICK i \in 0 .. m - d : In(i, k - 1)
    BY <1>9
  <2> DEFINE j == Begun(i, k - 1) + 1
             n == Size(i)
             id == ids[d + i + 1]
  <2>2. i \in Nat /\ k \in Nat /\ Begun(i, k - 1) \in Int /\ Begun(i, k - 1) >= 0 /\ Begun(i, k) = j
    <3>1. i \in Nat /\ k \in Nat
      BY <1>2
    <3>2. cut[d + i] \in Nat /\ cut[d] \in Nat
      BY <1>7
    <3>3. Begun(i, k - 1) >= 0
      BY <2>1
    <3> QED
      BY <3>1, <3>2, <3>3
  <2>3. i < m - d
    <3> SUFFICES ASSUME i = m - d PROVE FALSE
      BY <1>2, <2>2
    <3>1. d + i = m
      BY <1>2
    <3>2. k - 1 - (cut[m] - cut[d]) = 0
      BY <2>1, <3>1
    <3> QED
      BY <1>2, <1>4, <3>2
  <2>4. n \in Nat \ {0} /\ j \in 1 .. n
    <3>1. n \in Nat /\ n > 0
      BY <1>7, <2>3
    <3>2. Begun(i, k - 1) < n
      BY <2>1, <2>3
    <3> HIDE DEF n, Begun
    <3> QED
      BY <2>2, <3>1, <3>2
  <2>5. id \in Nat /\ d + i + 1 \in 1 .. N /\ (d + i + 1) - 1 = d + i
    BY <1>2, <1>6, <2>3
  <2>6. bytes[k] = ByteOf(id, n, j)
    <3>1. s[cut[d + i] + j] = ByteOf(id, n, j)
      BY <1>3, <2>4, <2>5
    <3>2. cut[d + i] + j = cut[d] + k
      <4>1. cut[d + i] \in Nat /\ cut[d] \in Nat /\ k \in Nat
        BY <1>7, <2>2
      <4>2. \A x, y, z \in Nat : x + (z - 1 - (x - y) + 1) = y + z
        OBVIOUS
      <4> QED
        BY <4>1, <4>2
    <3> QED
      BY <1>4, <3>1, <3>2
  <2>7. f[k - 1] = [rest |-> PartOf(id, n, j - 1), out |-> Out(i)]
    <3>1. j - 1 = Begun(i, k - 1)
      BY <2>2
    <3> QED
      BY <2>1, <3>1
  <2> HIDE DEF id, n, j, Out
  <2>8. f[k] = IF j < n THEN [rest |-> PartOf(id, n, j), out |-> Out(i)]
               ELSE [rest |-> <<>>, out |-> Append(Out(i), id)]
    <3>1. f[k] = try_unpack_frame([rest |-> PartOf(id, n, j - 1), out |-> Out(i)], ByteOf(id, n, j))
      BY <1>5, <2>6, <2>7
    <3> QED
      BY <2>4, <2>5, <3>1, OneByteMore
  <2>9. CASE j < n
    <3>1. f[k] = [rest |-> PartOf(id, n, j), out |-> Out(i)]
      BY <2>8, <2>9
    <3>2. In(i, k)
      <4>1. Begun(i, k) = j /\ j \in Nat /\ i # m - d
        BY <2>2, <2>3, <2>4
      <4> QED
        BY <2>9, <3>1, <4>1 DEF id, n
    <3> QED
      BY <3>2
  <2>10. CASE ~(j < n)
    <3>1. j = n
      BY <2>4, <2>10
    <3>2. i + 1 \in 0 .. m - d /\ d + (i + 1) = d + i + 1
      BY <1>2, <2>2, <2>3
    <3>3. Begun(i + 1, k) = 0
      <4>1. Begun(i + 1, k) = k - (cut[d + i + 1] - cut[d])
        BY <3>2
      <4>2. j = k - (cut[d + i] - cut[d]) /\ n = cut[d + i + 1] - cut[d + i]
        BY <2>2 DEF n
      <4>3. cut[d + i] \in Nat /\ cut[d] \in Nat /\ cut[d + i + 1] \in Nat
        BY <1>7, <2>3
      <4>4. \A x, y, z, e \in Nat : z - (x - y) = e - x => z - (e - y) = 0
        OBVIOUS
      <4>5. k - (cut[d + i] - cut[d]) = cut[d + i + 1] - cut[d + i]
        BY <3>1, <4>2
      <4>6. k - (cut[d + i + 1] - cut[d]) = 0
        <5>1. k \in Nat
          BY <2>2
        <5> HIDE DEF Begun, Size
        <5> QED
          BY <4>3, <4>4, <4>5, <5>1, SMTT(30)
      <4> QED
        BY <4>1, <4>6
    <3>4. Append(Out(i), id) = Out(i + 1)
      <4>1. \A e \in 1 .. i + 1 : d + e \in 1 .. N /\ ids[d + e] \in Nat
        BY <1>2, <3>2
      <4>0. ASSUME NEW x \in Nat, x <= i + 1
            PROVE  /\ Out(x) \in Seq(Nat) /\ Len(Out(x)) = x
                   /\ \A e \in 1 .. x : Out(x)[e] = ids[d + e]
        <5>1. \A e \in 1 .. x : ids[d + e] \in Nat
          <6>1. \A e \in 1 .. x : e \in 1 .. i + 1
            BY <2>2, <4>0
          <6> QED
            BY <4>1, <6>1
        <5>2. Out(x) = [e \in 1 .. x |-> ids[d + e]]
          BY DEF Out
        <5> HIDE DEF N
        <5> QED
          BY <5>1, <5>2
      <4>2. /\ Out(i) \in Seq(Nat) /\ Len(Out(i)) = i /\ \A e \in 1 .. i : Out(i)[e] = ids[d + e]
        <5>1. i \in Nat /\ i <= i + 1
          BY <2>2
        <5> QED
          BY <4>0, <5>1
      <4>3. /\ Out(i + 1) \in Seq(Nat) /\ Len(Out(i + 1)) = i + 1
            /\ \A e \in 1 .. i + 1 : Out(i + 1)[e] = ids[d + e]
        <5>1. i + 1 \in Nat /\ i + 1 <= i + 1
          BY <2>2
        <5> QED
          BY <4>0, <5>1
      <4> DEFINE a == Append(Out(i), id)
      <4>4. a \in Seq(Nat) /\ Len(a) = i + 1 /\ a[i + 1] = id /\ \A e \in 1 .. i : a[e] = Out(i)[e]
        <5> DEFINE o == Out(i)
        <5>1. o \in Seq(Nat) /\ Len(o) = i /\ id \in Nat
          BY <2>5, <4>2
        <5> HIDE DEF o
        <5>2. /\ Append(o, id) \in Seq(Nat) /\ Len(Append(o, id)) = i + 1
              /\ Append(o, id)[i + 1] = id /\ \A e \in 1 .. i : Append(o, id)[e] = o[e]
          BY <5>1
        <5> QED
          BY <5>2 DEF o
      <4> HIDE DEF a
      <4>5. id = ids[d + (i + 1)]
        BY <3>2 DEF id
      <4>6. \A e \in 1 .. i + 1 : e \in 1 .. i \/ e = i + 1
        BY <2>2
      <4>7. \A e \in 1 .. i + 1 : a[e] = Out(i + 1)[e]
        BY <4>2, <4>3, <4>4, <4>5, <4>6
      <4>8. a = Out(i + 1)
        BY <4>3, <4>4, <4>7, SeqEqual
      <4> QED
        BY <4>8 DEF a
    <3>5. f[k] = [rest |-> PartOf(ids[d + (i + 1) + 1], Size(i + 1), Begun(i + 1, k)), out |-> Out(i + 1)]
      BY <2>8, <2>10, <3>3, <3>4, NothingOf
    <3>6. i + 1 < m - d => Begun(i + 1, k) < Size(i + 1)
      BY <1>7, <3>2, <3>3
    <3>7. In(i + 1, k)
      <4>1. Begun(i + 1, k) >= 0
        BY <3>3
      <4> HIDE DEF Begun, Size
      <4> QED
        BY <3>3, <3>5, <3>6, <4>1
    <3> QED
      BY <3>2, <3>7
  <2> QED
    BY <2>9, <2>10
<1> HIDE DEF P
<1>10. \A k \in 0 .. B : P(k)
  <2> DEFINE T == {k \in 0 .. B : ~P(k)}
  <2> SUFFICES ASSUME T # {} PROVE FALSE
    OBVIOUS
  <2>1. T \subseteq Nat
    OBVIOUS
  <2> HIDE DEF T
  <2>2. PICK k \in T : \A y \in T : k <= y
    BY <2>1, LeastOf
  <2>3. k \in 0 .. B /\ ~P(k)
    BY DEF T
  <2>4. k # 0
    BY <1>8, <2>3
  <2>5. k \in 1 .. B /\ k - 1 \in 0 .. B /\ ~(k <= k - 1)
    BY <1>2, <2>3, <2>4
  <2>6. P(k - 1)
    BY <2>2, <2>5 DEF T
  <2> QED
    BY <1>9, <2>3, <2>5, <2>6
<1>11. PICK i \in 0 .. m - d : In(i, B)
  <2>1. B \in 0 .. B
    BY <1>2
  <2> QED
    BY <1>10, <2>1 DEF P
<1>12. i = m - d
  <2> SUFFICES ASSUME i < m - d PROVE FALSE
    BY <1>2
  <2>1. B - (cut[d + i] - cut[d]) < cut[d + i + 1] - cut[d + i]
    BY <1>11
  <2>2. d + i + 1 = m \/ d + i + 1 < m
    BY <1>2
  <2>3. cut[d + i + 1] <= cut[m]
    <3>1. cut[m] \in Nat /\ cut[d + i + 1] \in Nat
      BY <1>2, <1>3, <1>7
    <3>2. d + i + 1 < m => cut[d + i + 1] < cut[m]
      BY <1>2, <1>3, <1>6
    <3>3. CASE d + i + 1 = m
      BY <3>1, <3>3
    <3>4. CASE d + i + 1 < m
      BY <3>1, <3>2, <3>4
    <3> QED
      BY <2>2, <3>3, <3>4
  <2>4. cut[m] \in Nat /\ cut[d + i + 1] \in Nat /\ cut[d + i] \in Nat /\ cut[d] \in Nat
    BY <1>2, <1>3, <1>7
  <2>5. \A x, y, z, e \in Nat : (e - y) - (x - y) < z - x => ~(z <= e)
    OBVIOUS
  <2>6. (cut[m] - cut[d]) - (cut[d + i] - cut[d]) < cut[d + i + 1] - cut[d + i]
    BY <1>4, <2>1
  <2> QED
    BY <2>3, <2>4, <2>5, <2>6
<1>13. f[B] = [rest |-> <<>>, out |-> Out(m - d)]
  <2>1. Begun(i, B) = 0 /\ f[B] = [rest |-> PartOf(ids[d + i + 1], Size(i), Begun(i, B)), out |-> Out(i)]
    BY <1>11, <1>12
  <2> HIDE DEF Begun, Size, Out
  <2> QED
    BY <1>12, <2>1, NothingOf
<1> QED
  BY <1>1, <1>13 DEF B, FramesFrom

-----------------------------------------------------------------------------
(* The invariant of the decoder: the writer has a whole frame, the stream  *)
(* is one of the accepted frames, and the reader's offsets, the one that   *)
(* it has reached and the one that it is reading up to, are ends of        *)
(* frames.                                                                 *)

WriterHasFrame ==
  wr.pc = "copy" => Len(wr.frame) > 0 /\ wr.frame = pack_frame(offered, Len(wr.frame))

ReadTo(d, cut) ==
  /\ delivered = SubSeq(accepted, 1, d)
  /\ cut[d] = r
  /\ rd.pc = "copy" => \E m \in d .. Len(accepted) : cut[m] = rd.w

WholeFrames ==
  \E cut \in [0 .. Len(accepted) -> 0 .. Len(stream)], d \in 0 .. Len(accepted) :
    Framed(stream, accepted, cut) /\ ReadTo(d, cut)

DecoderInv == buf = <<>> /\ WriterHasFrame /\ WholeFrames

LEMMA InitDecoder == Init => DecoderInv
<1> SUFFICES ASSUME Init PROVE DecoderInv
  OBVIOUS
<1>1. /\ buf = <<>> /\ accepted = <<>> /\ stream = <<>> /\ delivered = <<>> /\ r = 0
      /\ wr.pc = "idle" /\ rd.pc = "idle"
  BY DEF Init, IdleWriter, IdleReader
<1> DEFINE cut == [m \in 0 .. 0 |-> 0]
<1>2. Len(accepted) = 0 /\ Len(stream) = 0
  BY <1>1
<1>3. cut \in [0 .. 0 -> 0 .. 0] /\ cut[0] = 0
  OBVIOUS
<1>4. 1 .. 0 = {} /\ 0 .. 0 = {0}
  OBVIOUS
<1> HIDE DEF cut
<1>5. Framed(stream, accepted, cut)
  BY <1>2, <1>3, <1>4 DEF Framed
<1>6. SubSeq(accepted, 1, 0) = <<>>
  BY <1>1
<1>7. ReadTo(0, cut)
  BY <1>1, <1>3, <1>6 DEF ReadTo
<1>8. WholeFrames
  BY <1>2, <1>3, <1>4, <1>5, <1>7 DEF WholeFrames
<1> QED
  BY <1>1, <1>8 DEF DecoderInv, WriterHasFrame

(* Steps that move neither the stream nor the reader's offsets. *)
LEMMA QuietStepDecoder ==
  ASSUME DecoderInv, UNCHANGED <<buf, accepted, stream, delivered, r>>,
         rd'.pc = "copy" => rd.pc = "copy" /\ rd'.w = rd.w, WriterHasFrame'
  PROVE  DecoderInv'
<1>1. PICK cut \in [0 .. Len(accepted) -> 0 .. Len(stream)], d \in 0 .. Len(accepted) :
        Framed(stream, accepted, cut) /\ ReadTo(d, cut)
  BY DEF DecoderInv, WholeFrames
<1>2. ReadTo(d, cut)'
  BY <1>1 DEF ReadTo
<1>3. WholeFrames'
  BY <1>1, <1>2 DEF WholeFrames
<1> QED
  BY <1>3 DEF DecoderInv

LEMMA WriteBeginDecoder ==
  ASSUME IndInv, DecoderInv, NEW n \in Lengths, WriteBegin(n)
  PROVE  DecoderInv'
<1>1. /\ UNCHANGED <<buf, accepted, stream, delivered, r, rd>> /\ offered' = offered + 1
      /\ wr' = [pc |-> "copy", w |-> w, frame |-> pack_frame(offered + 1, n), k |-> 0]
      /\ offered < MaxFrames
  BY DEF WriteBegin, shared, history
<1>2. n \in Nat \ {0} /\ offered + 1 \in 0 .. MaxFrames
  BY <1>1, LengthsAssumption, MaxFramesAssumption DEF IndInv, TypeOK
<1>3. Len(pack_frame(offered + 1, n)) = n
  BY <1>2, PackFrameType
<1>4. WriterHasFrame'
  BY <1>1, <1>2, <1>3 DEF WriterHasFrame
<1> QED
  BY <1>1, <1>4, QuietStepDecoder

(* Publish: a frame more, and an end more. *)
LEMMA PublishDecoder ==
  ASSUME IndInv, DecoderInv, Publish
  PROVE  DecoderInv'
<1> DEFINE n == Len(wr.frame)
<1>1. /\ UNCHANGED <<buf, delivered, r, rd, offered>> /\ wr' = IdleWriter
      /\ stream' = stream \o wr.frame /\ accepted' = Append(accepted, offered)
      /\ wr.pc = "copy"
  BY DEF Publish
<1>2. /\ stream \in Seq(Byte) /\ accepted \in Seq(0 .. MaxFrames) /\ offered \in 0 .. MaxFrames
      /\ n \in Nat
  BY DEF IndInv, TypeOK
<1>3. n \in Nat \ {0} /\ wr.frame = pack_frame(offered, n)
  BY <1>1, <1>2 DEF DecoderInv, WriterHasFrame
<1>4. PICK cut \in [0 .. Len(accepted) -> 0 .. Len(stream)], d \in 0 .. Len(accepted) :
        Framed(stream, accepted, cut) /\ ReadTo(d, cut)
  BY DEF DecoderInv, WholeFrames
<1> HIDE DEF n
<1>5. stream' = stream \o pack_frame(offered, n)
  BY <1>1, <1>3
<1>6. PICK c : /\ Framed(stream', accepted', c)
               /\ \A m \in 0 .. Len(accepted) : c[m] = cut[m]
  BY <1>1, <1>2, <1>3, <1>4, <1>5, FramedGrows, SMTT(30)
<1>7. Len(accepted) \in Nat /\ Len(accepted') = Len(accepted) + 1
  BY <1>1, <1>2
<1>8. /\ d \in 0 .. Len(accepted') /\ d \in Nat /\ d <= Len(accepted)
      /\ \A m \in d .. Len(accepted) : m \in 0 .. Len(accepted) /\ m \in d .. Len(accepted')
  BY <1>7
<1>9. SubSeq(accepted', 1, d) = SubSeq(accepted, 1, d)
  <2>1. \A i \in 1 .. d : i \in 1 .. Len(accepted) /\ accepted'[i] = accepted[i]
    BY <1>1, <1>2, <1>8
  <2> DEFINE p == SubSeq(accepted', 1, d)
             q == SubSeq(accepted, 1, d)
  <2>2. q = [i \in 1 .. d |-> accepted[i]]
    BY <1>2, <1>8
  <2>3. p = [i \in 1 .. d |-> accepted'[i]]
    BY <1>1, <1>2, <1>8
  <2> HIDE DEF p, q
  <2>4. p = q
    BY <2>1, <2>2, <2>3
  <2> QED
    BY <2>4 DEF p, q
<1>10. /\ delivered' = SubSeq(accepted', 1, d) /\ c[d] = r'
       /\ rd'.pc = "copy" => \E m \in d .. Len(accepted') : c[m] = rd'.w
  <2>1. delivered = SubSeq(accepted, 1, d) /\ cut[d] = r
    BY <1>4 DEF ReadTo
  <2>2. rd.pc = "copy" => \E m \in d .. Len(accepted) : cut[m] = rd.w
    BY <1>4 DEF ReadTo
  <2> QED
    BY <1>1, <1>6, <1>8, <1>9, <2>1, <2>2
<1>11. c \in [0 .. Len(accepted') -> 0 .. Len(stream')]
  BY <1>6 DEF Framed
<1>12. WholeFrames'
  BY <1>6, <1>8, <1>10, <1>11 DEF WholeFrames, ReadTo
<1> QED
  BY <1>1, <1>12 DEF DecoderInv, WriterHasFrame, IdleWriter

(* ReadBegin: the published offset is the end of the last frame. *)
LEMMA ReadBeginDecoder ==
  ASSUME IndInv, DecoderInv, ReadBegin
  PROVE  DecoderInv'
<1>1. /\ UNCHANGED <<buf, accepted, stream, delivered, r, wr, offered>>
      /\ rd' = [pc |-> "copy", w |-> w, r |-> r, bytes |-> <<>>]
  BY DEF ReadBegin, shared, history
<1>2. PICK cut \in [0 .. Len(accepted) -> 0 .. Len(stream)], d \in 0 .. Len(accepted) :
        Framed(stream, accepted, cut) /\ ReadTo(d, cut)
  BY DEF DecoderInv, WholeFrames
<1>3. cut[Len(accepted)] = w
  BY <1>2 DEF Framed, IndInv, OffsetsInv
<1>4. Len(accepted) \in d .. Len(accepted)
  BY DEF IndInv, TypeOK
<1>5. ReadTo(d, cut)'
  BY <1>1, <1>2, <1>3, <1>4 DEF ReadTo
<1>6. WholeFrames'
  BY <1>1, <1>2, <1>5 DEF WholeFrames
<1> QED
  BY <1>1, <1>6 DEF DecoderInv, WriterHasFrame

(* SetRead: what it read are the frames from one end to the other. *)
LEMMA SetReadDecoder ==
  ASSUME IndInv, DecoderInv, SetRead
  PROVE  DecoderInv'
<1>1. /\ UNCHANGED <<w, wr, offered, accepted, stream>> /\ rd' = IdleReader
      /\ rd.pc = "copy" /\ r' = rd.r + Len(rd.bytes) /\ Len(rd.bytes) = rd.w - rd.r
      /\ delivered' = delivered \o unpack_all_frames(buf \o rd.bytes).out
      /\ buf' = IF KeepTail THEN unpack_all_frames(buf \o rd.bytes).rest ELSE <<>>
  BY DEF SetRead
<1>2. /\ stream \in Seq(Byte) /\ accepted \in Seq(0 .. MaxFrames) /\ rd.bytes \in Seq(Byte)
      /\ Len(accepted) \in Nat /\ rd.w \in Nat /\ r \in Nat
  BY DEF IndInv, TypeOK
<1>3. rd.r = r /\ \A j \in 1 .. Len(rd.bytes) : rd.bytes[j] = stream[r + j]
  BY <1>1 DEF IndInv, ReaderInv
<1>4. PICK cut \in [0 .. Len(accepted) -> 0 .. Len(stream)], d \in 0 .. Len(accepted) :
        Framed(stream, accepted, cut) /\ ReadTo(d, cut)
  BY DEF DecoderInv, WholeFrames
<1>5. /\ delivered = SubSeq(accepted, 1, d) /\ cut[d] = r
      /\ \E m \in d .. Len(accepted) : cut[m] = rd.w
  BY <1>1, <1>4 DEF ReadTo
<1>6. PICK m \in d .. Len(accepted) : cut[m] = rd.w
  BY <1>5
<1>7. buf \o rd.bytes = rd.bytes
  BY <1>2 DEF DecoderInv
<1>8. BytesFrom(rd.bytes, stream, cut[d], cut[m])
  BY <1>1, <1>3, <1>5, <1>6 DEF BytesFrom
<1> DEFINE out == FramesFrom(accepted, d, m)
<1>9. unpack_all_frames(rd.bytes) = [rest |-> <<>>, out |-> out]
  BY <1>2, <1>4, <1>8, WholeFramesDecode, SMTT(30)
<1> HIDE DEF out
<1>10. buf' = <<>> /\ delivered' = SubSeq(accepted, 1, d) \o out
  BY <1>1, <1>5, <1>7, <1>9
<1>11. SubSeq(accepted, 1, d) \o out = SubSeq(accepted, 1, m)
  <2>1. d \in Nat /\ m \in Nat /\ d <= m /\ m <= Len(accepted)
    BY <1>2
  <2>2. \A n \in 1 .. m - d : d + n \in 1 .. Len(accepted) /\ accepted[d + n] \in 0 .. MaxFrames
    <3>1. \A n \in 1 .. m - d : d + n \in 1 .. Len(accepted)
      BY <1>2, <2>1
    <3>2. \A e \in 1 .. Len(accepted) : accepted[e] \in 0 .. MaxFrames
      BY <1>2, ElementOfSeq
    <3> QED
      BY <3>1, <3>2
  <2>3. out \in Seq(0 .. MaxFrames) /\ Len(out) = m - d /\ \A n \in 1 .. Len(out) : out[n] = accepted[d + n]
    BY <2>1, <2>2 DEF out, FramesFrom
  <2>4. d + Len(out) = m /\ d + Len(out) <= Len(accepted)
    BY <2>1, <2>3
  <2>5. SubSeq(accepted, 1, d) \o out = SubSeq(accepted, 1, d + Len(out))
    BY <1>2, <2>1, <2>3, <2>4, PrefixExtends
  <2> QED
    BY <2>4, <2>5
<1>12. r' = cut[m]
  BY <1>1, <1>2, <1>3, <1>6
<1>13. m \in 0 .. Len(accepted)
  BY <1>2
<1>14. ReadTo(m, cut)'
  BY <1>1, <1>10, <1>11, <1>12 DEF ReadTo, IdleReader
<1>15. WholeFrames'
  BY <1>1, <1>4, <1>13, <1>14 DEF WholeFrames
<1> QED
  BY <1>1, <1>10, <1>15 DEF DecoderInv, WriterHasFrame

LEMMA NextDecoder == IndInv /\ DecoderInv /\ [Next]_vars => DecoderInv'
<1> SUFFICES ASSUME IndInv, DecoderInv, [Next]_vars PROVE DecoderInv'
  OBVIOUS
<1>1. WriterHasFrame
  BY DEF DecoderInv
<1>2. ASSUME NEW n \in Lengths, WriteRefused(n) PROVE DecoderInv'
  <2>1. /\ UNCHANGED <<buf, accepted, stream, delivered, r, rd, wr>> /\ wr.pc = "idle"
    BY <1>2 DEF WriteRefused, shared, history
  <2> QED
    BY <2>1, QuietStepDecoder DEF WriterHasFrame
<1>3. ASSUME NEW n \in Lengths, WriteBegin(n) PROVE DecoderInv'
  BY <1>3, WriteBeginDecoder
<1>4. CASE WriteByte
  <2>1. /\ UNCHANGED <<buf, accepted, stream, delivered, r, rd, offered>>
        /\ wr' = [wr EXCEPT !.k = @ + 1] /\ wr.pc = "copy"
    BY <1>4 DEF WriteByte, history
  <2>2. wr'.frame = wr.frame /\ wr'.pc = wr.pc
    BY <2>1 DEF IndInv, TypeOK
  <2> QED
    BY <1>1, <2>1, <2>2, QuietStepDecoder DEF WriterHasFrame
<1>5. CASE Publish
  BY <1>5, PublishDecoder
<1>6. CASE ReadBegin
  BY <1>6, ReadBeginDecoder
<1>7. CASE ReadByte
  <2>1. /\ UNCHANGED <<buf, accepted, stream, delivered, r, wr, offered>> /\ rd.pc = "copy"
        /\ rd' = [rd EXCEPT !.bytes = Append(@, data[Slot(rd.r + Len(@))])]
    BY <1>7 DEF ReadByte, shared, history
  <2>2. rd'.w = rd.w
    BY <2>1 DEF IndInv, TypeOK
  <2>3. WriterHasFrame'
    BY <1>1, <2>1 DEF WriterHasFrame
  <2> QED
    BY <2>1, <2>2, <2>3, QuietStepDecoder
<1>8. CASE SetRead
  BY <1>8, SetReadDecoder
<1>9. CASE UNCHANGED vars
  <2>1. UNCHANGED <<buf, accepted, stream, delivered, r, rd, wr, offered>>
    BY <1>9 DEF vars
  <2> QED
    BY <1>1, <2>1, QuietStepDecoder DEF WriterHasFrame
<1> QED
  BY <1>2, <1>3, <1>4, <1>5, <1>6, <1>7, <1>8, <1>9 DEF Next, Producer, Consumer

(* Each read decodes whole frames, the accepted ones in their order, none  *)
(* lost, repeated or garbled, and leaves nothing in the buffer: a frame is *)
(* published at once by one store of the write offset, so both sides only  *)
(* ever see ends of frames.  command_pump may discard its tail.            *)
THEOREM FramesAreInOrder == Spec => []FramesInOrder
<1>1. Spec => []DecoderInv
  BY InitDecoder, NextDecoder, RingInvariant, PTL DEF Spec
<1>2. IndInv /\ DecoderInv => FramesInOrder
  <2> SUFFICES ASSUME IndInv, DecoderInv PROVE FramesInOrder
    OBVIOUS
  <2>1. PICK cut \in [0 .. Len(accepted) -> 0 .. Len(stream)], d \in 0 .. Len(accepted) :
          Framed(stream, accepted, cut) /\ ReadTo(d, cut)
    BY DEF DecoderInv, WholeFrames
  <2>2. /\ accepted \in Seq(0 .. MaxFrames) /\ Len(accepted) \in Nat /\ d \in Nat /\ d <= Len(accepted)
    BY DEF IndInv, TypeOK
  <2>3. delivered = SubSeq(accepted, 1, d) /\ cut[d] = r
    BY <2>1 DEF ReadTo
  <2>4. Len(delivered) = d
    BY <2>2, <2>3
  <2>5. r = w => delivered = accepted
    <3>1. cut[Len(accepted)] = w /\ (d < Len(accepted) => cut[d] < cut[Len(accepted)]) /\ w \in Nat
      <4>1. Len(accepted) \in 0 .. Len(accepted)
        BY <2>2
      <4> QED
        BY <2>1, <4>1 DEF Framed, IndInv, OffsetsInv, TypeOK
    <3>2. r = w => d = Len(accepted)
      BY <2>2, <2>3, <3>1
    <3>3. SubSeq(accepted, 1, Len(accepted)) = accepted
      BY <2>2
    <3> QED
      BY <2>3, <3>2, <3>3
  <2> QED
    BY <2>3, <2>4, <2>5 DEF FramesInOrder, DecoderInv
<1> QED
  BY <1>1, <1>2, RingInvariant, PTL
=============================================================================
