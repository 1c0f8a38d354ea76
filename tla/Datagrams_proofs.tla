--------------------------- MODULE Datagrams_proofs ---------------------------
(***************************************************************************)
(* What a decoder of src/wire.rs reads from what its encoder wrote, for    *)
(* every header; and that a receiver takes up only units of its own        *)
(* protocol and completes only what a sender was given, for all sizes of a *)
(* byte, all signatures, magic numbers, payload limits, frames and IDs.    *)
(*                                                                         *)
(* The first part says what a receiver reads from a single datagram and    *)
(* that no datagram is accepted under both protocols; with the bounds of a *)
(* chunk, an accepted datagram is a fragment CutFrom a frame that was      *)
(* sent.  The invariant says the reassembler always holds a part of ONE    *)
(* such frame, each received chunk in its place (HoldsPart): reset         *)
(* establishes it, add preserves it, and a complete part is the frame.     *)
(***************************************************************************)
EXTENDS Datagrams, DivisionLemmas, SequenceTheorems, FiniteSetTheorems, TLAPS

-----------------------------------------------------------------------------
(* Words and their bytes: what from_be_bytes makes of to_be_bytes.         *)

LEMMA ByteType == Byte \in Nat /\ Byte > 0 /\ Byte * Byte \in Nat
  BY WireAssumption

LEMMA OctetsAreBytes ==
  ASSUME NEW n \in Nat
  PROVE  Hi(n) \in Bytes /\ Lo(n) \in Bytes /\ Upper(n) \in Nat
<1>1. n \div Byte \in Nat /\ Lo(n) \in Bytes
  BY ByteType, Division DEF Lo, Bytes
<1> DEFINE q == n \div Byte
<1> HIDE DEF q
<1>2. q \div Byte \in Nat /\ q % Byte \in 0 .. Byte - 1
  BY <1>1, ByteType, Division DEF q
<1>3. QED BY <1>1, <1>2 DEF Hi, Upper, Bytes, q

LEMMA Word16Value ==
  ASSUME NEW n \in Word16
  PROVE  Hi(n) * Byte + Lo(n) = n
<1>1. n \in Nat /\ n < Byte * Byte
  BY WireAssumption DEF Word16
<1>2. n \div Byte \in Nat /\ n = (n \div Byte) * Byte + (n % Byte)
  BY <1>1, ByteType, Division
<1>3. n \div Byte < Byte
  BY <1>1, ByteType, QuotientBelow
<1>4. (n \div Byte) % Byte = n \div Byte
  BY <1>2, <1>3, ByteType
<1>5. QED BY <1>2, <1>4 DEF Hi, Lo

LEMMA Word32Value ==
  ASSUME NEW n \in Word32
  PROVE  ((Hi(Upper(n)) * Byte + Lo(Upper(n))) * Byte + Hi(n)) * Byte + Lo(n) = n
<1> DEFINE q == n \div Byte
<1>1. n \in Nat /\ n < Byte * Byte * Byte * Byte
  BY WireAssumption DEF Word32
<1>2. q \in Nat /\ n = q * Byte + (n % Byte)
  BY <1>1, ByteType, Division
<1>3. q < Byte * Byte * Byte
  BY <1>1, ByteType, QuotientBelow
<1>4. Upper(n) = q \div Byte /\ Hi(n) = q % Byte /\ Lo(n) = n % Byte
  BY DEF Upper, Hi, Lo
<1> HIDE DEF q
<1>5. q \div Byte \in Nat /\ q = (q \div Byte) * Byte + (q % Byte)
  BY <1>2, ByteType, Division
<1>6. q \div Byte < Byte * Byte
  BY <1>2, <1>3, ByteType, QuotientBelow
<1>7. q \div Byte \in Word16
  BY <1>5, <1>6, ByteType DEF Word16
<1>8. Hi(q \div Byte) * Byte + Lo(q \div Byte) = q \div Byte
  BY <1>7, Word16Value
<1>9. QED BY <1>2, <1>4, <1>5, <1>8

-----------------------------------------------------------------------------
(* Sequences put together from two.                                        *)

LEMMA FirstPart ==
  ASSUME NEW s \in Seq(Bytes), NEW t \in Seq(Bytes)
  PROVE  /\ s \o t \in Seq(Bytes) /\ Len(s \o t) = Len(s) + Len(t)
         /\ \A i \in 1 .. Len(s) : (s \o t)[i] = s[i]
  BY ConcatProperties

LEMMA SecondPart ==
  ASSUME NEW s \in Seq(Bytes), NEW t \in Seq(Bytes)
  PROVE  SubSeq(s \o t, Len(s) + 1, Len(s \o t)) = t
<1> DEFINE d == s \o t
           r == SubSeq(d, Len(s) + 1, Len(d))
<1>1. /\ d \in Seq(Bytes) /\ Len(d) = Len(s) + Len(t)
      /\ \A i \in 1 .. Len(t) : d[Len(s) + i] = t[i]
  BY ConcatProperties
<1>2. Len(s) \in Nat /\ Len(t) \in Nat
  OBVIOUS
<1> HIDE DEF d
<1>3. \A i \in Len(s) + 1 .. Len(d) : d[i] \in Bytes
  BY <1>1, <1>2
<1>4. /\ r \in Seq(Bytes)
      /\ Len(r) = IF Len(s) + 1 <= Len(d) THEN Len(d) - (Len(s) + 1) + 1 ELSE 0
      /\ \A i \in 1 .. Len(d) - (Len(s) + 1) + 1 : r[i] = d[Len(s) + 1 + i - 1]
  BY <1>1, <1>2, <1>3, SubSeqProperties
<1> HIDE DEF r
<1>5. Len(r) = Len(t)
  <2>1. Len(d) - (Len(s) + 1) + 1 = Len(t) /\ (Len(s) + 1 <= Len(d) <=> Len(t) > 0)
    BY <1>1, <1>2
  <2>2. QED BY <1>2, <1>4, <2>1
<1>6. \A i \in 1 .. Len(t) : r[i] = t[i]
  <2>1. \A i \in 1 .. Len(t) : /\ i \in 1 .. Len(d) - (Len(s) + 1) + 1
                             /\ Len(s) + 1 + i - 1 = Len(s) + i
    BY <1>1, <1>2
  <2>2. QED BY <1>1, <1>4, <2>1
<1>7. r = t
  BY <1>4, <1>5, <1>6, SeqEqual
<1>8. QED BY <1>7 DEF r, d

-----------------------------------------------------------------------------
(* PacketHeader                                                            *)

LEMMA PacketIsBytes ==
  ASSUME NEW h \in Packet
  PROVE  EncodePacket(h) \in Seq(Bytes) /\ Len(EncodePacket(h)) = PacketBytes
<1>1. /\ h.flags \in Bytes /\ h.frameId \in Nat
      /\ h.chunkIndex \in Nat /\ h.totalChunks \in Nat
  BY WireAssumption DEF Packet, Word16, Word32
<1>2. Upper(h.frameId) \in Nat /\ Hi(h.frameId) \in Bytes /\ Lo(h.frameId) \in Bytes
  BY <1>1, OctetsAreBytes
<1>3. Hi(Upper(h.frameId)) \in Bytes /\ Lo(Upper(h.frameId)) \in Bytes
  BY <1>2, OctetsAreBytes
<1>4. /\ Hi(h.chunkIndex) \in Bytes /\ Lo(h.chunkIndex) \in Bytes
      /\ Hi(h.totalChunks) \in Bytes /\ Lo(h.totalChunks) \in Bytes
  BY <1>1, OctetsAreBytes
<1>5. /\ Signature[1] \in Bytes /\ Signature[2] \in Bytes
      /\ Signature[3] \in Bytes /\ Signature[4] \in Bytes /\ Version \in Bytes
  BY WireAssumption
<1>6. QED BY <1>1, <1>2, <1>3, <1>4, <1>5 DEF EncodePacket, PacketBytes

(* wire.rs:28-29 - what send_access_unit puts into a datagram comes out of  *)
(* split_datagram: the header, and as payload every byte after it, although *)
(* no field holds its length.                                               *)
THEOREM PacketRoundTrip ==
  ASSUME NEW h \in Packet, h.chunkIndex < h.totalChunks,
         NEW payload \in Seq(Bytes), payload # <<>>
  PROVE  LET d == EncodePacket(h) \o payload
         IN  DatagramAccepted(d) /\ ReadPacket(d) = h /\ PacketPayload(d) = payload
<1> DEFINE e == EncodePacket(h)
           d == e \o payload
<1>1. /\ h.frameId \in Word32 /\ h.chunkIndex \in Word16 /\ h.totalChunks \in Word16
  BY DEF Packet
<1>2. e \in Seq(Bytes) /\ Len(e) = 14
  BY PacketIsBytes DEF PacketBytes
<1>3. d \in Seq(Bytes) /\ Len(d) = 14 + Len(payload) /\ \A i \in 1 .. 14 : d[i] = e[i]
  <2> HIDE DEF e
  <2>1. /\ d \in Seq(Bytes) /\ Len(d) = Len(e) + Len(payload)
        /\ \A i \in 1 .. Len(e) : d[i] = e[i]
    BY <1>2, FirstPart
  <2> HIDE DEF d
  <2>2. QED BY <1>2, <2>1
<1>4. PacketPayload(d) = payload
  BY <1>2, SecondPart DEF PacketPayload, PacketBytes
<1>5. /\ e[1] = Signature[1] /\ e[2] = Signature[2]
      /\ e[3] = Signature[3] /\ e[4] = Signature[4]
      /\ e[5] = Version /\ e[6] = h.flags
      /\ e[7] = Hi(Upper(h.frameId)) /\ e[8] = Lo(Upper(h.frameId))
      /\ e[9] = Hi(h.frameId) /\ e[10] = Lo(h.frameId)
      /\ e[11] = Hi(h.chunkIndex) /\ e[12] = Lo(h.chunkIndex)
      /\ e[13] = Hi(h.totalChunks) /\ e[14] = Lo(h.totalChunks)
  BY DEF EncodePacket
<1> HIDE DEF e, d
<1>6. Word32At(d, 6) = h.frameId
  <2>1. /\ d[7] = Hi(Upper(h.frameId)) /\ d[8] = Lo(Upper(h.frameId))
        /\ d[9] = Hi(h.frameId) /\ d[10] = Lo(h.frameId)
    BY <1>3, <1>5
  <2>2. QED BY <1>1, <2>1, Word32Value DEF Word32At, Word16At
<1>7. Word16At(d, 10) = h.chunkIndex /\ Word16At(d, 12) = h.totalChunks
  <2>1. /\ d[11] = Hi(h.chunkIndex) /\ d[12] = Lo(h.chunkIndex)
        /\ d[13] = Hi(h.totalChunks) /\ d[14] = Lo(h.totalChunks)
    BY <1>3, <1>5
  <2>2. QED BY <1>1, <2>1, Word16Value DEF Word16At
<1>8. d[5] = Version /\ d[6] = h.flags /\ \A i \in 1 .. 4 : d[i] = Signature[i]
  BY <1>3, <1>5
<1>9. ReadPacket(d) = h
  BY <1>6, <1>7, <1>8 DEF ReadPacket, Packet
<1>10. PacketAccepted(d)
  <2>1. Len(d) >= 14 /\ h.chunkIndex \in Nat /\ h.totalChunks \in Nat
    BY <1>1, <1>3, WireAssumption DEF Word16
  <2>2. QED BY <2>1, <1>8, <1>9 DEF PacketAccepted, PacketBytes
<1>11. QED BY <1>4, <1>9, <1>10 DEF DatagramAccepted, d, e

-----------------------------------------------------------------------------
(* LegacyRawPacketHeader                                                   *)

LEMMA StreamFields ==
  ASSUME NEW h \in RawPacket
  PROVE  /\ h.stream = StreamSpec(h.stream.width, h.stream.height, h.stream.format)
         /\ h.stream.width \in Word16 /\ h.stream.height \in Word16
         /\ h.stream.format \in Formats
<1>1. PICK w \in Word16, ht \in Word16, f \in Formats : h.stream = StreamSpec(w, ht, f)
  BY DEF RawPacket
<1>2. h.stream.width = w /\ h.stream.height = ht /\ h.stream.format = f
  BY <1>1 DEF StreamSpec
<1>3. QED BY <1>1, <1>2

LEMMA RawIsBytes ==
  ASSUME NEW h \in RawPacket, h.stream.byteLen \in Word32
  PROVE  EncodeRaw(h) \in Seq(Bytes) /\ Len(EncodeRaw(h)) = RawBytes
<1>1. /\ h.flags \in Bytes /\ h.frameId \in Nat /\ h.captureTs \in [1 .. 8 -> Bytes]
      /\ h.chunkIndex \in Nat /\ h.totalChunks \in Nat /\ h.chunkLen \in Nat
      /\ h.stream.byteLen \in Nat /\ Magic \in Nat
  BY WireAssumption DEF RawPacket, Word16, Word32
<1>2. h.stream.width \in Nat /\ h.stream.height \in Nat /\ h.stream.format \in Bytes
  BY StreamFields, WireAssumption DEF Word16, Formats, Bytes
<1>3. /\ Upper(h.frameId) \in Nat /\ Hi(h.frameId) \in Bytes /\ Lo(h.frameId) \in Bytes
      /\ Upper(h.stream.byteLen) \in Nat
      /\ Hi(h.stream.byteLen) \in Bytes /\ Lo(h.stream.byteLen) \in Bytes
  BY <1>1, OctetsAreBytes
<1>4. /\ Hi(Upper(h.frameId)) \in Bytes /\ Lo(Upper(h.frameId)) \in Bytes
      /\ Hi(Upper(h.stream.byteLen)) \in Bytes /\ Lo(Upper(h.stream.byteLen)) \in Bytes
  BY <1>3, OctetsAreBytes
<1>5. /\ Hi(h.chunkIndex) \in Bytes /\ Lo(h.chunkIndex) \in Bytes
      /\ Hi(h.totalChunks) \in Bytes /\ Lo(h.totalChunks) \in Bytes
      /\ Hi(h.chunkLen) \in Bytes /\ Lo(h.chunkLen) \in Bytes
      /\ Hi(Magic) \in Bytes /\ Lo(Magic) \in Bytes
  BY <1>1, OctetsAreBytes
<1>6. /\ Hi(h.stream.width) \in Bytes /\ Lo(h.stream.width) \in Bytes
      /\ Hi(h.stream.height) \in Bytes /\ Lo(h.stream.height) \in Bytes
  BY <1>2, OctetsAreBytes
<1>7. \A i \in 1 .. 8 : h.captureTs[i] \in Bytes
  BY <1>1
<1>8. /\ h.captureTs[1] \in Bytes /\ h.captureTs[2] \in Bytes
      /\ h.captureTs[3] \in Bytes /\ h.captureTs[4] \in Bytes
      /\ h.captureTs[5] \in Bytes /\ h.captureTs[6] \in Bytes
      /\ h.captureTs[7] \in Bytes /\ h.captureTs[8] \in Bytes
  BY <1>7
<1>9. QED
  BY <1>1, <1>2, <1>3, <1>4, <1>5, <1>6, <1>8 DEF EncodeRaw, RawBytes

(* wire.rs:100-138 - the receiver of a raw frame reads the header that its  *)
(* sender wrote, whatever payload follows: `as u16' and `as u32' lose       *)
(* nothing of a stream that StreamSpec::new let pass.                       *)
THEOREM RawRoundTrip ==
  ASSUME NEW h \in RawPacket,
         StreamValid(h.stream.width, h.stream.height, h.stream.format),
         NEW payload \in Seq(Bytes)
  PROVE  LET d == EncodeRaw(h) \o payload
         IN  RawAccepted(d) /\ ReadRaw(d) = h
<1> DEFINE e == EncodeRaw(h)
           d == e \o payload
           id == h.frameId
           ts == h.captureTs
           width == h.stream.width
           height == h.stream.height
           len == h.stream.byteLen
<1>1. /\ h.stream = StreamSpec(width, height, h.stream.format)
      /\ width \in Word16 /\ height \in Word16 /\ h.stream.format \in Formats
  BY StreamFields
<1>2. len \in Word32
  <2>1. len = ByteLen(width, height, h.stream.format)
    BY <1>1 DEF StreamSpec
  <2>2. len \in Nat
    <3>1. width \in Nat /\ height \in Nat /\ h.stream.format \in Nat
      BY <1>1, WireAssumption DEF Word16, Formats
    <3> DEFINE area == width * height
    <3>2. area \in Nat
      BY <3>1
    <3>3. len = area * (2 * h.stream.format)
      BY <2>1 DEF ByteLen, BytesPerPixel
    <3> HIDE DEF area
    <3>4. QED BY <3>1, <3>2, <3>3
  <2>3. len <= MaxRawBytes
    BY <2>1 DEF StreamValid
  <2>4. MaxRawBytes \in Nat /\ MaxRawBytes <= Byte * Byte * Byte * Byte - 1
    BY WireAssumption DEF Word32
  <2>5. QED BY <2>2, <2>3, <2>4, WireAssumption DEF Word32
<1>3. /\ id \in Word32 /\ h.chunkIndex \in Word16 /\ h.totalChunks \in Word16
      /\ h.chunkLen \in Word16 /\ ts \in [1 .. 8 -> Bytes] /\ Magic \in Word16
  BY WireAssumption DEF RawPacket
<1>4. e \in Seq(Bytes) /\ Len(e) = 30
  BY <1>2, RawIsBytes DEF RawBytes
<1>5. d \in Seq(Bytes) /\ Len(d) = 30 + Len(payload) /\ \A i \in 1 .. 30 : d[i] = e[i]
  <2> HIDE DEF e
  <2>1. /\ d \in Seq(Bytes) /\ Len(d) = Len(e) + Len(payload)
        /\ \A i \in 1 .. Len(e) : d[i] = e[i]
    BY <1>4, FirstPart
  <2> HIDE DEF d
  <2>2. QED BY <1>4, <2>1
<1>6. /\ e[1] = Hi(Magic) /\ e[2] = Lo(Magic)
      /\ e[3] = Hi(Upper(id)) /\ e[4] = Lo(Upper(id)) /\ e[5] = Hi(id) /\ e[6] = Lo(id)
      /\ e[7] = ts[1] /\ e[8] = ts[2] /\ e[9] = ts[3] /\ e[10] = ts[4]
      /\ e[11] = ts[5] /\ e[12] = ts[6] /\ e[13] = ts[7] /\ e[14] = ts[8]
  BY DEF EncodeRaw
<1>7. /\ e[15] = Hi(width) /\ e[16] = Lo(width) /\ e[17] = Hi(height) /\ e[18] = Lo(height)
      /\ e[19] = h.stream.format
      /\ e[20] = Hi(Upper(len)) /\ e[21] = Lo(Upper(len)) /\ e[22] = Hi(len) /\ e[23] = Lo(len)
  BY DEF EncodeRaw
<1>8. /\ e[24] = Hi(h.chunkIndex) /\ e[25] = Lo(h.chunkIndex)
      /\ e[26] = Hi(h.totalChunks) /\ e[27] = Lo(h.totalChunks)
      /\ e[28] = Hi(h.chunkLen) /\ e[29] = Lo(h.chunkLen) /\ e[30] = h.flags
  BY DEF EncodeRaw
<1> HIDE DEF e, d, id, ts, width, height, len
<1>9. Word16At(d, 0) = Magic /\ Word32At(d, 2) = id
  <2>1. /\ d[1] = e[1] /\ d[2] = e[2] /\ d[3] = e[3] /\ d[4] = e[4]
        /\ d[5] = e[5] /\ d[6] = e[6]
    BY <1>5
  <2>2. /\ d[1] = Hi(Magic) /\ d[2] = Lo(Magic)
        /\ d[3] = Hi(Upper(id)) /\ d[4] = Lo(Upper(id)) /\ d[5] = Hi(id) /\ d[6] = Lo(id)
    BY <2>1, <1>6
  <2>3. QED BY <1>3, <2>2, Word16Value, Word32Value DEF Word32At, Word16At
<1>10. Word16At(d, 14) = width /\ Word16At(d, 16) = height /\ Word32At(d, 19) = len
  <2>1. /\ d[15] = e[15] /\ d[16] = e[16] /\ d[17] = e[17] /\ d[18] = e[18]
        /\ d[19] = e[19] /\ d[20] = e[20] /\ d[21] = e[21] /\ d[22] = e[22]
        /\ d[23] = e[23]
    BY <1>5
  <2>2. /\ d[15] = Hi(width) /\ d[16] = Lo(width) /\ d[17] = Hi(height) /\ d[18] = Lo(height)
        /\ d[20] = Hi(Upper(len)) /\ d[21] = Lo(Upper(len)) /\ d[22] = Hi(len) /\ d[23] = Lo(len)
    BY <2>1, <1>7
  <2>3. QED BY <1>1, <1>2, <2>2, Word16Value, Word32Value DEF Word32At, Word16At
<1>11. /\ Word16At(d, 23) = h.chunkIndex /\ Word16At(d, 25) = h.totalChunks
       /\ Word16At(d, 27) = h.chunkLen
  <2>1. /\ d[24] = e[24] /\ d[25] = e[25] /\ d[26] = e[26] /\ d[27] = e[27]
        /\ d[28] = e[28] /\ d[29] = e[29] /\ d[30] = e[30]
    BY <1>5
  <2>2. /\ d[24] = Hi(h.chunkIndex) /\ d[25] = Lo(h.chunkIndex)
        /\ d[26] = Hi(h.totalChunks) /\ d[27] = Lo(h.totalChunks)
        /\ d[28] = Hi(h.chunkLen) /\ d[29] = Lo(h.chunkLen)
    BY <2>1, <1>8
  <2>3. QED BY <1>3, <2>2, Word16Value DEF Word16At
<1>12. d[19] = h.stream.format /\ d[30] = h.flags
  BY <1>5, <1>7, <1>8
<1>13. [i \in 1 .. 8 |-> d[6 + i]] = ts
  <2>1. /\ d[7] = e[7] /\ d[8] = e[8] /\ d[9] = e[9] /\ d[10] = e[10]
        /\ d[11] = e[11] /\ d[12] = e[12] /\ d[13] = e[13] /\ d[14] = e[14]
    BY <1>5
  <2>2. /\ d[6 + 1] = ts[1] /\ d[6 + 2] = ts[2] /\ d[6 + 3] = ts[3] /\ d[6 + 4] = ts[4]
        /\ d[6 + 5] = ts[5] /\ d[6 + 6] = ts[6] /\ d[6 + 7] = ts[7] /\ d[6 + 8] = ts[8]
    BY <2>1, <1>6
  <2>3. ASSUME NEW i \in 1 .. 8 PROVE d[6 + i] = ts[i]
    <3>1. i = 1 \/ i = 2 \/ i = 3 \/ i = 4 \/ i = 5 \/ i = 6 \/ i = 7 \/ i = 8
      OBVIOUS
    <3>2. QED BY <2>2, <3>1
  <2>4. QED BY <1>3, <2>3
<1>14. RawStreamAt(d) = h.stream
  BY <1>1, <1>10, <1>12 DEF RawStreamAt
<1>15. ReadRaw(d) = h
  BY <1>9, <1>11, <1>12, <1>13, <1>14 DEF ReadRaw, RawPacket, id, ts
<1>16. RawAccepted(d)
  <2>1. Len(d) >= 30
    BY <1>5
  <2>2. QED BY <1>1, <1>9, <1>10, <1>12, <1>14, <2>1
              DEF RawAccepted, RawBytes, len, width, height
<1>17. QED BY <1>15, <1>16 DEF d, e

-----------------------------------------------------------------------------
(* FrameEcho                                                               *)

(* wire.rs:150-169 - a receipt comes out as it went in, and no shorter or   *)
(* longer datagram is taken for one.                                        *)
THEOREM EchoRoundTrip ==
  ASSUME NEW e \in Echo
  PROVE  EchoAccepted(EncodeEcho(e)) /\ ReadEcho(EncodeEcho(e)) = e
<1> DEFINE b == EncodeEcho(e)
           ts == e.captureTs
<1>1. /\ e.frameId \in Word32 /\ e.spreadUs \in Word32 /\ e.decodeUs \in Word32
      /\ ts \in [1 .. 8 -> Bytes]
  BY DEF Echo
<1>2. Len(b) = 20
  BY DEF EncodeEcho
<1>3. /\ b[1] = Hi(Upper(e.frameId)) /\ b[2] = Lo(Upper(e.frameId))
      /\ b[3] = Hi(e.frameId) /\ b[4] = Lo(e.frameId)
      /\ b[13] = Hi(Upper(e.spreadUs)) /\ b[14] = Lo(Upper(e.spreadUs))
      /\ b[15] = Hi(e.spreadUs) /\ b[16] = Lo(e.spreadUs)
      /\ b[17] = Hi(Upper(e.decodeUs)) /\ b[18] = Lo(Upper(e.decodeUs))
      /\ b[19] = Hi(e.decodeUs) /\ b[20] = Lo(e.decodeUs)
  BY DEF EncodeEcho
<1>4. /\ b[5] = ts[1] /\ b[6] = ts[2] /\ b[7] = ts[3] /\ b[8] = ts[4]
      /\ b[9] = ts[5] /\ b[10] = ts[6] /\ b[11] = ts[7] /\ b[12] = ts[8]
  BY DEF EncodeEcho
<1> HIDE DEF b, ts
<1>5. /\ Word32At(b, 0) = e.frameId /\ Word32At(b, 12) = e.spreadUs
      /\ Word32At(b, 16) = e.decodeUs
  BY <1>1, <1>3, Word32Value DEF Word32At, Word16At
<1>6. [i \in 1 .. 8 |-> b[4 + i]] = ts
  <2>1. /\ b[4 + 1] = ts[1] /\ b[4 + 2] = ts[2] /\ b[4 + 3] = ts[3] /\ b[4 + 4] = ts[4]
        /\ b[4 + 5] = ts[5] /\ b[4 + 6] = ts[6] /\ b[4 + 7] = ts[7] /\ b[4 + 8] = ts[8]
    BY <1>4
  <2>2. ASSUME NEW i \in 1 .. 8 PROVE b[4 + i] = ts[i]
    <3>1. i = 1 \/ i = 2 \/ i = 3 \/ i = 4 \/ i = 5 \/ i = 6 \/ i = 7 \/ i = 8
      OBVIOUS
    <3>2. QED BY <2>1, <3>1
  <2>3. QED BY <1>1, <2>2
<1>7. ReadEcho(b) = e
  BY <1>5, <1>6 DEF ReadEcho, Echo, ts
<1>8. QED BY <1>2, <1>7 DEF EchoAccepted, EchoBytes, b

-----------------------------------------------------------------------------
(* Both receivers bind port 5000                                           *)

(* wire.rs:6, config.rs:16 - "so it cannot be mistaken": whatever bytes     *)
(* arrive, the H.264 receiver and the raw receiver do not both accept them. *)
THEOREM NoDatagramOfBoth ==
  ASSUME NEW d, PacketAccepted(d)
  PROVE  ~RawAccepted(d)
<1>1. d[1] = Signature[1] /\ d[2] = Signature[2]
  BY DEF PacketAccepted
<1>2. d[0 + 1] = Signature[1] /\ d[0 + 2] = Signature[2]
  BY <1>1
<1>3. Word16At(d, 0) # Magic
  BY <1>2, WireAssumption DEF Word16At
<1>4. QED BY <1>3 DEF RawAccepted

-----------------------------------------------------------------------------
(* Chunks of a frame                                                       *)

LEMMA PayloadType == MaxPayload \in Nat /\ MaxPayload > 0 /\ MaxPayload \in Word16
  BY DatagramsAssumption, WireAssumption DEF Word16

LEMMA ChunkCountType ==
  ASSUME NEW bytes \in Seq(Bytes)
  PROVE  ChunkCount(bytes) \in Nat
<1>1. Len(bytes) + MaxPayload - 1 \in Nat
  BY PayloadType
<1>2. QED BY <1>1, PayloadType, Division DEF ChunkCount

(* `chunks' never gives an empty chunk, nor one above MAX_CHUNK_PAYLOAD.    *)
LEMMA ChunkBounds ==
  ASSUME NEW bytes \in Seq(Bytes), NEW i \in 0 .. ChunkCount(bytes) - 1
  PROVE  /\ i * MaxPayload \in Nat /\ i * MaxPayload < ChunkEnd(bytes, i)
         /\ ChunkEnd(bytes, i) \in Nat /\ ChunkEnd(bytes, i) <= Len(bytes)
         /\ ChunkEnd(bytes, i) <= i * MaxPayload + MaxPayload
<1> DEFINE n == Len(bytes) + MaxPayload - 1
           q == ChunkCount(bytes)
<1>1. Len(bytes) \in Nat /\ n \in Nat /\ q \in Nat /\ i \in Nat /\ i < q
  BY PayloadType, ChunkCountType
<1>2. q * MaxPayload <= n
  <2>1. n = (n \div MaxPayload) * MaxPayload + (n % MaxPayload) /\ n % MaxPayload \in Nat
    BY <1>1, PayloadType, Division
  <2>2. q = n \div MaxPayload
    BY DEF ChunkCount
  <2> HIDE DEF n, q
  <2>3. q * MaxPayload \in Nat
    BY <1>1, PayloadType
  <2>4. QED BY <1>1, <2>1, <2>2, <2>3
<1> HIDE DEF q
<1>3. (i + 1) * MaxPayload <= q * MaxPayload
  <2>1. PICK k \in Nat : q = (i + 1) + k
    <3>1. q - (i + 1) \in Nat /\ q = (i + 1) + (q - (i + 1))
      BY <1>1
    <3>2. QED BY <3>1
  <2>2. q * MaxPayload = (i + 1) * MaxPayload + k * MaxPayload
    BY <1>1, <2>1, PayloadType
  <2>3. k * MaxPayload \in Nat /\ (i + 1) * MaxPayload \in Nat
    BY <1>1, PayloadType
  <2>4. QED BY <2>2, <2>3
<1>4. (i + 1) * MaxPayload = i * MaxPayload + MaxPayload /\ i * MaxPayload \in Nat
  BY <1>1, PayloadType
<1>5. i * MaxPayload < Len(bytes)
  BY <1>1, <1>2, <1>3, <1>4, PayloadType
<1>6. CASE (i + 1) * MaxPayload < Len(bytes)
  <2>1. ChunkEnd(bytes, i) = i * MaxPayload + MaxPayload
    BY <1>4, <1>6 DEF ChunkEnd
  <2>2. QED BY <1>1, <1>4, <1>6, <2>1, PayloadType
<1>7. CASE ~((i + 1) * MaxPayload < Len(bytes))
  <2>1. ChunkEnd(bytes, i) = Len(bytes)
    BY <1>7 DEF ChunkEnd
  <2>2. QED BY <1>1, <1>4, <1>5, <1>7, <2>1, PayloadType
<1>8. QED BY <1>6, <1>7

LEMMA ChunkType ==
  ASSUME NEW bytes \in Seq(Bytes), NEW i \in 0 .. ChunkCount(bytes) - 1
  PROVE  /\ Chunk(bytes, i) \in Seq(Bytes) /\ Chunk(bytes, i) # <<>>
         /\ Len(Chunk(bytes, i)) \in 1 .. MaxPayload
<1> DEFINE p == i * MaxPayload
           m == p + 1
           n == ChunkEnd(bytes, i)
           c == SubSeq(bytes, m, n)
<1>1. /\ p \in Nat /\ n \in Nat /\ p < n /\ n <= Len(bytes) /\ n <= p + MaxPayload
  BY ChunkBounds
<1>2. c = Chunk(bytes, i)
  BY DEF Chunk
<1> HIDE DEF p, n, c
<1>3. /\ m \in Nat /\ n \in Nat /\ m >= 1 /\ m <= n /\ n <= Len(bytes)
      /\ n - m + 1 \in 1 .. MaxPayload
  BY <1>1, PayloadType
<1> HIDE DEF m
<1>4. \A j \in m .. n : bytes[j] \in Bytes
  BY <1>3
<1>5. c \in Seq(Bytes) /\ Len(c) = IF m <= n THEN n - m + 1 ELSE 0
  BY <1>3, <1>4, SubSeqProperties DEF c
<1>6. Len(c) \in 1 .. MaxPayload
  BY <1>3, <1>5
<1>7. c # <<>>
  BY <1>6
<1>8. QED BY <1>5, <1>2, <1>6, <1>7

-----------------------------------------------------------------------------
(* Datagrams and the frames they were cut from                             *)

\* A fragment that was cut from a frame.
CutFrom(f, s) ==
  /\ f.id = s.id /\ f.shape = s.shape
  /\ f.total = ChunkCount(s.bytes)
  /\ f.index \in 0 .. ChunkCount(s.bytes) - 1
  /\ f.payload = Chunk(s.bytes, f.index)

LEMMA ChunkFields ==
  ASSUME NEW bytes \in Seq(Bytes), ChunkCount(bytes) \in 1 .. Byte * Byte - 1,
         NEW i \in 0 .. ChunkCount(bytes) - 1
  PROVE  /\ i \in Word16 /\ ChunkCount(bytes) \in Word16 /\ i < ChunkCount(bytes)
         /\ Len(Chunk(bytes, i)) \in Word16
<1>1. i \in Word16 /\ ChunkCount(bytes) \in Word16 /\ i < ChunkCount(bytes)
  BY ByteType DEF Word16
<1>2. Len(Chunk(bytes, i)) \in 1 .. MaxPayload
  BY ChunkType
<1>3. Len(Chunk(bytes, i)) \in Word16
  BY <1>2, PayloadType, ByteType DEF Word16
<1>4. QED BY <1>1, <1>3

LEMMA AccessUnitOrigin ==
  ASSUME NEW id \in Ids, NEW unit \in Units,
         ChunkCount(unit.bytes) \in 1 .. Byte * Byte - 1,
         NEW d \in AccessUnitDatagrams(id, unit)
  PROVE  /\ ~RawAccepted(d)
         /\ CutFrom(AccessUnitFragment(d), [protocol |-> "h264", id |-> id,
                                            shape |-> unit.shape, bytes |-> unit.bytes])
<1> DEFINE total == ChunkCount(unit.bytes)
<1>1. /\ unit.bytes \in Seq(Bytes) /\ unit.shape \in [flags : Bytes] /\ id \in Word32
  BY DatagramsAssumption
<1>2. PICK i \in 0 .. total - 1 :
        d = EncodePacket([flags |-> unit.shape.flags, frameId |-> id, chunkIndex |-> i,
                          totalChunks |-> total]) \o Chunk(unit.bytes, i)
  BY DEF AccessUnitDatagrams
<1> DEFINE h == [flags |-> unit.shape.flags, frameId |-> id, chunkIndex |-> i,
                 totalChunks |-> total]
<1>3. i \in Word16 /\ total \in Word16 /\ i < total
  BY <1>1, ChunkFields
<1> HIDE DEF total
<1>4. h \in Packet /\ h.chunkIndex < h.totalChunks
  BY <1>1, <1>3 DEF Packet
<1>5. Chunk(unit.bytes, i) \in Seq(Bytes) /\ Chunk(unit.bytes, i) # <<>>
  BY <1>1, <1>2, ChunkType DEF total
<1>6. DatagramAccepted(d) /\ ReadPacket(d) = h /\ PacketPayload(d) = Chunk(unit.bytes, i)
  <2> HIDE DEF h
  <2>1. d = EncodePacket(h) \o Chunk(unit.bytes, i)
    BY <1>2 DEF h, total
  <2>2. QED BY <1>4, <1>5, <2>1, PacketRoundTrip
<1>7. ~RawAccepted(d)
  BY <1>6, NoDatagramOfBoth DEF DatagramAccepted
<1>8. unit.shape = [flags |-> unit.shape.flags]
  BY <1>1
<1>9. /\ AccessUnitFragment(d).id = h.frameId
      /\ AccessUnitFragment(d).shape = [flags |-> h.flags]
      /\ AccessUnitFragment(d).total = h.totalChunks
      /\ AccessUnitFragment(d).index = h.chunkIndex
      /\ AccessUnitFragment(d).payload = Chunk(unit.bytes, i)
  BY <1>6 DEF AccessUnitFragment
<1>10. QED BY <1>2, <1>7, <1>8, <1>9 DEF total, CutFrom

LEMMA RawFrameOrigin ==
  ASSUME NEW id \in Ids, NEW image \in Images, NEW time \in CaptureTimes,
         ChunkCount(image.bytes) \in 1 .. Byte * Byte - 1,
         NEW d \in RawFrameDatagrams(id, image, time)
  PROVE  /\ ~DatagramAccepted(d)
         /\ CutFrom(RawFragment(d), [protocol |-> "raw", id |-> id,
                                     shape |-> image.stream, bytes |-> image.bytes])
<1> DEFINE total == ChunkCount(image.bytes)
<1>1. /\ image.bytes \in Seq(Bytes) /\ id \in Word32 /\ time \in [1 .. 8 -> Bytes]
  BY DatagramsAssumption
<1>2. PICK width \in Word16, height \in Word16, format \in Formats :
        /\ StreamValid(width, height, format)
        /\ image.stream = StreamSpec(width, height, format)
  BY DatagramsAssumption
<1>3. PICK i \in 0 .. total - 1 :
        d = EncodeRaw([frameId |-> id, captureTs |-> time, stream |-> image.stream,
                       chunkIndex |-> i, totalChunks |-> total,
                       chunkLen |-> Len(Chunk(image.bytes, i)), flags |-> 1])
              \o Chunk(image.bytes, i)
  BY DEF RawFrameDatagrams
<1> DEFINE len == Len(Chunk(image.bytes, i))
           h == [frameId |-> id, captureTs |-> time, stream |-> image.stream,
                 chunkIndex |-> i, totalChunks |-> total, chunkLen |-> len, flags |-> 1]
<1>4. i \in Word16 /\ total \in Word16 /\ len \in Word16
  BY <1>1, ChunkFields
<1>5. Chunk(image.bytes, i) \in Seq(Bytes)
  BY <1>1, <1>3, ChunkType
<1>6. 1 \in Bytes
  BY WireAssumption DEF Bytes
<1>7. d = EncodeRaw(h) \o Chunk(image.bytes, i)
  BY <1>3
<1> HIDE DEF total, len
<1>8. h \in RawPacket
  BY <1>1, <1>2, <1>4, <1>6 DEF RawPacket
<1>9. StreamValid(h.stream.width, h.stream.height, h.stream.format)
  <2>1. /\ h.stream.width = width /\ h.stream.height = height /\ h.stream.format = format
    BY <1>2 DEF StreamSpec
  <2>2. QED BY <1>2, <2>1
<1>10. RawAccepted(d) /\ ReadRaw(d) = h
  <2> HIDE DEF h
  <2>1. QED BY <1>5, <1>7, <1>8, <1>9, RawRoundTrip
<1>11. ~DatagramAccepted(d)
  BY <1>10, NoDatagramOfBoth DEF DatagramAccepted
<1>12. RawFragment(d).payload = Chunk(image.bytes, i)
  <2> DEFINE c == Chunk(image.bytes, i)
             e == EncodeRaw(h)
  <2>1. h.stream.byteLen \in Word32
    <3>1. h.stream.byteLen = ByteLen(width, height, format)
      BY <1>2 DEF StreamSpec
    <3>2. ByteLen(width, height, format) \in Nat
      BY WireAssumption DEF ByteLen, BytesPerPixel, Word16, Formats
    <3>3. ByteLen(width, height, format) <= MaxRawBytes
      BY <1>2 DEF StreamValid
    <3>4. QED BY <3>1, <3>2, <3>3, WireAssumption DEF Word32
  <2>2. e \in Seq(Bytes) /\ Len(e) = 30
    BY <1>8, <2>1, RawIsBytes DEF RawBytes
  <2> HIDE DEF e, c
  <2>3. c \in Seq(Bytes) /\ d = e \o c
    BY <1>5, <1>7 DEF c, e
  <2>4. Len(d) = 30 + Len(c)
    <3> HIDE DEF h
    <3>1. Len(e \o c) = Len(e) + Len(c)
      BY <2>2, <2>3, FirstPart
    <3>2. QED BY <2>2, <2>3, <3>1
  <2>5. SubSeq(d, 30 + 1, Len(d)) = c
    BY <2>2, <2>3, SecondPart
  <2>6. ReadRaw(d).chunkLen = Len(c)
    BY <1>10 DEF c, len
  <2>7. RawFragment(d).payload = SubSeq(d, 30 + 1, 30 + Len(c))
    BY <2>6 DEF RawFragment, RawBytes
  <2>8. QED BY <2>4, <2>5, <2>7 DEF c
<1>13. /\ RawFragment(d).id = h.frameId /\ RawFragment(d).shape = h.stream
       /\ RawFragment(d).total = h.totalChunks /\ RawFragment(d).index = h.chunkIndex
  BY <1>10 DEF RawFragment
<1>14. QED BY <1>3, <1>11, <1>12, <1>13 DEF total, CutFrom

-----------------------------------------------------------------------------
(* The receive buffer                                                      *)

LEMMA WrittenAt ==
  ASSUME NEW buf \in Seq(Bytes), NEW payload \in Seq(Bytes), NEW offset \in Nat,
         offset + Len(payload) <= Len(buf)
  PROVE  /\ Written(buf, offset, payload) \in Seq(Bytes)
         /\ Len(Written(buf, offset, payload)) = Len(buf)
         /\ \A k \in 1 .. Len(buf) :
              Written(buf, offset, payload)[k] =
                IF k \in offset + 1 .. offset + Len(payload)
                THEN payload[k - offset] ELSE buf[k]
<1> DEFINE n == Len(payload)
           rest == offset + n + 1
           a == SubSeq(buf, 1, offset)
           b == SubSeq(buf, rest, Len(buf))
<1>1. Len(buf) \in Nat /\ n \in Nat /\ rest \in Nat /\ rest >= 1
      /\ rest = offset + n + 1 /\ rest <= Len(buf) + 1
  OBVIOUS
<1>2. \A i \in 1 .. Len(buf) : buf[i] \in Bytes
  OBVIOUS
<1>3. a \in Seq(Bytes) /\ Len(a) = offset /\ \A i \in 1 .. offset : a[i] = buf[i]
  <2> HIDE DEF n, rest
  <2>1. \A i \in 1 .. offset : buf[i] \in Bytes
    BY <1>1, <1>2 DEF n
  <2>2. /\ a \in Seq(Bytes) /\ Len(a) = IF 1 <= offset THEN offset - 1 + 1 ELSE 0
        /\ \A i \in 1 .. offset - 1 + 1 : a[i] = buf[1 + i - 1]
    BY <2>1, SubSeqProperties
  <2> HIDE DEF a
  <2>3. QED BY <2>2
<1>4. /\ b \in Seq(Bytes) /\ Len(b) = Len(buf) - rest + 1
      /\ \A i \in 1 .. Len(buf) - rest + 1 : b[i] = buf[rest + i - 1]
  <2> HIDE DEF rest, n
  <2>1. \A i \in rest .. Len(buf) : buf[i] \in Bytes
    BY <1>1, <1>2
  <2>2. /\ b \in Seq(Bytes)
        /\ Len(b) = IF rest <= Len(buf) THEN Len(buf) - rest + 1 ELSE 0
        /\ \A i \in 1 .. Len(buf) - rest + 1 : b[i] = buf[rest + i - 1]
    BY <1>1, <2>1, SubSeqProperties
  <2> HIDE DEF b
  <2>3. QED BY <1>1, <2>2
<1> DEFINE c == a \o payload
           w == c \o b
<1>5. w = Written(buf, offset, payload)
  BY DEF Written
<1> HIDE DEF a, b, rest
<1>6. /\ c \in Seq(Bytes) /\ Len(c) = offset + n
      /\ \A k \in 1 .. offset + n : c[k] = IF k <= offset THEN a[k] ELSE payload[k - offset]
  BY <1>3, ConcatProperties
<1> HIDE DEF c
<1>7. /\ w \in Seq(Bytes) /\ Len(w) = Len(c) + Len(b)
      /\ \A k \in 1 .. Len(c) + Len(b) : w[k] = IF k <= Len(c) THEN c[k] ELSE b[k - Len(c)]
  BY <1>4, <1>6, ConcatProperties
<1> HIDE DEF w, n
<1>8. Len(w) = Len(buf)
  BY <1>1, <1>4, <1>6, <1>7
<1>9. ASSUME NEW k \in 1 .. Len(buf)
      PROVE  w[k] = IF k \in offset + 1 .. offset + n THEN payload[k - offset] ELSE buf[k]
  <2>1. CASE k <= offset
    BY <1>1, <1>3, <1>6, <1>7, <1>8, <2>1
  <2>2. CASE k > offset /\ k <= offset + n
    <3>1. k \in 1 .. Len(c) /\ k \in offset + 1 .. offset + n
      BY <1>1, <1>6, <2>2
    <3>2. w[k] = c[k]
      BY <1>1, <1>7, <1>8, <3>1
    <3>3. c[k] = payload[k - offset]
      BY <1>1, <1>6, <2>2, <3>1
    <3>4. QED BY <3>1, <3>2, <3>3
  <2>3. CASE k > offset + n
    <3> DEFINE j == k - (offset + n)
    <3>1. w[k] = b[j] /\ j \in 1 .. Len(buf) - rest + 1 /\ rest + j - 1 = k
      BY <1>1, <1>6, <1>7, <1>8, <2>3
    <3> HIDE DEF j
    <3>2. w[k] = buf[k]
      BY <1>4, <3>1
    <3>3. QED BY <1>1, <2>3, <3>2
  <2>4. QED BY <1>1, <2>1, <2>2, <2>3
<1>10. QED BY <1>5, <1>7, <1>8, <1>9 DEF n

LEMMA ResizedRoom ==
  ASSUME NEW buf \in Seq(Bytes), NEW total \in Nat
  PROVE  /\ Resized(buf, total) \in Seq(Bytes)
         /\ Len(Resized(buf, total)) >= total * MaxPayload
<1> DEFINE n == total * MaxPayload - Len(buf)
           m == IF n > 0 THEN n ELSE 0
           zeros == [k \in 1 .. n |-> 0]
<1>1. n \in Int /\ total * MaxPayload \in Nat /\ Len(buf) \in Nat
  BY PayloadType
<1>2. m \in Nat /\ 1 .. n = 1 .. m /\ m >= n
  <2> HIDE DEF n
  <2>1. QED BY <1>1
<1>3. 0 \in Bytes
  BY WireAssumption DEF Bytes
<1>4. zeros = [k \in 1 .. m |-> 0]
  BY <1>2
<1>5. Resized(buf, total) = buf \o zeros
  BY DEF Resized
<1> HIDE DEF m, zeros
<1>6. zeros \in Seq(Bytes) /\ Len(zeros) = m
  BY <1>2, <1>3, <1>4
<1>7. buf \o zeros \in Seq(Bytes) /\ Len(buf \o zeros) = Len(buf) + m
  BY <1>6, ConcatProperties
<1>8. QED BY <1>1, <1>2, <1>5, <1>7

-----------------------------------------------------------------------------
(* A frame and its chunks                                                  *)

(* Every byte of a frame lies in one of its chunks, and the last chunk ends *)
(* with the frame.                                                         *)
LEMMA ChunkTotal ==
  ASSUME NEW bytes \in Seq(Bytes)
  PROVE  Len(bytes) <= ChunkCount(bytes) * MaxPayload
<1> DEFINE P == MaxPayload
           n == Len(bytes) + P - 1
           q == ChunkCount(bytes)
<1>1. Len(bytes) \in Nat /\ P \in Nat /\ P > 0 /\ q \in Nat
  BY PayloadType, ChunkCountType
<1>2. n \in Nat /\ q = n \div P
  BY <1>1 DEF ChunkCount
<1>3. n = Len(bytes) + P - 1
  OBVIOUS
<1> HIDE DEF n, P, q
<1>4. n = (n \div P) * P + (n % P) /\ n % P \in 0 .. P - 1
  BY <1>1, <1>2, Division
<1>5. q * P \in Nat /\ n % P \in Nat /\ n % P <= P - 1 /\ n = q * P + (n % P)
  BY <1>1, <1>2, <1>4
<1>6. Len(bytes) <= q * P
  BY <1>1, <1>3, <1>5
<1>7. QED BY <1>6 DEF q, P

LEMMA ChunkOfByte ==
  ASSUME NEW bytes \in Seq(Bytes), NEW k \in 1 .. Len(bytes)
  PROVE  \E i \in 0 .. ChunkCount(bytes) - 1 :
           k \in i * MaxPayload + 1 .. ChunkEnd(bytes, i)
<1> DEFINE P == MaxPayload
           i == (k - 1) \div P
           q == ChunkCount(bytes)
<1>1. /\ Len(bytes) \in Nat /\ P \in Nat /\ P > 0 /\ k - 1 \in Nat /\ q \in Nat
      /\ k \in Nat /\ k <= Len(bytes)
  BY PayloadType, ChunkCountType
<1>2. /\ i \in Nat /\ k - 1 = i * P + ((k - 1) % P)
      /\ (k - 1) % P \in 0 .. P - 1
  <2> HIDE DEF P
  <2>1. QED BY <1>1, Division
<1>3. Len(bytes) <= q * P
  BY ChunkTotal
<1> HIDE DEF P, i, q
<1>4. i * P \in Nat /\ (i + 1) * P = i * P + P
  BY <1>1, <1>2
<1>5. i * P < Len(bytes) /\ i * P + 1 <= k /\ k <= i * P + P
  BY <1>1, <1>2, <1>4
<1>6. i < q
  <2>1. SUFFICES ASSUME q <= i PROVE FALSE
    BY <1>1, <1>2
  <2>2. PICK j \in Nat : i = q + j
    <3>1. i - q \in Nat /\ i = q + (i - q)
      BY <1>1, <1>2, <2>1
    <3>2. QED BY <3>1
  <2>3. i * P = q * P + j * P /\ j * P \in Nat /\ q * P \in Nat
    BY <1>1, <2>2
  <2>4. QED BY <1>1, <1>3, <1>5, <2>3
<1>7. k <= ChunkEnd(bytes, i)
  BY <1>1, <1>4, <1>5 DEF ChunkEnd, P
<1>8. i \in 0 .. q - 1
  BY <1>1, <1>2, <1>6
<1>9. ChunkEnd(bytes, i) \in Nat
  BY <1>8, ChunkBounds DEF q
<1>10. k \in i * P + 1 .. ChunkEnd(bytes, i)
  BY <1>1, <1>4, <1>5, <1>7, <1>9
<1>11. QED BY <1>8, <1>10 DEF P, q

-----------------------------------------------------------------------------
(* A reassembler that holds chunks of a frame                              *)

RecordOK(r) ==
  /\ DOMAIN r = {"frameId", "shape", "total", "received", "buf", "bytes"}
  /\ r.buf \in Seq(Bytes)

ChunksInPlace(r, bytes) ==
  \A i \in r.received : \A k \in i * MaxPayload + 1 .. ChunkEnd(bytes, i) :
    r.buf[k] = bytes[k]

HoldsPart(r, s) ==
  /\ r.frameId = s.id /\ r.shape = s.shape /\ r.total = ChunkCount(s.bytes)
  /\ r.received \subseteq 0 .. ChunkCount(s.bytes) - 1
  /\ Len(r.buf) >= ChunkCount(s.bytes) * MaxPayload
  /\ ChunksInPlace(r, s.bytes)
  /\ r.bytes \in Nat /\ r.bytes <= Len(s.bytes)
  /\ \A i \in r.received : ChunkEnd(s.bytes, i) <= r.bytes

(* `reset' begins with a buffer that holds no chunk of the new frame.       *)
LEMMA ResetHolds ==
  ASSUME NEW r, RecordOK(r), NEW f, NEW s, s.bytes \in Seq(Bytes), CutFrom(f, s)
  PROVE  RecordOK(Grown(Reset(r, f))) /\ HoldsPart(Grown(Reset(r, f)), s)
<1> DEFINE r1 == Reset(r, f)
           r2 == Grown(r1)
           total == ChunkCount(s.bytes)
<1>1. /\ DOMAIN r1 = DOMAIN r /\ r1.frameId = f.id /\ r1.shape = f.shape
      /\ r1.total = f.total /\ r1.received = {} /\ r1.buf = r.buf
  BY DEF Reset, RecordOK
<1>2. /\ DOMAIN r2 = DOMAIN r /\ r2.frameId = f.id /\ r2.shape = f.shape
      /\ r2.total = f.total /\ r2.received = {} /\ r2.bytes = 0
      /\ r2.buf = Resized(r.buf, f.total)
  <2>1. DOMAIN r1 = {"frameId", "shape", "total", "received", "buf", "bytes"}
    BY <1>1 DEF RecordOK
  <2> HIDE DEF r1
  <2>2. QED BY <1>1, <2>1 DEF Grown
<1>3. f.id = s.id /\ f.shape = s.shape /\ f.total = total /\ total \in Nat
  BY ChunkCountType DEF CutFrom
<1>4. Resized(r.buf, total) \in Seq(Bytes) /\ Len(Resized(r.buf, total)) >= total * MaxPayload
  BY <1>3, ResizedRoom DEF RecordOK
<1> HIDE DEF r2, r1
<1>5. RecordOK(r2)
  BY <1>2, <1>3, <1>4 DEF RecordOK
<1>6. HoldsPart(r2, s)
  <2>1. /\ r2.frameId = s.id /\ r2.shape = s.shape /\ r2.total = total
        /\ r2.received = {} /\ r2.buf = Resized(r.buf, total) /\ r2.bytes = 0
    BY <1>2, <1>3
  <2>2. 0 <= Len(s.bytes)
    OBVIOUS
  <2>3. QED BY <1>4, <2>1, <2>2 DEF HoldsPart, ChunksInPlace
<1>7. QED BY <1>5, <1>6 DEF r2, r1

(* `add' puts the chunk where it belongs and leaves the others alone.       *)
LEMMA PlacedHolds ==
  ASSUME NEW r, RecordOK(r), NEW f, NEW s, s.bytes \in Seq(Bytes), CutFrom(f, s),
         HoldsPart(r, s)
  PROVE  RecordOK(Placed(r, f)) /\ HoldsPart(Placed(r, f), s)
<1> DEFINE i == f.index
           offset == i * MaxPayload
           end == ChunkEnd(s.bytes, i)
           w == Written(r.buf, offset, f.payload)
           r1 == Placed(r, f)
           total == ChunkCount(s.bytes)
<1>1. i \in 0 .. total - 1 /\ f.payload = Chunk(s.bytes, i)
  BY DEF CutFrom
<1>2. /\ offset \in Nat /\ offset < end /\ end \in Nat /\ end <= Len(s.bytes)
      /\ end <= offset + MaxPayload
  BY <1>1, ChunkBounds
<1>3. /\ f.payload \in Seq(Bytes) /\ Len(f.payload) = end - offset
      /\ \A j \in 1 .. end - offset : f.payload[j] = s.bytes[offset + j]
  <2>1. f.payload = SubSeq(s.bytes, offset + 1, end)
    BY <1>1 DEF Chunk
  <2> HIDE DEF offset, end
  <2>2. \A j \in offset + 1 .. end : s.bytes[j] \in Bytes
    BY <1>2
  <2>3. /\ f.payload \in Seq(Bytes)
        /\ Len(f.payload) = IF offset + 1 <= end THEN end - (offset + 1) + 1 ELSE 0
        /\ \A j \in 1 .. end - (offset + 1) + 1 :
             f.payload[j] = s.bytes[offset + 1 + j - 1]
    BY <1>2, <2>1, <2>2, SubSeqProperties
  <2>4. QED BY <1>2, <2>3
<1>4. end <= Len(r.buf) /\ Len(r.buf) \in Nat /\ r.buf \in Seq(Bytes)
  <2>1. r.buf \in Seq(Bytes) /\ Len(r.buf) >= total * MaxPayload /\ Len(r.buf) \in Nat
    BY DEF RecordOK, HoldsPart
  <2>2. total * MaxPayload >= Len(s.bytes)
    BY ChunkTotal
  <2>3. total * MaxPayload \in Nat
    BY ChunkCountType, PayloadType
  <2> HIDE DEF end, total
  <2>4. QED BY <1>2, <2>1, <2>2, <2>3
<1>5. offset + Len(f.payload) = end
  <2> HIDE DEF offset, end
  <2>1. QED BY <1>2, <1>3
<1>6. PayloadEnd(f) = end
  BY <1>5 DEF PayloadEnd
<1> HIDE DEF end, offset
<1>7. /\ w \in Seq(Bytes) /\ Len(w) = Len(r.buf)
      /\ \A k \in 1 .. Len(r.buf) :
           w[k] = IF k \in offset + 1 .. end THEN f.payload[k - offset] ELSE r.buf[k]
  <2>1. offset + Len(f.payload) <= Len(r.buf)
    BY <1>4, <1>5
  <2> HIDE DEF w
  <2>2. /\ Written(r.buf, offset, f.payload) \in Seq(Bytes)
        /\ Len(Written(r.buf, offset, f.payload)) = Len(r.buf)
        /\ \A k \in 1 .. Len(r.buf) :
             Written(r.buf, offset, f.payload)[k] =
               IF k \in offset + 1 .. offset + Len(f.payload)
               THEN f.payload[k - offset] ELSE r.buf[k]
    <3> DEFINE b == r.buf
               p == f.payload
    <3>1. b \in Seq(Bytes) /\ p \in Seq(Bytes) /\ offset \in Nat /\ offset + Len(p) <= Len(b)
      BY <1>2, <1>3, <1>4, <2>1
    <3> HIDE DEF b, p
    <3>2. /\ Written(b, offset, p) \in Seq(Bytes)
          /\ Len(Written(b, offset, p)) = Len(b)
          /\ \A k \in 1 .. Len(b) :
               Written(b, offset, p)[k] =
                 IF k \in offset + 1 .. offset + Len(p) THEN p[k - offset] ELSE b[k]
      BY <3>1, WrittenAt
    <3>3. QED BY <3>2 DEF b, p
  <2>3. w = Written(r.buf, offset, f.payload)
    BY DEF w
  <2>4. QED BY <1>5, <2>2, <2>3
<1>8. /\ DOMAIN r1 = DOMAIN r /\ r1.frameId = r.frameId /\ r1.shape = r.shape
      /\ r1.total = r.total /\ r1.received = r.received \cup {i} /\ r1.buf = w
      /\ r1.bytes = IF r.bytes < end THEN end ELSE r.bytes
  <2>1. w = Written(r.buf, i * MaxPayload, f.payload)
    BY DEF offset
  <2> HIDE DEF w
  <2>2. QED BY <1>6, <2>1 DEF Placed, RecordOK
<1> HIDE DEF r1, w, i, total
<1>9. RecordOK(r1)
  BY <1>7, <1>8 DEF RecordOK
<1>10. ChunksInPlace(r1, s.bytes)
  <2> SUFFICES ASSUME NEW j \in r1.received,
                      NEW k \in j * MaxPayload + 1 .. ChunkEnd(s.bytes, j)
               PROVE  r1.buf[k] = s.bytes[k]
    BY DEF ChunksInPlace
  <2>1. r1.received = r.received \cup {i} /\ r1.buf = w
    BY <1>8
  <2>2. j \in 0 .. total - 1
    BY <1>1, <2>1 DEF HoldsPart, total
  <2>3. /\ j * MaxPayload \in Nat /\ ChunkEnd(s.bytes, j) \in Nat
        /\ ChunkEnd(s.bytes, j) <= Len(s.bytes)
    BY <2>2, ChunkBounds DEF total
  <2>4. k \in 1 .. Len(r.buf)
    <3>1. Len(r.buf) >= Len(s.bytes)
      <4>1. Len(r.buf) >= total * MaxPayload
        BY DEF HoldsPart, total
      <4>2. total * MaxPayload >= Len(s.bytes)
        BY ChunkTotal DEF total
      <4>3. total * MaxPayload \in Nat
        BY ChunkCountType, PayloadType DEF total
      <4>4. QED BY <1>4, <4>1, <4>2, <4>3
    <3>2. QED BY <1>4, <2>3, <3>1
  <2>5. CASE k \in offset + 1 .. end
    <3>1. w[k] = f.payload[k - offset]
      BY <1>7, <2>4, <2>5
    <3>2. k - offset \in 1 .. end - offset /\ offset + (k - offset) = k
      BY <1>2, <2>5
    <3>3. f.payload[k - offset] = s.bytes[offset + (k - offset)]
      BY <1>3, <3>2
    <3>4. QED BY <2>1, <3>1, <3>2, <3>3
  <2>6. CASE k \notin offset + 1 .. end
    <3>1. w[k] = r.buf[k]
      BY <1>7, <2>4, <2>6
    <3>2. j # i
      BY <2>6 DEF offset, end
    <3>3. j \in r.received
      BY <2>1, <3>2
    <3>4. r.buf[k] = s.bytes[k]
      BY <3>3 DEF HoldsPart, ChunksInPlace
    <3>5. QED BY <2>1, <3>1, <3>4
  <2>7. QED BY <2>5, <2>6
<1>11. /\ r1.bytes \in Nat /\ r1.bytes <= Len(s.bytes)
       /\ \A j \in r1.received : ChunkEnd(s.bytes, j) <= r1.bytes
  <2>1. r1.received = r.received \cup {i} /\ r1.bytes = IF r.bytes < end THEN end ELSE r.bytes
    BY <1>8
  <2>2. /\ r.bytes \in Nat /\ r.bytes <= Len(s.bytes)
        /\ \A j \in r.received : ChunkEnd(s.bytes, j) <= r.bytes
        /\ \A j \in r.received : ChunkEnd(s.bytes, j) \in Nat
    BY ChunkBounds DEF HoldsPart
  <2>3. r1.bytes \in Nat /\ r1.bytes <= Len(s.bytes) /\ r.bytes <= r1.bytes /\ end <= r1.bytes
    BY <1>2, <2>1, <2>2
  <2>4. ASSUME NEW j \in r1.received PROVE ChunkEnd(s.bytes, j) <= r1.bytes
    <3>1. CASE j = i
      BY <2>3, <3>1 DEF end
    <3>2. CASE j \in r.received
      BY <2>2, <2>3, <3>2
    <3>3. QED BY <2>1, <3>1, <3>2
  <2>5. QED BY <2>3, <2>4
<1>12. QED
  BY <1>1, <1>7, <1>8, <1>9, <1>10, <1>11 DEF HoldsPart, r1, total

(* A frame with all of its chunks is the frame the sender had.             *)
LEMMA CompleteHolds ==
  ASSUME NEW r, RecordOK(r), NEW s, s.bytes \in Seq(Bytes), HoldsPart(r, s), Complete(r)
  PROVE  SubSeq(r.buf, 1, r.bytes) = s.bytes
<1> DEFINE q == ChunkCount(s.bytes)
           n == Len(s.bytes)
<1>1. q \in Nat /\ q > 0 /\ n \in Nat /\ r.received \subseteq 0 .. q - 1
      /\ q - Cardinality(r.received) = 0
  BY ChunkCountType DEF HoldsPart, Complete, Missing
<1>2. r.received = 0 .. q - 1
  <2> HIDE DEF q
  <2>1. IsFiniteSet(0 .. q - 1) /\ Cardinality(0 .. q - 1) = q
    <3> DEFINE b == q - 1
    <3>1. b \in Int /\ b - 0 + 1 = q /\ ~(0 > b)
      BY <1>1
    <3> HIDE DEF b
    <3>2. IsFiniteSet(0 .. b) /\ Cardinality(0 .. b) = IF 0 > b THEN 0 ELSE b - 0 + 1
      BY <3>1, FS_Interval
    <3>3. IsFiniteSet(0 .. b) /\ Cardinality(0 .. b) = q
      BY <3>1, <3>2
    <3>4. QED BY <3>3 DEF b
  <2>2. IsFiniteSet(r.received)
    BY <1>1, <2>1, FS_Subset
  <2>3. Cardinality(r.received) \in Nat
    BY <2>2, FS_CardinalityType
  <2>4. Cardinality(0 .. q - 1) = Cardinality(r.received)
    BY <1>1, <2>1, <2>3
  <2>5. r.received \in SUBSET (0 .. q - 1)
    BY <1>1
  <2>6. QED BY <2>1, <2>4, <2>5, FS_Subset
<1>3. ASSUME NEW k \in 1 .. n
      PROVE  r.buf[k] = s.bytes[k] /\ k <= r.bytes
  <2>1. PICK j \in 0 .. q - 1 : k \in j * MaxPayload + 1 .. ChunkEnd(s.bytes, j)
    BY ChunkOfByte
  <2>2. j \in r.received
    BY <1>2, <2>1
  <2>3. r.buf[k] = s.bytes[k]
    BY <2>1, <2>2 DEF HoldsPart, ChunksInPlace
  <2>4. ChunkEnd(s.bytes, j) \in Nat /\ ChunkEnd(s.bytes, j) <= r.bytes /\ r.bytes \in Nat
    BY <2>1, <2>2, ChunkBounds DEF HoldsPart
  <2>5. j * MaxPayload \in Nat
    BY <2>1, ChunkBounds
  <2>6. k <= r.bytes
    BY <2>1, <2>4, <2>5
  <2>7. QED BY <2>3, <2>6
<1>4. r.bytes = n
  <2>1. r.bytes \in Nat /\ r.bytes <= n
    BY DEF HoldsPart
  <2>2. CASE n = 0
    BY <2>1, <2>2
  <2>3. CASE n > 0
    <3>1. n \in 1 .. n
      BY <1>1, <2>3
    <3>2. n <= r.bytes
      BY <1>3, <3>1
    <3>3. QED BY <1>1, <2>1, <3>2
  <2>4. QED BY <1>1, <2>2, <2>3
<1>5. Len(r.buf) \in Nat /\ n <= Len(r.buf) /\ r.buf \in Seq(Bytes)
  <2>1. Len(r.buf) >= q * MaxPayload /\ r.buf \in Seq(Bytes)
    BY DEF HoldsPart, RecordOK
  <2>2. n <= q * MaxPayload
    BY ChunkTotal
  <2>3. q * MaxPayload \in Nat
    BY <1>1, PayloadType
  <2> HIDE DEF q
  <2>4. QED BY <1>1, <2>1, <2>2, <2>3
<1> DEFINE t == SubSeq(r.buf, 1, n)
<1>6. t \in Seq(Bytes) /\ Len(t) = n /\ \A k \in 1 .. n : t[k] = r.buf[k]
  <2> HIDE DEF n
  <2>1. \A k \in 1 .. n : r.buf[k] \in Bytes
    BY <1>1, <1>5
  <2>2. /\ t \in Seq(Bytes) /\ Len(t) = IF 1 <= n THEN n - 1 + 1 ELSE 0
        /\ \A k \in 1 .. n - 1 + 1 : t[k] = r.buf[1 + k - 1]
    BY <1>1, <2>1, SubSeqProperties
  <2> HIDE DEF t
  <2>3. QED BY <1>1, <2>2
<1> HIDE DEF t
<1>7. t = s.bytes
  BY <1>3, <1>6, SeqEqual
<1>8. QED BY <1>4, <1>7 DEF t

-----------------------------------------------------------------------------
(* The inductive invariant                                                 *)

\* A frame given to a sender.
Frame(protocol, id, shape, bytes) ==
  [protocol |-> protocol, id |-> id, shape |-> shape, bytes |-> bytes]

SentOK ==
  \A s \in sent :
    /\ \E protocol, id, shape, bytes : s = Frame(protocol, id, shape, bytes)
    /\ s.id \in Ids /\ s.bytes \in Seq(Bytes)

UniqueIds ==
  \A s, t \in sent : s.protocol = t.protocol /\ s.id = t.id => s = t

\* What a receiver accepts was cut from a frame of its protocol.
NetworkOK ==
  \A d \in network :
    /\ DatagramAccepted(d) =>
         \E s \in sent : s.protocol = "h264" /\ CutFrom(AccessUnitFragment(d), s)
    /\ RawAccepted(d) =>
         \E s \in sent : s.protocol = "raw" /\ CutFrom(RawFragment(d), s)

AssemblyOK ==
  /\ RecordOK(reassembler) /\ reassembler.total \in Nat
  /\ reassembler.total # 0 =>
       \E s \in sent : s.protocol = listening /\ HoldsPart(reassembler, s)

DatagramsInv ==
  /\ listening \in {"h264", "raw"}
  /\ SentOK
  /\ UniqueIds
  /\ NetworkOK
  /\ AssemblyOK
  /\ DeliveredAsSent

LEMMA InitDatagrams == Init => DatagramsInv
<1> SUFFICES ASSUME Init PROVE DatagramsInv
  OBVIOUS
<1>1. /\ listening \in {"h264", "raw"} /\ sent = {} /\ network = {} /\ delivered = None
  BY DEF Init
<1>2. RecordOK(reassembler) /\ reassembler.total = 0
  BY DEF Init, RecordOK
<1>3. SentOK /\ UniqueIds /\ NetworkOK /\ DeliveredAsSent
  BY <1>1 DEF SentOK, UniqueIds, NetworkOK, DeliveredAsSent
<1>4. AssemblyOK
  BY <1>2 DEF AssemblyOK
<1>5. QED BY <1>1, <1>3, <1>4 DEF DatagramsInv

(* A sender gives its datagrams to the network with an ID of their own.     *)
LEMMA SendDatagrams ==
  ASSUME DatagramsInv, NEW protocol, NEW id \in Ids, NEW shape, NEW bytes \in Seq(Bytes),
         NEW datagrams, id \in LaterIds(protocol),
         Send(protocol, id, shape, bytes, datagrams),
         \A d \in datagrams :
           /\ DatagramAccepted(d) =>
                protocol = "h264" /\ CutFrom(AccessUnitFragment(d), Frame(protocol, id, shape, bytes))
           /\ RawAccepted(d) =>
                protocol = "raw" /\ CutFrom(RawFragment(d), Frame(protocol, id, shape, bytes))
  PROVE  DatagramsInv'
<1> DEFINE new == Frame(protocol, id, shape, bytes)
<1>1. /\ sent' = sent \cup {new} /\ network' = network \cup datagrams
      /\ listening' = listening /\ reassembler' = reassembler /\ delivered' = delivered
  BY DEF Send, Frame
<1>2. new.protocol = protocol /\ new.id = id /\ new.shape = shape /\ new.bytes = bytes
  BY DEF Frame
<1>3. listening' \in {"h264", "raw"}
  BY <1>1 DEF DatagramsInv
<1>4. SentOK'
  <2>1. \E p, i, sh, b : new = Frame(p, i, sh, b)
    OBVIOUS
  <2> HIDE DEF new
  <2>2. QED BY <1>1, <1>2, <2>1 DEF DatagramsInv, SentOK
<1>5. UniqueIds'
  <2>1. \A s \in sent : s.protocol = protocol => s.id < id /\ s.id \in Int /\ id \in Int
    <3>1. Ids \subseteq Int
      BY DatagramsAssumption, ByteType DEF Word32
    <3>2. QED BY <3>1 DEF LaterIds, DatagramsInv, SentOK
  <2> HIDE DEF new
  <2>2. \A s \in sent : s.protocol = new.protocol => s.id # new.id
    BY <1>2, <2>1
  <2>3. QED BY <1>1, <2>2 DEF DatagramsInv, UniqueIds
<1> HIDE DEF new
<1>6. NetworkOK'
  <2> SUFFICES ASSUME NEW d \in network'
               PROVE  /\ DatagramAccepted(d) =>
                           \E s \in sent' : s.protocol = "h264" /\ CutFrom(AccessUnitFragment(d), s)
                      /\ RawAccepted(d) =>
                           \E s \in sent' : s.protocol = "raw" /\ CutFrom(RawFragment(d), s)
    BY DEF NetworkOK
  <2>1. CASE d \in network
    BY <1>1, <2>1 DEF DatagramsInv, NetworkOK
  <2>2. CASE d \in datagrams
    <3>1. /\ DatagramAccepted(d) => protocol = "h264" /\ CutFrom(AccessUnitFragment(d), new)
          /\ RawAccepted(d) => protocol = "raw" /\ CutFrom(RawFragment(d), new)
      BY <2>2 DEF new
    <3>2. new \in sent'
      BY <1>1
    <3>3. QED BY <1>2, <3>1, <3>2
  <2>3. QED BY <1>1, <2>1, <2>2
<1>7. AssemblyOK'
  BY <1>1 DEF DatagramsInv, AssemblyOK
<1>8. DeliveredAsSent'
  BY <1>1 DEF DatagramsInv, DeliveredAsSent
<1>9. QED BY <1>3, <1>4, <1>5, <1>6, <1>7, <1>8 DEF DatagramsInv

(* `add' on a reassembler that holds a part of the frame the fragment was cut from. *)
LEMMA AddDatagrams ==
  ASSUME DatagramsInv, NEW r, RecordOK(r), NEW s \in sent, s.protocol = listening,
         HoldsPart(r, s), NEW f, CutFrom(f, s), AddFragment(r, f),
         UNCHANGED <<listening, sent, network>>
  PROVE  DatagramsInv'
<1>1. s.bytes \in Seq(Bytes)
  BY DEF DatagramsInv, SentOK
<1>2. listening' \in {"h264", "raw"} /\ SentOK' /\ UniqueIds' /\ NetworkOK'
  BY DEF DatagramsInv, SentOK, UniqueIds, NetworkOK
<1>3. CASE Accepts(r, f) /\ PayloadFits(r, f)
  <2> DEFINE p == Placed(r, f)
  <2>1. reassembler' = p /\ RecordOK(p) /\ HoldsPart(p, s)
    BY <1>1, <1>3, PlacedHolds DEF AddFragment
  <2>2. p.total \in Nat
    BY <1>1, <2>1, ChunkCountType DEF HoldsPart
  <2>3. AssemblyOK'
    <3> HIDE DEF p
    <3>1. QED BY <2>1, <2>2 DEF AssemblyOK
  <2>4. DeliveredAsSent'
    <3>1. CASE Complete(p)
      <4>1. delivered' = [protocol |-> listening, id |-> r.frameId, shape |-> r.shape,
                          bytes |-> SubSeq(p.buf, 1, p.bytes)]
        BY <1>3, <3>1 DEF AddFragment
      <4> HIDE DEF p
      <4>2. SubSeq(p.buf, 1, p.bytes) = s.bytes
        BY <1>1, <2>1, <3>1, CompleteHolds
      <4>3. r.frameId = s.id /\ r.shape = s.shape
        BY DEF HoldsPart
      <4>4. delivered' = Frame(s.protocol, s.id, s.shape, s.bytes)
        BY <4>1, <4>2, <4>3 DEF Frame
      <4>5. s = Frame(s.protocol, s.id, s.shape, s.bytes)
        <5>1. PICK protocol, id, shape, bytes : s = Frame(protocol, id, shape, bytes)
          BY DEF DatagramsInv, SentOK
        <5>2. /\ s.protocol = protocol /\ s.id = id /\ s.shape = shape /\ s.bytes = bytes
          BY <5>1 DEF Frame
        <5>3. QED BY <5>1, <5>2, Zenon
      <4>6. delivered' \in sent'
        BY <4>4, <4>5
      <4>7. QED BY <4>6 DEF DeliveredAsSent
    <3>2. CASE ~Complete(p)
      <4>1. delivered' = delivered
        BY <1>3, <3>2 DEF AddFragment
      <4>2. QED BY <4>1 DEF DatagramsInv, DeliveredAsSent
    <3>3. QED BY <3>1, <3>2
  <2>5. QED BY <1>2, <2>3, <2>4 DEF DatagramsInv
<1>4. CASE ~(Accepts(r, f) /\ PayloadFits(r, f))
  <2>1. reassembler' = r /\ delivered' = delivered
    BY <1>4 DEF AddFragment
  <2>2. r.total \in Nat
    BY <1>1, ChunkCountType DEF HoldsPart
  <2>3. AssemblyOK'
    BY <2>1, <2>2 DEF AssemblyOK
  <2>4. DeliveredAsSent'
    BY <2>1 DEF DatagramsInv, DeliveredAsSent
  <2>5. QED BY <1>2, <2>3, <2>4 DEF DatagramsInv
<1>5. QED BY <1>3, <1>4

(* Well-formed for the receiver, a datagram is one of its own protocol.     *)
LEMMA FragmentOrigin ==
  ASSUME DatagramsInv, NEW d \in network, WellFormed(d)
  PROVE  \E s \in sent : s.protocol = listening /\ CutFrom(Fragment(d), s)
<1>1. CASE listening = "h264"
  BY <1>1 DEF DatagramsInv, NetworkOK, WellFormed, Fragment
<1>2. CASE listening = "raw"
  BY <1>2 DEF DatagramsInv, NetworkOK, WellFormed, Fragment
<1>3. QED BY <1>1, <1>2 DEF DatagramsInv

LEMMA NextDatagrams == DatagramsInv /\ [Next]_vars => DatagramsInv'
<1> SUFFICES ASSUME DatagramsInv, [Next]_vars PROVE DatagramsInv'
  OBVIOUS
<1>1. ASSUME NEW id \in LaterIds("h264"), NEW unit \in Units, SendAccessUnit(id, unit)
      PROVE  DatagramsInv'
  <2>1. id \in Ids /\ unit.bytes \in Seq(Bytes)
    BY DatagramsAssumption DEF LaterIds
  <2>2. Send("h264", id, unit.shape, unit.bytes, AccessUnitDatagrams(id, unit))
    BY <1>1 DEF SendAccessUnit
  <2>3. ChunkCount(unit.bytes) \in 1 .. Byte * Byte - 1
    BY <2>2 DEF Send
  <2>4. \A d \in AccessUnitDatagrams(id, unit) :
          /\ ~RawAccepted(d)
          /\ CutFrom(AccessUnitFragment(d), Frame("h264", id, unit.shape, unit.bytes))
    BY <2>1, <2>3, AccessUnitOrigin DEF Frame
  <2>5. QED BY <2>1, <2>2, <2>4, SendDatagrams
<1>2. ASSUME NEW id \in LaterIds("raw"), NEW image \in Images, NEW time \in CaptureTimes,
             SendRawFrame(id, image, time)
      PROVE  DatagramsInv'
  <2>1. id \in Ids /\ image.bytes \in Seq(Bytes)
    BY DatagramsAssumption DEF LaterIds
  <2>2. Send("raw", id, image.stream, image.bytes, RawFrameDatagrams(id, image, time))
    BY <1>2 DEF SendRawFrame
  <2>3. ChunkCount(image.bytes) \in 1 .. Byte * Byte - 1
    BY <2>2 DEF Send
  <2>4. \A d \in RawFrameDatagrams(id, image, time) :
          /\ ~DatagramAccepted(d)
          /\ CutFrom(RawFragment(d), Frame("raw", id, image.stream, image.bytes))
    BY <2>1, <2>3, RawFrameOrigin DEF Frame
  <2>5. QED BY <2>1, <2>2, <2>4, SendDatagrams
<1>3. ASSUME NEW d \in network, ReceiveIgnored(d)
      PROVE  DatagramsInv'
  BY <1>3 DEF ReceiveIgnored, Arrive, DatagramsInv, SentOK, UniqueIds, NetworkOK,
              AssemblyOK, DeliveredAsSent
<1>4. ASSUME NEW d \in network, ReceiveCurrent(d)
      PROVE  DatagramsInv'
  <2> DEFINE f == Fragment(d)
             r == reassembler
  <2>1. /\ WellFormed(d) /\ f.id = r.frameId /\ AddFragment(r, f)
        /\ UNCHANGED <<listening, sent, network>>
    BY <1>4 DEF ReceiveCurrent, Arrive
  <2>2. PICK s \in sent : s.protocol = listening /\ CutFrom(f, s)
    BY <2>1, FragmentOrigin
  <2>3. CASE r.total # 0
    <3>1. RecordOK(r)
      BY DEF DatagramsInv, AssemblyOK
    <3>2. PICK t \in sent : t.protocol = listening /\ HoldsPart(r, t)
      BY <2>3 DEF DatagramsInv, AssemblyOK
    <3>3. s.id = t.id
      BY <2>1, <2>2, <3>2 DEF CutFrom, HoldsPart
    <3>4. s = t
      BY <2>2, <3>2, <3>3 DEF DatagramsInv, UniqueIds
    <3>5. HoldsPart(r, s)
      BY <3>2, <3>4
    <3> HIDE DEF f, r
    <3>6. QED BY <2>1, <2>2, <3>1, <3>5, AddDatagrams
  <2>4. CASE r.total = 0
    <3>1. f.index \in 0 .. ChunkCount(s.bytes) - 1 /\ s.bytes \in Seq(Bytes)
      BY <2>2 DEF CutFrom, DatagramsInv, SentOK
    <3>2. f.index \in Nat
      BY <3>1, ChunkCountType
    <3> HIDE DEF f
    <3>3. ~Accepts(r, f)
      BY <2>4, <3>2 DEF Accepts
    <3>4. reassembler' = r /\ delivered' = delivered
      BY <2>1, <3>3 DEF AddFragment
    <3>5. QED
      BY <2>1, <3>4 DEF DatagramsInv, SentOK, UniqueIds, NetworkOK, AssemblyOK,
                        DeliveredAsSent
  <2>5. QED BY <2>3, <2>4
<1>5. ASSUME NEW d \in network, ReceiveNewer(d)
      PROVE  DatagramsInv'
  <2> DEFINE f == Fragment(d)
             r == Grown(Reset(reassembler, f))
  <2>1. /\ WellFormed(d) /\ AddFragment(r, f) /\ UNCHANGED <<listening, sent, network>>
    BY <1>5 DEF ReceiveNewer, Arrive
  <2>2. PICK s \in sent : s.protocol = listening /\ CutFrom(f, s)
    BY <2>1, FragmentOrigin
  <2>3. RecordOK(reassembler) /\ s.bytes \in Seq(Bytes)
    BY DEF DatagramsInv, AssemblyOK, SentOK
  <2>4. RecordOK(r) /\ HoldsPart(r, s)
    <3> HIDE DEF f
    <3>1. QED BY <2>2, <2>3, ResetHolds
  <2> HIDE DEF r, f
  <2>5. QED BY <2>1, <2>2, <2>4, AddDatagrams
<1>6. CASE UNCHANGED vars
  BY <1>6 DEF vars, DatagramsInv, SentOK, UniqueIds, NetworkOK, AssemblyOK, DeliveredAsSent
<1>7. QED BY <1>1, <1>2, <1>3, <1>4, <1>5, <1>6 DEF Next

LEMMA DatagramsInvariant == Spec => []DatagramsInv
<1>1. QED BY InitDatagrams, NextDatagrams, PTL DEF Spec

-----------------------------------------------------------------------------
(* Receivers started for one protocol never take up a unit of the other,   *)
(* for frames of every size and every split of them into datagrams          *)
(* (wire.rs:6, config.rs:16: the discriminators "cannot be mistaken").      *)
THEOREM ReceivesOwnProtocol == Spec => []TakesUpOwnProtocol
<1>1. DatagramsInv => TakesUpOwnProtocol
  BY DEF DatagramsInv, AssemblyOK, HoldsPart, TakesUpOwnProtocol
<1>2. QED BY <1>1, DatagramsInvariant, PTL

(* A unit the receiver completes is the one that was sent, byte for byte,   *)
(* for every payload limit and length of a frame, however its datagrams     *)
(* were lost, repeated and reordered (reassembly.rs:94-101).                *)
THEOREM DeliversWhatWasSent == Spec => []DeliveredAsSent
<1>1. DatagramsInv => DeliveredAsSent
  BY DEF DatagramsInv
<1>2. QED BY <1>1, DatagramsInvariant, PTL

-----------------------------------------------------------------------------
(* Types                                                                   *)

LEMMA DatagramRoom ==
  ASSUME NEW header \in Seq(Bytes), Len(header) <= RawBytes,
         NEW bytes \in Seq(Bytes), NEW i \in 0 .. ChunkCount(bytes) - 1
  PROVE  /\ header \o Chunk(bytes, i) \in Seq(Bytes)
         /\ Len(header \o Chunk(bytes, i)) <= RawBytes + MaxPayload
<1> DEFINE c == Chunk(bytes, i)
<1>1. c \in Seq(Bytes) /\ Len(c) \in Nat /\ Len(c) <= MaxPayload
  BY ChunkType, PayloadType
<1> HIDE DEF c
<1>2. header \o c \in Seq(Bytes) /\ Len(header \o c) = Len(header) + Len(c)
  BY <1>1
<1>3. QED BY <1>1, <1>2, PayloadType DEF c, RawBytes

LEMMA AccessUnitRoom ==
  ASSUME NEW id \in Ids, NEW unit \in Units,
         ChunkCount(unit.bytes) \in 1 .. Byte * Byte - 1,
         NEW d \in AccessUnitDatagrams(id, unit)
  PROVE  d \in Seq(Bytes) /\ Len(d) <= RawBytes + MaxPayload
<1> DEFINE total == ChunkCount(unit.bytes)
<1>1. /\ unit.bytes \in Seq(Bytes) /\ unit.shape \in [flags : Bytes] /\ id \in Word32
  BY DatagramsAssumption
<1>2. PICK i \in 0 .. total - 1 :
        d = EncodePacket([flags |-> unit.shape.flags, frameId |-> id, chunkIndex |-> i,
                          totalChunks |-> total]) \o Chunk(unit.bytes, i)
  BY DEF AccessUnitDatagrams
<1> DEFINE h == [flags |-> unit.shape.flags, frameId |-> id, chunkIndex |-> i,
                 totalChunks |-> total]
<1>3. i \in Word16 /\ total \in Word16
  BY <1>1, ChunkFields
<1> HIDE DEF total
<1>4. h \in Packet
  BY <1>1, <1>3 DEF Packet
<1>5. d = EncodePacket(h) \o Chunk(unit.bytes, i)
  BY <1>2 DEF total
<1> HIDE DEF h
<1>6. EncodePacket(h) \in Seq(Bytes) /\ Len(EncodePacket(h)) <= RawBytes
  <2>1. EncodePacket(h) \in Seq(Bytes) /\ Len(EncodePacket(h)) = PacketBytes
    BY <1>4, PacketIsBytes
  <2>2. PacketBytes <= RawBytes
    BY DEF PacketBytes, RawBytes
  <2>3. QED BY <2>1, <2>2
<1>7. QED BY <1>1, <1>2, <1>5, <1>6, DatagramRoom DEF total

LEMMA RawFrameRoom ==
  ASSUME NEW id \in Ids, NEW image \in Images, NEW time \in CaptureTimes,
         ChunkCount(image.bytes) \in 1 .. Byte * Byte - 1,
         NEW d \in RawFrameDatagrams(id, image, time)
  PROVE  d \in Seq(Bytes) /\ Len(d) <= RawBytes + MaxPayload
<1> DEFINE total == ChunkCount(image.bytes)
<1>1. /\ image.bytes \in Seq(Bytes) /\ id \in Word32 /\ time \in [1 .. 8 -> Bytes]
  BY DatagramsAssumption
<1>2. PICK width \in Word16, height \in Word16, format \in Formats :
        /\ StreamValid(width, height, format)
        /\ image.stream = StreamSpec(width, height, format)
  BY DatagramsAssumption
<1>3. PICK i \in 0 .. total - 1 :
        d = EncodeRaw([frameId |-> id, captureTs |-> time, stream |-> image.stream,
                       chunkIndex |-> i, totalChunks |-> total,
                       chunkLen |-> Len(Chunk(image.bytes, i)), flags |-> 1])
              \o Chunk(image.bytes, i)
  BY DEF RawFrameDatagrams
<1> DEFINE len == Len(Chunk(image.bytes, i))
           h == [frameId |-> id, captureTs |-> time, stream |-> image.stream,
                 chunkIndex |-> i, totalChunks |-> total, chunkLen |-> len, flags |-> 1]
<1>4. i \in Word16 /\ total \in Word16 /\ len \in Word16
  BY <1>1, ChunkFields
<1>5. 1 \in Bytes
  BY WireAssumption DEF Bytes
<1>6. d = EncodeRaw(h) \o Chunk(image.bytes, i)
  BY <1>3
<1> HIDE DEF total, len
<1>7. h \in RawPacket
  BY <1>1, <1>2, <1>4, <1>5 DEF RawPacket
<1>8. h.stream.byteLen \in Word32
  <2>1. h.stream.byteLen = ByteLen(width, height, format)
    BY <1>2 DEF StreamSpec
  <2>2. ByteLen(width, height, format) \in Nat
    BY WireAssumption DEF ByteLen, BytesPerPixel, Formats, Word16
  <2>3. QED BY <1>2, <2>1, <2>2, WireAssumption DEF StreamValid, Word32
<1> HIDE DEF h
<1>9. EncodeRaw(h) \in Seq(Bytes) /\ Len(EncodeRaw(h)) <= RawBytes
  <2>1. EncodeRaw(h) \in Seq(Bytes) /\ Len(EncodeRaw(h)) = RawBytes
    BY <1>7, <1>8, RawIsBytes
  <2>2. RawBytes <= RawBytes
    BY DEF RawBytes
  <2>3. QED BY <2>1, <2>2
<1>10. QED BY <1>1, <1>3, <1>6, <1>9, DatagramRoom DEF total

\* Every datagram fits the receive buffers.
NetworkSized ==
  network \subseteq Seq(Bytes) /\ \A d \in network : Len(d) <= RawBytes + MaxPayload

\* A unit in progress is within the memory limit; before the first there is none.
AssemblySized ==
  /\ reassembler.total <= MaxChunks
  /\ reassembler.total = 0 =>
       /\ reassembler.frameId = IdRange - 1
       /\ reassembler.received = {} /\ reassembler.bytes = 0

LEMMA AddTotal ==
  ASSUME NEW r, RecordOK(r), NEW f, AddFragment(r, f)
  PROVE  /\ reassembler'.total = r.total
         /\ reassembler' = r \/ Accepts(r, f)
<1> DEFINE p == Placed(r, f)
<1>1. p.total = r.total
  BY DEF Placed, RecordOK
<1> HIDE DEF p
<1>2. (reassembler' = p /\ Accepts(r, f)) \/ reassembler' = r
  BY DEF AddFragment, p
<1>3. QED BY <1>1, <1>2

LEMMA NextSized ==
  DatagramsInv /\ NetworkSized /\ AssemblySized /\ [Next]_vars
    => NetworkSized' /\ AssemblySized'
<1> SUFFICES ASSUME DatagramsInv, NetworkSized, AssemblySized, [Next]_vars
             PROVE  NetworkSized' /\ AssemblySized'
  OBVIOUS
<1>1. ASSUME NEW id \in LaterIds("h264"), NEW unit \in Units, SendAccessUnit(id, unit)
      PROVE  NetworkSized' /\ AssemblySized'
  <2>1. /\ ChunkCount(unit.bytes) \in 1 .. Byte * Byte - 1 /\ id \in Ids
        /\ network' = network \cup AccessUnitDatagrams(id, unit)
        /\ reassembler' = reassembler
    BY <1>1 DEF SendAccessUnit, Send, LaterIds
  <2>2. \A d \in AccessUnitDatagrams(id, unit) :
          d \in Seq(Bytes) /\ Len(d) <= RawBytes + MaxPayload
    BY <2>1, AccessUnitRoom
  <2>3. QED BY <2>1, <2>2 DEF NetworkSized, AssemblySized
<1>2. ASSUME NEW id \in LaterIds("raw"), NEW image \in Images, NEW time \in CaptureTimes,
             SendRawFrame(id, image, time)
      PROVE  NetworkSized' /\ AssemblySized'
  <2>1. /\ ChunkCount(image.bytes) \in 1 .. Byte * Byte - 1 /\ id \in Ids
        /\ network' = network \cup RawFrameDatagrams(id, image, time)
        /\ reassembler' = reassembler
    BY <1>2 DEF SendRawFrame, Send, LaterIds
  <2>2. \A d \in RawFrameDatagrams(id, image, time) :
          d \in Seq(Bytes) /\ Len(d) <= RawBytes + MaxPayload
    BY <2>1, RawFrameRoom
  <2>3. QED BY <2>1, <2>2 DEF NetworkSized, AssemblySized
<1>3. ASSUME NEW d \in network, ReceiveCurrent(d)
      PROVE  NetworkSized' /\ AssemblySized'
  <2> DEFINE f == Fragment(d)
             r == reassembler
  <2>1. WellFormed(d) /\ AddFragment(r, f) /\ network' = network
    BY <1>3 DEF ReceiveCurrent, Arrive
  <2>2. f.index \in Nat
    <3>1. PICK s \in sent : CutFrom(f, s)
      BY <2>1, FragmentOrigin
    <3>2. ChunkCount(s.bytes) \in Nat
      BY ChunkCountType DEF DatagramsInv, SentOK
    <3>3. QED BY <3>1, <3>2 DEF CutFrom
  <2>3. RecordOK(r) /\ r.total \in Nat
    BY DEF DatagramsInv, AssemblyOK
  <2> HIDE DEF f, r
  <2>4. reassembler'.total = r.total /\ (reassembler' = r \/ Accepts(r, f))
    BY <2>1, <2>3, AddTotal
  <2>5. r.total = 0 => reassembler' = r
    BY <2>2, <2>4 DEF Accepts
  <2>6. QED BY <2>1, <2>4, <2>5 DEF NetworkSized, AssemblySized, r
<1>4. ASSUME NEW d \in network, ReceiveNewer(d)
      PROVE  NetworkSized' /\ AssemblySized'
  <2> DEFINE f == Fragment(d)
             r == Grown(Reset(reassembler, f))
  <2>1. /\ WellFormed(d) /\ AddFragment(r, f) /\ network' = network
        /\ f.total \in 1 .. MaxChunks
    BY <1>4 DEF ReceiveNewer, Arrive, WithinLimit
  <2>2. PICK s \in sent : CutFrom(f, s)
    BY <2>1, FragmentOrigin
  <2>3. RecordOK(reassembler) /\ s.bytes \in Seq(Bytes)
    BY DEF DatagramsInv, AssemblyOK, SentOK
  <2>4. RecordOK(r) /\ HoldsPart(r, s)
    <3> HIDE DEF f
    <3>1. QED BY <2>2, <2>3, ResetHolds
  <2>5. r.total = f.total
    BY <2>2, <2>4 DEF CutFrom, HoldsPart
  <2> HIDE DEF f, r
  <2>6. reassembler'.total = r.total
    BY <2>1, <2>4, AddTotal
  <2>7. QED
    BY <2>1, <2>5, <2>6, ReassemblyAssumption DEF NetworkSized, AssemblySized
<1>5. ASSUME NEW d \in network, ReceiveIgnored(d)
      PROVE  NetworkSized' /\ AssemblySized'
  BY <1>5 DEF ReceiveIgnored, Arrive, NetworkSized, AssemblySized
<1>6. CASE UNCHANGED vars
  BY <1>6 DEF vars, NetworkSized, AssemblySized
<1>7. QED BY <1>1, <1>2, <1>3, <1>4, <1>5, <1>6 DEF Next

(* No datagram of either sender is longer than the receive buffers, and the *)
(* reassembler never holds more chunks than its memory limit nor claims     *)
(* bytes its buffer does not have.                                         *)
THEOREM DatagramsTypeCorrect == Spec => []TypeOK
<1>1. Init => NetworkSized /\ AssemblySized
  BY ReassemblyAssumption DEF Init, NetworkSized, AssemblySized
<1>2. DatagramsInv /\ NetworkSized /\ AssemblySized => TypeOK
  <2> SUFFICES ASSUME DatagramsInv, NetworkSized, AssemblySized PROVE TypeOK
    OBVIOUS
  <2>1. /\ listening \in {"h264", "raw"} /\ RecordOK(reassembler)
        /\ reassembler.total \in 0 .. MaxChunks
    BY ReassemblyAssumption DEF DatagramsInv, AssemblyOK, AssemblySized
  <2>2. reassembler.buf \in Seq(Bytes) /\ Len(reassembler.buf) \in Nat
    BY <2>1 DEF RecordOK
  <2>3. CASE reassembler.total = 0
    <3>1. IdRange - 1 \in Word32
      BY DatagramsAssumption, ReassemblyAssumption DEF Word32
    <3>2. QED BY <2>1, <2>2, <2>3, <3>1 DEF TypeOK, NetworkSized, AssemblySized
  <2>4. CASE reassembler.total # 0
    <3>1. PICK s \in sent : HoldsPart(reassembler, s)
      BY <2>4 DEF DatagramsInv, AssemblyOK
    <3>2. s.id \in Ids /\ s.bytes \in Seq(Bytes)
      BY DEF DatagramsInv, SentOK
    <3>3. Len(s.bytes) <= ChunkCount(s.bytes) * MaxPayload /\ Len(s.bytes) \in Nat
      BY <3>2, ChunkTotal
    <3>4. ChunkCount(s.bytes) * MaxPayload \in Nat
      BY <3>2, ChunkCountType, PayloadType
    <3> DEFINE room == ChunkCount(s.bytes) * MaxPayload
    <3>5. room <= Len(reassembler.buf) /\ Len(s.bytes) <= room /\ room \in Nat
      BY <3>1, <3>3, <3>4 DEF HoldsPart
    <3> HIDE DEF room
    <3>6. reassembler.bytes \in 0 .. Len(reassembler.buf)
      BY <2>2, <3>1, <3>3, <3>5 DEF HoldsPart
    <3>7. reassembler.frameId \in Word32
      BY <3>1, <3>2, DatagramsAssumption DEF HoldsPart
    <3>8. reassembler.received \subseteq 0 .. reassembler.total - 1
      BY <3>1 DEF HoldsPart
    <3>9. QED BY <2>1, <2>2, <3>6, <3>7, <3>8 DEF TypeOK, NetworkSized
  <2>5. QED BY <2>3, <2>4
<1>3. QED BY <1>1, <1>2, NextSized, DatagramsInvariant, PTL DEF Spec
=============================================================================
