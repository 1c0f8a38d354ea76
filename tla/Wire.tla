-------------------------------- MODULE Wire --------------------------------
(***************************************************************************)
(* src/wire.rs: the fragment of an H.264 access unit (PacketHeader), the   *)
(* fragment of a raw frame (LegacyRawPacketHeader) and the receipt for a   *)
(* raw frame (FrameEcho), as sequences of bytes.  Offsets are those of the *)
(* source plus one.                                                        *)
(*                                                                         *)
(* A decoder of the source returns None or a header; here each is two      *)
(* operators, whether it accepts the bytes and what it then reads.  The    *)
(* capture time, which both ends only pass on, stays eight bytes.          *)
(***************************************************************************)
EXTENDS Integers, Sequences

CONSTANTS Byte,          \* values of a byte (256)
          Signature,     \* SIGNATURE, "JUAN"
          Version,       \* VERSION
          Magic,         \* LEGACY_RAW_MAGIC
          MaxRawBytes    \* MAX_RAW_FRAME_BYTES

Bytes  == 0 .. Byte - 1
Word16 == 0 .. Byte * Byte - 1
Word32 == 0 .. Byte * Byte * Byte * Byte - 1

ASSUME WireAssumption ==
  /\ Byte \in Nat /\ Byte > 2
  /\ Signature \in Bytes \X Bytes \X Bytes \X Bytes
  /\ Version \in Bytes
  /\ Magic \in Word16 /\ Magic # Signature[1] * Byte + Signature[2]
  /\ MaxRawBytes \in Word32

\* to_be_bytes and from_be_bytes: the bytes of a u16 are Hi and Lo, those of a
\* u32 begin with the ones of its upper half.  `as u16' and `as u32' keep the
\* low bytes.
Lo(n) == n % Byte
Hi(n) == (n \div Byte) % Byte
Upper(n) == (n \div Byte) \div Byte

Word16At(bytes, offset) == bytes[offset + 1] * Byte + bytes[offset + 2]
Word32At(bytes, offset) ==
  (Word16At(bytes, offset) * Byte + bytes[offset + 3]) * Byte + bytes[offset + 4]

-----------------------------------------------------------------------------
(* PacketHeader                                                            *)

PacketBytes == 14

Packet == [flags : Bytes, frameId : Word32, chunkIndex : Word16, totalChunks : Word16]

EncodePacket(h) ==
  <<Signature[1], Signature[2], Signature[3], Signature[4], Version, h.flags,
    Hi(Upper(h.frameId)), Lo(Upper(h.frameId)), Hi(h.frameId), Lo(h.frameId),
    Hi(h.chunkIndex), Lo(h.chunkIndex), Hi(h.totalChunks), Lo(h.totalChunks)>>

ReadPacket(bytes) ==
  [flags |-> bytes[6], frameId |-> Word32At(bytes, 6),
   chunkIndex |-> Word16At(bytes, 10), totalChunks |-> Word16At(bytes, 12)]

\* Mutant of PacketAccepted: the signature is not looked at.
PacketAcceptedUnsigned(bytes) ==
  /\ Len(bytes) >= PacketBytes
  /\ bytes[5] = Version
  /\ ReadPacket(bytes).chunkIndex < ReadPacket(bytes).totalChunks

PacketAccepted(bytes) ==
  /\ Len(bytes) >= PacketBytes
  /\ \A i \in 1 .. 4 : bytes[i] = Signature[i]
  /\ bytes[5] = Version
  /\ ReadPacket(bytes).totalChunks # 0
  /\ ReadPacket(bytes).chunkIndex < ReadPacket(bytes).totalChunks

\* split_datagram: a fragment has at least one byte after the header.
PacketPayload(datagram) == SubSeq(datagram, PacketBytes + 1, Len(datagram))
DatagramAccepted(datagram) ==
  PacketAccepted(datagram) /\ PacketPayload(datagram) # <<>>

-----------------------------------------------------------------------------
(* StreamSpec of src/capture.rs and LegacyRawPacketHeader                  *)

\* wire_code of Yuyv422 and Bgra8888, and their bytes_per_pixel.
Formats == {1, 2}
BytesPerPixel(format) == 2 * format

ByteLen(width, height, format) == width * height * BytesPerPixel(format)

\* What StreamSpec::new builds.
StreamSpec(width, height, format) ==
  [width |-> width, height |-> height, format |-> format,
   byteLen |-> ByteLen(width, height, format)]

\* What StreamSpec::new does not refuse.
StreamValid(width, height, format) ==
  /\ width \in Word16 \ {0} /\ height \in Word16 \ {0}
  /\ ByteLen(width, height, format) <= MaxRawBytes

RawBytes == 30

RawPacket ==
  [frameId : Word32, captureTs : [1 .. 8 -> Bytes],
   stream : {StreamSpec(w, h, f) : w \in Word16, h \in Word16, f \in Formats},
   chunkIndex : Word16, totalChunks : Word16, chunkLen : Word16, flags : Bytes]

EncodeRaw(h) ==
  <<Hi(Magic), Lo(Magic),
    Hi(Upper(h.frameId)), Lo(Upper(h.frameId)), Hi(h.frameId), Lo(h.frameId),
    h.captureTs[1], h.captureTs[2], h.captureTs[3], h.captureTs[4],
    h.captureTs[5], h.captureTs[6], h.captureTs[7], h.captureTs[8],
    Hi(h.stream.width), Lo(h.stream.width),
    Hi(h.stream.height), Lo(h.stream.height), h.stream.format,
    Hi(Upper(h.stream.byteLen)), Lo(Upper(h.stream.byteLen)),
    Hi(h.stream.byteLen), Lo(h.stream.byteLen),
    Hi(h.chunkIndex), Lo(h.chunkIndex), Hi(h.totalChunks), Lo(h.totalChunks),
    Hi(h.chunkLen), Lo(h.chunkLen), h.flags>>

RawStreamAt(bytes) ==
  StreamSpec(Word16At(bytes, 14), Word16At(bytes, 16), bytes[19])

ReadRaw(bytes) ==
  [frameId |-> Word32At(bytes, 2), captureTs |-> [i \in 1 .. 8 |-> bytes[6 + i]],
   stream |-> RawStreamAt(bytes), chunkIndex |-> Word16At(bytes, 23),
   totalChunks |-> Word16At(bytes, 25), chunkLen |-> Word16At(bytes, 27),
   flags |-> bytes[30]]

\* Mutant of RawAccepted: the magic is not looked at.
RawAcceptedUnsigned(bytes) ==
  /\ Len(bytes) >= RawBytes
  /\ bytes[19] \in Formats
  /\ StreamValid(Word16At(bytes, 14), Word16At(bytes, 16), bytes[19])
  /\ RawStreamAt(bytes).byteLen = Word32At(bytes, 19)

RawAccepted(bytes) ==
  /\ Len(bytes) >= RawBytes
  /\ Word16At(bytes, 0) = Magic
  /\ bytes[19] \in Formats
  /\ StreamValid(Word16At(bytes, 14), Word16At(bytes, 16), bytes[19])
  /\ RawStreamAt(bytes).byteLen = Word32At(bytes, 19)

-----------------------------------------------------------------------------
(* FrameEcho                                                               *)

EchoBytes == 20

Echo == [frameId : Word32, captureTs : [1 .. 8 -> Bytes],
         spreadUs : Word32, decodeUs : Word32]

EncodeEcho(e) ==
  <<Hi(Upper(e.frameId)), Lo(Upper(e.frameId)), Hi(e.frameId), Lo(e.frameId),
    e.captureTs[1], e.captureTs[2], e.captureTs[3], e.captureTs[4],
    e.captureTs[5], e.captureTs[6], e.captureTs[7], e.captureTs[8],
    Hi(Upper(e.spreadUs)), Lo(Upper(e.spreadUs)), Hi(e.spreadUs), Lo(e.spreadUs),
    Hi(Upper(e.decodeUs)), Lo(Upper(e.decodeUs)), Hi(e.decodeUs), Lo(e.decodeUs)>>

EchoAccepted(bytes) == Len(bytes) = EchoBytes

ReadEcho(bytes) ==
  [frameId |-> Word32At(bytes, 0), captureTs |-> [i \in 1 .. 8 |-> bytes[4 + i]],
   spreadUs |-> Word32At(bytes, 12), decodeUs |-> Word32At(bytes, 16)]
=============================================================================
