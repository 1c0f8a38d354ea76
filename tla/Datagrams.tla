----------------------------- MODULE Datagrams -----------------------------
(***************************************************************************)
(* Frames as bytes, from the sender that cuts them into datagrams to the   *)
(* receiver that puts them together again: the fragmentation of            *)
(* send_access_unit and sender_loop, the formats of src/wire.rs, and the   *)
(* receivers receiving_h264 and receiving (src/transport.rs) with the byte *)
(* buffers of src/reassembly.rs, up to the completed unit.                 *)
(*                                                                         *)
(* Both receivers bind UDP port 5000 and both kinds of sender may be       *)
(* pointed at it, so the one that was started hears datagrams of either    *)
(* protocol.  Datagrams are lost, repeated and reordered; UDP does not cut *)
(* or alter them.                                                          *)
(***************************************************************************)
EXTENDS Reassembly, Wire

CONSTANTS
  MaxPayload,   \* MAX_CHUNK_PAYLOAD
  Units,        \* access units: their flags and bytes
  Images,       \* compressed raw frames: their stream and bytes
  CaptureTimes, \* timestamps, as eight bytes
  Ids,          \* bound: frame IDs in use; others are of frames never sent
  MaxSent,      \* bound: frames sent
  None

ASSUME DatagramsAssumption ==
  /\ IdRange = Byte * Byte * Byte * Byte /\ Ids \subseteq Word32
  /\ MaxPayload \in Word16 \ {0}
  /\ Units \subseteq [shape : [flags : Bytes], bytes : Seq(Bytes)]
  /\ \A image \in Images :
       /\ image.bytes \in Seq(Bytes)
       /\ \E width, height \in Word16, format \in Formats :
            /\ StreamValid(width, height, format)
            /\ image.stream = StreamSpec(width, height, format)
  /\ CaptureTimes \subseteq [1 .. 8 -> Bytes]

VARIABLES
  listening,    \* the receiver the user started: "h264" or "raw"
  sent,         \* history: the frames given to the senders
  network,      \* datagrams that may arrive
  reassembler,
  delivered     \* the unit completed last

vars == <<listening, sent, network, reassembler, delivered>>

Init ==
  /\ listening \in {"h264", "raw"}
  /\ sent = {} /\ network = {}
  /\ reassembler = [frameId |-> IdRange - 1, shape |-> NoShape, total |-> 0,
                    received |-> {}, buf |-> <<>>, bytes |-> 0]
  /\ delivered = None

-----------------------------------------------------------------------------
(* The senders                                                             *)

\* bytes.chunks(MAX_CHUNK_PAYLOAD)
ChunkCount(bytes) == (Len(bytes) + MaxPayload - 1) \div MaxPayload

\* Mutant of ChunkEnd: a chunk takes a byte too many.
ChunkEndLate(bytes, i) ==
  IF (i + 1) * MaxPayload < Len(bytes) THEN (i + 1) * MaxPayload + 1 ELSE Len(bytes)

ChunkEnd(bytes, i) ==
  IF (i + 1) * MaxPayload < Len(bytes) THEN (i + 1) * MaxPayload ELSE Len(bytes)

Chunk(bytes, i) == SubSeq(bytes, i * MaxPayload + 1, ChunkEnd(bytes, i))

AccessUnitDatagrams(id, unit) ==
  {EncodePacket([flags |-> unit.shape.flags, frameId |-> id, chunkIndex |-> i,
                 totalChunks |-> ChunkCount(unit.bytes)]) \o Chunk(unit.bytes, i) :
     i \in 0 .. ChunkCount(unit.bytes) - 1}

\* The only flag is LEGACY_FLAG_COMPRESSED.
RawFrameDatagrams(id, image, captureTs) ==
  {EncodeRaw([frameId |-> id, captureTs |-> captureTs, stream |-> image.stream,
              chunkIndex |-> i, totalChunks |-> ChunkCount(image.bytes),
              chunkLen |-> Len(Chunk(image.bytes, i)), flags |-> 1])
     \o Chunk(image.bytes, i) : i \in 0 .. ChunkCount(image.bytes) - 1}

\* A frame gets a later ID than the frames before it; refused frames use up
\* IDs too.
LaterIds(protocol) == {id \in Ids : \A s \in sent : s.protocol = protocol => s.id < id}

\* A frame has at most as many chunks as a u16 counts.
Send(protocol, id, shape, bytes, datagrams) ==
  /\ Cardinality(sent) < MaxSent
  /\ ChunkCount(bytes) \in 1 .. Byte * Byte - 1
  /\ sent' = sent \cup {[protocol |-> protocol, id |-> id, shape |-> shape,
                         bytes |-> bytes]}
  /\ network' = network \cup datagrams
  /\ UNCHANGED <<listening, reassembler, delivered>>

SendAccessUnit(id, unit) ==
  Send("h264", id, unit.shape, unit.bytes, AccessUnitDatagrams(id, unit))

SendRawFrame(id, image, captureTs) ==
  Send("raw", id, image.stream, image.bytes, RawFrameDatagrams(id, image, captureTs))

-----------------------------------------------------------------------------
(* The receivers                                                           *)

\* Room for the unit's chunks.  The buffer only ever grows, and keeps its bytes.
Resized(buf, total) ==
  buf \o [k \in 1 .. total * MaxPayload - Len(buf) |-> 0]

\* Mutant of Grown: the length counts on from the unit before.
GrownKeepingBytes(r) == [r EXCEPT !.buf = Resized(@, r.total)]

\* The rest of `reset'.
Grown(r) == [r EXCEPT !.bytes = 0, !.buf = Resized(@, r.total)]

AccessUnitFragment(d) ==
  LET h == ReadPacket(d)
  IN  [id |-> h.frameId, shape |-> [flags |-> h.flags], index |-> h.chunkIndex,
       total |-> h.totalChunks, truncated |-> FALSE, payload |-> PacketPayload(d)]

\* chunk_len says what of the datagram is payload, unless less than that came.
RawFragment(d) ==
  LET h == ReadRaw(d)
  IN  [id |-> h.frameId, shape |-> h.stream, index |-> h.chunkIndex,
       total |-> h.totalChunks, truncated |-> RawBytes + h.chunkLen > Len(d),
       payload |-> SubSeq(d, RawBytes + 1, RawBytes + h.chunkLen)]

Fragment(d) == IF listening = "h264" THEN AccessUnitFragment(d) ELSE RawFragment(d)

WellFormed(d) ==
  IF listening = "h264" THEN DatagramAccepted(d) ELSE RawAccepted(d)

PayloadEnd(f) == f.index * MaxPayload + Len(f.payload)

\* The checks of the raw receiver and of `add' on the payload; those of
\* H264Reassembler ask for more.
PayloadFits(r, f) ==
  /\ ~f.truncated
  /\ Len(f.payload) <= MaxPayload
  /\ PayloadEnd(f) <= Len(r.buf)
  /\ listening = "h264" =>
       /\ f.payload # <<>>
       /\ f.index + 1 < f.total => Len(f.payload) = MaxPayload

Written(buf, offset, payload) ==
  SubSeq(buf, 1, offset) \o payload \o SubSeq(buf, offset + Len(payload) + 1, Len(buf))

\* Mutant of Placed: fragments are appended in the order they come.
PlacedInOrderOfArrival(r, f) ==
  [r EXCEPT !.received = @ \cup {f.index}, !.bytes = @ + Len(f.payload),
            !.buf = Written(@, r.bytes, f.payload)]

\* `add' writes the payload at the offset its index gives it.
Placed(r, f) ==
  [r EXCEPT !.received = @ \cup {f.index},
            !.bytes = IF @ < PayloadEnd(f) THEN PayloadEnd(f) ELSE @,
            !.buf = Written(@, f.index * MaxPayload, f.payload)]

\* Adds a fragment; the unit it completes goes to the decoder.
AddFragment(r, f) ==
  IF Accepts(r, f) /\ PayloadFits(r, f)
  THEN /\ reassembler' = Placed(r, f)
       /\ delivered' = IF Complete(Placed(r, f))
                       THEN [protocol |-> listening, id |-> r.frameId, shape |-> r.shape,
                             bytes |-> SubSeq(Placed(r, f).buf, 1, Placed(r, f).bytes)]
                       ELSE delivered
  ELSE /\ reassembler' = r
       /\ UNCHANGED delivered

Arrive(d) == d \in network /\ UNCHANGED <<listening, sent, network>>

\* A datagram that is malformed, of the other protocol, late, or of a unit
\* above the memory limit.
ReceiveIgnored(d) ==
  /\ Arrive(d)
  /\ \/ ~WellFormed(d)
     \/ /\ WellFormed(d)
        /\ Fragment(d).id # reassembler.frameId
        /\ IsNewerFrame(reassembler, Fragment(d).id) => ~WithinLimit(Fragment(d))
  /\ UNCHANGED <<reassembler, delivered>>

ReceiveCurrent(d) ==
  /\ Arrive(d)
  /\ WellFormed(d)
  /\ Fragment(d).id = reassembler.frameId
  /\ AddFragment(reassembler, Fragment(d))

ReceiveNewer(d) ==
  /\ Arrive(d)
  /\ WellFormed(d)
  /\ IsNewerFrame(reassembler, Fragment(d).id)
  /\ WithinLimit(Fragment(d))
  /\ AddFragment(Grown(Reset(reassembler, Fragment(d))), Fragment(d))

Next ==
  \/ \E id \in LaterIds("h264"), unit \in Units : SendAccessUnit(id, unit)
  \/ \E id \in LaterIds("raw"), image \in Images, time \in CaptureTimes :
       SendRawFrame(id, image, time)
  \/ \E d \in network : ReceiveIgnored(d) \/ ReceiveCurrent(d) \/ ReceiveNewer(d)

Spec == Init /\ [][Next]_vars

-----------------------------------------------------------------------------
\* Every datagram fits the buffers of both ends, and the reassembler holds
\* what the code can store in it.
TypeOK ==
  /\ listening \in {"h264", "raw"}
  /\ network \subseteq Seq(Bytes)
  /\ \A d \in network : Len(d) <= RawBytes + MaxPayload
  /\ reassembler.frameId \in Word32
  /\ reassembler.total \in 0 .. MaxChunks
  /\ reassembler.received \subseteq 0 .. reassembler.total - 1
  /\ reassembler.buf \in Seq(Bytes)
  /\ reassembler.bytes \in 0 .. Len(reassembler.buf)

\* reassembly.rs:101, wire.rs:27 - a completed unit is, byte for byte, one that
\* a sender of the receiver's own protocol was given, under its ID and with its
\* flags or stream, whatever order its datagrams came in, whatever the buffer
\* held before, and though only the last of them is shorter than the others.
DeliveredAsSent == delivered # None => delivered \in sent

\* wire.rs:6, config.rs:16 - "so it cannot be mistaken": a receiver takes up
\* only units of its own protocol, with the header their sender gave them.
TakesUpOwnProtocol ==
  reassembler.total # 0 =>
    \E s \in sent : /\ s.protocol = listening
                    /\ s.id = reassembler.frameId
                    /\ s.shape = reassembler.shape
                    /\ ChunkCount(s.bytes) = reassembler.total
=============================================================================
