----------------------------- MODULE H264Stream -----------------------------
(***************************************************************************)
(* One H.264 stream from cast_h264 of src/codec/macos.rs to                *)
(* receiving_h264_to_display of src/transport.rs: the capture callback     *)
(* that encodes into a bounded channel, the UDP thread that drains it and  *)
(* sends the newest access unit in fragments, a network that loses,        *)
(* duplicates and reorders them, and the receiver with its decoder.        *)
(*                                                                         *)
(* Every access unit has a serial number, which never wraps and which the  *)
(* program does not see; `prev' is the serial of the unit the encoder made *)
(* before it, the reference of a P-frame.  The decoder is external: it     *)
(* shows a picture, none or an error, and the picture is sound if the unit *)
(* is an IDR or the decoder's last sound picture is the unit's reference.  *)
(***************************************************************************)
EXTENDS Reassembly, Sequences

CONSTANTS
  OutboundSlots,   \* sync_channel(2)
  Sizes,           \* fragments a unit may need
  MaxUnits,        \* bound: frames offered to the callback
  MaxRestarts,     \* bound: times the sending program is started again
  Lifetime,        \* bound: serials for which the network may keep a fragment
  WholeUnitLoss    \* FALSE: every unit encoded is heard of in order

ASSUME StreamAssumption ==
  /\ OutboundSlots \in Nat \ {0}
  /\ Sizes \subseteq Nat \ {0}
  /\ MaxUnits \in Nat /\ MaxRestarts \in Nat
  /\ Lifetime \in 1 .. IdRange \div 2
  /\ WholeUnitLoss \in BOOLEAN

NoFrame == [serial |-> 0]
NoReference == 0

VARIABLES
  serial,        \* the last serial given out
  nextFrameId,   \* H264CastHandler.next_frame_id
  lastEncoded,   \* the encoder's reference: serial of the unit it made last
  pending,       \* the frame in the callback, between encode and try_send
  outbound,      \* the channel between callback and UDP thread
  senderAlive,
  udpPc, sending,          \* the UDP thread's step and its frame
  lastSent,                \* serial of the unit sent last
  restarts,
  network,                 \* fragments that may still arrive
  heard,                   \* the newest serial a fragment arrived of
  receiving,               \* the receiver has not returned an error
  reassembler, waiting,    \* waiting_for_recovery_keyframe
  reference,               \* the decoder's last sound picture
  shown                    \* the last picture shown, and whether it was sound

castVars    == <<nextFrameId, lastEncoded, pending, senderAlive>>
udpVars     == <<udpPc, sending, lastSent>>
receiverVars == <<heard, receiving, reassembler, waiting, reference, shown>>
vars == <<serial, castVars, outbound, udpVars, restarts, network, receiverVars>>

Init ==
  /\ serial = 0
  /\ nextFrameId = 0 /\ lastEncoded = NoReference /\ pending = NoFrame
  /\ outbound = <<>> /\ senderAlive = TRUE
  /\ udpPc = "connect" /\ sending = NoFrame /\ lastSent = 0
  /\ restarts = 0
  /\ network = {}
  /\ heard = 0 /\ receiving = TRUE
  /\ reassembler = NewReassembler /\ waiting = TRUE
  /\ reference = NoReference
  /\ shown = [serial |-> 0, sound |-> TRUE]

-----------------------------------------------------------------------------
(* did_output_sample_buffer                                                *)

\* Without WholeUnitLoss the source is slower than the UDP thread.
Paced == outbound = <<>> /\ udpPc = "recv"

\* Mutant of NextId: the ID does not wrap.
NextIdUnwrapped ==
  /\ pending = NoFrame
  /\ senderAlive
  /\ serial < MaxUnits
  /\ WholeUnitLoss \/ Paced
  /\ serial' = serial + 1
  /\ nextFrameId' = nextFrameId + 1

NextId ==
  /\ pending = NoFrame
  /\ senderAlive
  /\ serial < MaxUnits
  /\ WholeUnitLoss \/ Paced
  /\ serial' = serial + 1
  /\ nextFrameId' = (nextFrameId + 1) % IdRange

\* An encoder starts with an IDR, which carries SPS and PPS like every IDR.
Encode ==
  /\ NextId
  /\ \E key \in BOOLEAN, total \in Sizes :
       /\ lastEncoded = NoReference => key
       /\ pending' = [serial |-> serial + 1, id |-> nextFrameId, key |-> key,
                      total |-> total, prev |-> lastEncoded]
  /\ lastEncoded' = serial + 1
  /\ UNCHANGED <<outbound, senderAlive, udpVars, restarts, network, receiverVars>>

\* encode_surface fails before the session has encoded the frame, or after: the
\* session then refers to a unit that nobody gets.
EncodeFails ==
  /\ NextId
  /\ \/ UNCHANGED lastEncoded
     \/ WholeUnitLoss /\ lastEncoded' = serial + 1
  /\ UNCHANGED <<pending, outbound, senderAlive, udpVars, restarts, network,
                 receiverVars>>

\* try_send: into the channel, dropped when it is full, and the end of the
\* capture's work when the UDP thread is gone.
Enqueue ==
  /\ pending # NoFrame
  /\ pending' = NoFrame
  /\ \/ /\ udpPc # "gone" /\ Len(outbound) < OutboundSlots
        /\ outbound' = Append(outbound, pending)
        /\ UNCHANGED senderAlive
     \/ /\ udpPc # "gone" /\ Len(outbound) = OutboundSlots
        /\ UNCHANGED <<outbound, senderAlive>>
     \/ /\ udpPc = "gone"
        /\ senderAlive' = FALSE
        /\ UNCHANGED outbound
  /\ UNCHANGED <<serial, nextFrameId, lastEncoded, udpVars, restarts, network, receiverVars>>

-----------------------------------------------------------------------------
(* The UDP thread                                                          *)

Connect ==
  /\ udpPc = "connect"
  /\ udpPc' \in {"recv", "exit"}
  /\ UNCHANGED <<serial, castVars, outbound, sending, lastSent, restarts, network,
                 receiverVars>>

\* Mutant of TakeFrame: the newest access unit first.
TakeNewestFirst ==
  /\ udpPc \in {"recv", "drain"}
  /\ outbound # <<>>
  /\ sending' = outbound[Len(outbound)]
  /\ outbound' = SubSeq(outbound, 1, Len(outbound) - 1)
  /\ udpPc' = "drain"
  /\ UNCHANGED <<serial, castVars, lastSent, restarts, network, receiverVars>>

\* recv, or try_recv while there is a newer frame: the older one is discarded.
TakeFrame ==
  /\ udpPc \in {"recv", "drain"}
  /\ outbound # <<>>
  /\ sending' = Head(outbound)
  /\ outbound' = Tail(outbound)
  /\ udpPc' = "drain"
  /\ UNCHANGED <<serial, castVars, lastSent, restarts, network, receiverVars>>

Fragments(frame, count) ==
  {[id |-> frame.id, shape |-> frame.key, index |-> i, total |-> frame.total,
    unit |-> frame.serial, prev |-> frame.prev] : i \in 0 .. count - 1}

Transmit(count) ==
  network' = {d \in network : d.unit > sending.serial - Lifetime}
               \cup Fragments(sending, count)

\* send_access_unit, once try_recv has found the channel empty.
SendUnit ==
  /\ udpPc = "drain" /\ outbound = <<>>
  /\ Transmit(sending.total)
  /\ lastSent' = sending.serial
  /\ udpPc' = "recv" /\ sending' = NoFrame
  /\ UNCHANGED <<serial, castVars, outbound, restarts, receiverVars>>

\* The socket or the chunk limit fails it after some of the fragments.
SendFails ==
  /\ udpPc = "drain" /\ outbound = <<>>
  /\ \E count \in 0 .. sending.total - 1 : Transmit(count)
  /\ lastSent' = sending.serial
  /\ udpPc' = "exit" /\ sending' = NoFrame
  /\ UNCHANGED <<serial, castVars, outbound, restarts, receiverVars>>

\* The thread clears the flag, then drops its end of the channel.
ClearAlive ==
  /\ udpPc = "exit"
  /\ udpPc' = "closing"
  /\ senderAlive' = FALSE
  /\ UNCHANGED <<serial, nextFrameId, lastEncoded, pending, outbound, sending, lastSent,
                 restarts, network, receiverVars>>

DropChannel ==
  /\ udpPc = "closing"
  /\ udpPc' = "gone"
  /\ outbound' = <<>>
  /\ UNCHANGED <<serial, castVars, sending, lastSent, restarts, network, receiverVars>>

\* The user stops the sending program and starts it again, which takes longer
\* than a fragment stays in the network.
Restart ==
  /\ restarts < MaxRestarts
  /\ restarts' = restarts + 1
  /\ nextFrameId' = 0 /\ lastEncoded' = NoReference /\ pending' = NoFrame
  /\ outbound' = <<>> /\ senderAlive' = TRUE
  /\ udpPc' = "connect" /\ sending' = NoFrame
  /\ network' = {}
  /\ UNCHANGED <<serial, lastSent, receiverVars>>

-----------------------------------------------------------------------------
(* receiving_h264_to_display                                               *)

\* The decoder's answer to a complete unit that was not skipped.
Decode(d, known) ==
  LET sound == d.shape \/ (known # NoReference /\ known = d.prev)
  IN  \/ /\ shown' = [serial |-> d.unit, sound |-> sound]
         /\ reference' = IF sound THEN d.unit ELSE NoReference
         /\ waiting' = FALSE
      \/ /\ reference' = NoReference
         /\ waiting' = TRUE
         /\ UNCHANGED shown

\* The part of the loop after `add': still incomplete, skipped, or decoded by
\* the old decoder or a fresh one.
AfterAdd(r, d, mustWait) ==
  \/ /\ Incomplete(r) \/ (mustWait /\ ~r.shape)
     /\ waiting' = mustWait
     /\ UNCHANGED <<reference, shown, receiving>>
  \/ /\ Complete(r) /\ ~mustWait
     /\ Decode(d, reference)
     /\ UNCHANGED receiving
  \/ /\ Complete(r) /\ mustWait /\ r.shape
     /\ Decode(d, NoReference)
     /\ UNCHANGED receiving
  \/ /\ Complete(r) /\ mustWait /\ r.shape   \* LinuxH264Decoder::new()?
     /\ receiving' = FALSE
     /\ UNCHANGED <<reference, shown, waiting>>

AddFragment(r, d, mustWait) ==
  /\ Accepts(r, d)
  /\ reassembler' = Add(r, d)
  /\ AfterAdd(Add(r, d), d, mustWait)

\* Without WholeUnitLoss no unit is heard of before the unit it refers to.  An
\* outage is shorter than half of the ID range: is_newer_frame sees no further.
MayArrive(d) ==
  /\ WholeUnitLoss \/ heard = 0 \/ d.prev <= heard
  /\ d.unit - heard < IdRange \div 2

Arrive(d) ==
  /\ receiving
  /\ d \in network
  /\ MayArrive(d)
  /\ heard' = IF d.unit > heard THEN d.unit ELSE heard
  /\ UNCHANGED <<serial, castVars, outbound, udpVars, restarts, network>>

ReceiveCurrent(d) ==
  /\ Arrive(d)
  /\ d.id = reassembler.frameId
  /\ AddFragment(reassembler, d, waiting)

\* A fragment the unit already has, or of another shape or number of fragments.
ReceiveUseless(d) ==
  /\ Arrive(d)
  /\ d.id = reassembler.frameId
  /\ ~Accepts(reassembler, d)
  /\ UNCHANGED <<receiving, reassembler, waiting, reference, shown>>

ReceiveLate(d) ==
  /\ Arrive(d)
  /\ d.id # reassembler.frameId /\ ~IsNewerFrame(reassembler, d.id)
  /\ UNCHANGED <<receiving, reassembler, waiting, reference, shown>>

\* Mutant of ReceiveNewer: the unit given up leaves the decoder in use.
ReceiveNewerTrusting(d) ==
  /\ Arrive(d)
  /\ IsNewerFrame(reassembler, d.id)
  /\ WithinLimit(d)
  /\ AddFragment(Reset(reassembler, d), d, waiting)

ReceiveNewer(d) ==
  /\ Arrive(d)
  /\ IsNewerFrame(reassembler, d.id)
  /\ WithinLimit(d)
  /\ AddFragment(Reset(reassembler, d), d, waiting \/ Incomplete(reassembler))

ReceiveRefused(d) ==
  /\ Arrive(d)
  /\ IsNewerFrame(reassembler, d.id)
  /\ ~WithinLimit(d)
  /\ waiting' = TRUE
  /\ UNCHANGED <<receiving, reassembler, reference, shown>>

Next ==
  \/ Encode \/ EncodeFails \/ Enqueue
  \/ Connect \/ TakeFrame \/ SendUnit \/ SendFails \/ ClearAlive \/ DropChannel
  \/ Restart
  \/ \E d \in network :
       \/ ReceiveCurrent(d) \/ ReceiveUseless(d) \/ ReceiveLate(d)
       \/ ReceiveNewer(d) \/ ReceiveRefused(d)

Spec == Init /\ [][Next]_vars

-----------------------------------------------------------------------------
Unit == [serial : 1 .. MaxUnits, id : 0 .. IdRange - 1, key : BOOLEAN,
         total : Sizes, prev : 0 .. MaxUnits]

Fragment == [id : 0 .. IdRange - 1, shape : BOOLEAN, index : Nat, total : Sizes,
             unit : 1 .. MaxUnits, prev : 0 .. MaxUnits]

TypeOK ==
  /\ serial \in 0 .. MaxUnits /\ nextFrameId \in 0 .. IdRange - 1
  /\ lastEncoded \in 0 .. serial
  /\ pending \in Unit \cup {NoFrame} /\ sending \in Unit \cup {NoFrame}
  /\ outbound \in Seq(Unit) /\ Len(outbound) <= OutboundSlots
  /\ senderAlive \in BOOLEAN /\ receiving \in BOOLEAN /\ waiting \in BOOLEAN
  /\ udpPc \in {"connect", "recv", "drain", "exit", "closing", "gone"}
  /\ lastSent \in 0 .. serial /\ heard \in 0 .. lastSent
  /\ restarts \in 0 .. MaxRestarts
  /\ network \subseteq Fragment
  /\ reassembler.frameId \in 0 .. IdRange - 1
  /\ reassembler.shape \in BOOLEAN \cup {NoShape}
  /\ reassembler.total \in 0 .. MaxChunks
  /\ reassembler.received \subseteq 0 .. reassembler.total - 1
  /\ reassembler.buf \in [0 .. MaxChunks - 1 -> 0 .. MaxUnits]
  /\ reference \in 0 .. MaxUnits
  /\ shown \in [serial : 0 .. MaxUnits, sound : BOOLEAN]

\* reassembly.rs:103, "a missing fragment invalidates the entire unit": what is
\* complete was put together from the fragments of one access unit.
UnitIntact == Intact(reassembler)

\* The same as far as it holds when the sender may restart: until it does.
UnitIntactWithinRun == restarts = 0 => UnitIntact

\* transport.rs:529, P-frames have no reliable reference picture after a loss:
\* no picture is shown that was decoded against another one than the encoder's.
PicturesSound == shown.sound

\* A picture shown is newer than every one shown before it (is_newer_frame),
\* also when the frame IDs wrap, fragments arrive late or twice, or the sender
\* was restarted; so no access unit is shown twice.
ShownInOrder == [][shown'.serial > shown.serial]_shown

\* macos.rs:495, "retain the freshest already-encoded access unit": the UDP
\* thread gives up a unit only for a newer one, and sends none that is older
\* than one it sent.
FreshestSent ==
  [][/\ sending # NoFrame /\ sending' # NoFrame => sending'.serial > sending.serial
     /\ lastSent' # lastSent => lastSent' > lastSent]_<<sending, lastSent>>
=============================================================================
