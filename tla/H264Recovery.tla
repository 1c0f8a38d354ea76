---------------------------- MODULE H264Recovery ----------------------------
(***************************************************************************)
(* Does the picture come back?  An H.264 stream that never ends, the       *)
(* receiver of src/transport.rs and the window of src/display.rs behind a  *)
(* channel of one picture.  H264Stream follows a bounded stream with every *)
(* unit's identity; here the stream is endless, so frame IDs wrap for ever *)
(* and what the properties do not need (who refers to whom) is left out.   *)
(*                                                                         *)
(* A burst is the fragments of one access unit.  Of a whole burst every    *)
(* fragment arrives before the next unit is sent, which is all that is     *)
(* assumed of the network beside MaxSilent; of the others any may be lost, *)
(* and any may come late or twice until the burst after the next one.  So  *)
(* what arrives is less than half of the ID range ahead of what arrived    *)
(* before it in the same run of the sender, as is_newer_frame needs it.    *)
(***************************************************************************)
EXTENDS Reassembly

CONSTANTS Total,        \* fragments of a unit
          Gop,          \* units from one IDR to the next
          MaxSilent,    \* bound: units in a row of which nothing arrives
          MaxRestarts   \* bound: times the sending program is started again

ASSUME RecoveryAssumption ==
  /\ Total \in 1 .. MaxChunks
  /\ Gop \in Nat \ {0}
  /\ MaxSilent \in Nat /\ MaxSilent + 2 < IdRange \div 2
  /\ MaxRestarts \in Nat

VARIABLES
  nextFrameId,   \* H264CastHandler.next_frame_id
  sinceKey,      \* units since the encoder's last IDR
  run,           \* how often the sending program was started again
  network,       \* fragments of the last two bursts
  whole,         \* nothing of the last burst is lost or overtaken
  arrived,       \* fragments of the last burst that have arrived
  silent,        \* bursts before it of which nothing arrived, in a row
  receiving,     \* the receiver has not returned an error
  reassembler, waiting,   \* waiting_for_recovery_keyframe
  picture        \* the channel to the window holds a picture

senderVars   == <<nextFrameId, sinceKey, run>>
networkVars  == <<network, whole, silent>>
receiverVars == <<receiving, reassembler, waiting, picture>>
vars == <<senderVars, networkVars, arrived, receiverVars>>

Init ==
  /\ nextFrameId = 0 /\ sinceKey = Gop - 1 /\ run = 0
  /\ network = {} /\ whole = FALSE /\ arrived = {} /\ silent = 0
  /\ receiving = TRUE /\ reassembler = NewReassembler /\ waiting = TRUE
  /\ picture = FALSE

-----------------------------------------------------------------------------
(* cast_h264: encode a unit and send it                                    *)

Burst(key) ==
  {[id |-> nextFrameId, shape |-> key, index |-> i, total |-> Total, unit |-> run]
     : i \in 0 .. Total - 1}

\* The receiver has heard of the last burst, or the network may be silent; when
\* the receiver is gone, nothing is assumed.
Heard ==
  receiving => /\ whole => arrived = 0 .. Total - 1
               /\ arrived # {} \/ silent < MaxSilent

Silence == IF arrived = {} /\ receiving THEN silent + 1 ELSE 0

\* Mutant of NextId: the ID does not wrap.
NextIdUnwrapped == nextFrameId' = nextFrameId + 1

NextId == nextFrameId' = (nextFrameId + 1) % IdRange

\* The encoder makes an IDR when it likes, and at the latest after Gop units.
SendUnit(key, intact) ==
  /\ Heard
  /\ key \/ sinceKey < Gop - 1
  /\ sinceKey' = IF key THEN 0 ELSE sinceKey + 1
  /\ NextId
  /\ network' = {d \in network : (nextFrameId - d.id) % IdRange = 1} \cup Burst(key)
  /\ whole' = intact
  /\ arrived' = {}
  /\ silent' = Silence
  /\ UNCHANGED <<run, receiverVars>>

\* encode_surface fails and its ID is used up, or a full channel or a newer
\* unit takes the unit away before it is sent.
SkipUnit(key) ==
  /\ Heard
  /\ key \/ sinceKey < Gop - 1
  /\ sinceKey' = IF key THEN 0 ELSE sinceKey + 1
  /\ NextId
  /\ whole' = FALSE
  /\ arrived' = {}
  /\ Silence < MaxSilent /\ silent' = Silence
  /\ UNCHANGED <<run, network, receiverVars>>

\* The sending program is started again: new encoder, IDs from 0.
Restart ==
  /\ run < MaxRestarts
  /\ run' = run + 1
  /\ nextFrameId' = 0 /\ sinceKey' = Gop - 1
  /\ network' = {} /\ whole' = FALSE /\ arrived' = {} /\ silent' = 0
  /\ UNCHANGED receiverVars

-----------------------------------------------------------------------------
(* receiving_h264_to_display                                               *)

Arrive(d) ==
  /\ receiving
  /\ arrived' = IF (d.id + 1) % IdRange = nextFrameId /\ d.unit = run
                THEN arrived \cup {d.index} ELSE arrived
  /\ UNCHANGED <<senderVars, networkVars>>

\* try_send to the window: the picture is dropped while it holds another one.
ShowPicture == picture' = TRUE

\* Mutant of Decode: a failing decoder stays in use.
DecodeCarryingOn(r, fresh) ==
  \/ waiting' = FALSE /\ ShowPicture
  \/ ~(fresh /\ Intact(r)) /\ waiting' = FALSE /\ UNCHANGED picture

\* A fresh decoder makes a picture of an IDR in one piece; whether one that was
\* in use or got a torn unit does is its own affair.
Decode(r, fresh) ==
  \/ waiting' = FALSE /\ ShowPicture
  \/ ~(fresh /\ Intact(r)) /\ waiting' = TRUE /\ UNCHANGED picture

\* Mutant of AfterAdd: the decoder that failed gets the keyframe.
AfterAddReusing(r, mustWait) ==
  \/ /\ Incomplete(r) \/ (mustWait /\ ~r.shape)
     /\ waiting' = mustWait
     /\ UNCHANGED <<receiving, picture>>
  \/ /\ Complete(r) /\ (mustWait => r.shape)
     /\ Decode(r, FALSE)
     /\ UNCHANGED receiving

AfterAdd(r, mustWait) ==
  \/ /\ Incomplete(r) \/ (mustWait /\ ~r.shape)
     /\ waiting' = mustWait
     /\ UNCHANGED <<receiving, picture>>
  \/ /\ Complete(r) /\ (mustWait => r.shape)
     /\ Decode(r, mustWait)
     /\ UNCHANGED receiving
  \/ /\ Complete(r) /\ mustWait /\ r.shape   \* LinuxH264Decoder::new()?
     /\ receiving' = FALSE
     /\ UNCHANGED <<waiting, picture>>

\* A fragment of the unit in progress.
ReceiveCurrent(d) ==
  /\ Arrive(d)
  /\ d.id = reassembler.frameId
  /\ Accepts(reassembler, d)
  /\ reassembler' = Add(reassembler, d)
  /\ AfterAdd(Add(reassembler, d), waiting)

\* The first fragment heard of a newer unit; one in progress is given up.
ReceiveNewer(d) ==
  /\ Arrive(d)
  /\ IsNewerFrame(reassembler, d.id)
  /\ reassembler' = Add(Reset(reassembler, d), d)
  /\ AfterAdd(Add(Reset(reassembler, d), d), waiting \/ Incomplete(reassembler))

\* A fragment of a unit that is not newer, or one that fits or adds nothing.
ReceiveIgnored(d) ==
  /\ Arrive(d)
  /\ \/ d.id # reassembler.frameId /\ ~IsNewerFrame(reassembler, d.id)
     \/ d.id = reassembler.frameId /\ ~Accepts(reassembler, d)
  /\ UNCHANGED receiverVars

Receive(d) == ReceiveCurrent(d) \/ ReceiveNewer(d) \/ ReceiveIgnored(d)

\* AboutToWait in run_display.
Present ==
  /\ picture
  /\ picture' = FALSE
  /\ UNCHANGED <<senderVars, networkVars, arrived, receiving, reassembler, waiting>>

Next ==
  \/ \E key, intact \in BOOLEAN : SendUnit(key, intact)
  \/ \E key \in BOOLEAN : SkipUnit(key)
  \/ Restart
  \/ \E d \in network : Receive(d)
  \/ Present

Spec == Init /\ [][Next]_vars

-----------------------------------------------------------------------------
Sent(key) == \E intact \in BOOLEAN : SendUnit(key, intact)

LastBurst == {d \in network : (d.id + 1) % IdRange = nextFrameId}

\* The cast goes on; again and again an IDR arrives in one piece; a fragment of
\* a whole burst, and one after MaxSilent silent bursts, is received; the event
\* loop of the window runs.
Fairness ==
  /\ WF_vars(\E key \in BOOLEAN : Sent(key))
  /\ SF_vars(SendUnit(TRUE, TRUE))
  /\ \A i \in 0 .. Total - 1 :
       WF_vars(whole /\ i \notin arrived
                 /\ \E d \in LastBurst : d.index = i /\ Receive(d))
  /\ WF_vars(silent = MaxSilent /\ arrived = {} /\ \E d \in LastBurst : Receive(d))
  /\ WF_vars(Present)

FairSpec == Spec /\ Fairness

\* Every field holds what the code can store in it.
TypeOK ==
  /\ nextFrameId \in 0 .. IdRange - 1
  /\ sinceKey \in 0 .. Gop - 1 /\ run \in 0 .. MaxRestarts
  /\ network \subseteq [id : 0 .. IdRange - 1, shape : BOOLEAN, index : 0 .. Total - 1,
                         total : {Total}, unit : 0 .. MaxRestarts]
  /\ whole \in BOOLEAN /\ arrived \subseteq 0 .. Total - 1
  /\ silent \in 0 .. MaxSilent
  /\ receiving \in BOOLEAN /\ waiting \in BOOLEAN /\ picture \in BOOLEAN
  /\ reassembler.frameId \in 0 .. IdRange - 1
  /\ reassembler.shape \in BOOLEAN \cup {NoShape}
  /\ reassembler.received \subseteq 0 .. reassembler.total - 1

\* How many units after `id' were numbered.
Age(id) == (nextFrameId - 1 - id) % IdRange

\* transport.rs:536-567 - no unit that arrives whole is passed over: a receiver
\* within its horizon has all fragments of the last unit that have arrived,
\* whatever it was working at before and however often the frame ID wrapped.
WholeUnitAssembled ==
  run = 0 /\ arrived = 0 .. Total - 1 =>
    Complete(reassembler) /\ Age(reassembler.frameId) = 0

\* transport.rs:529 and 574-585 - what ends the wait is the last fragment of an
\* IDR, in that very step: a receiver that waits for a keyframe decodes with a
\* fresh decoder or, if there is none to be had, returns its error.
IdrEndsWait ==
  [][/\ run = 0 /\ waiting
     /\ arrived' # arrived /\ arrived' = 0 .. Total - 1
     /\ \E d \in LastBurst : d.shape
     => ~waiting' \/ ~receiving']_vars

\* transport.rs:529 - waiting for a recovery keyframe ends: after any losses,
\* decoder errors and a restart of the sender, over any number of wraps of the
\* frame ID, the receiver decodes again (or has returned an error).
Recovers == waiting ~> (~waiting \/ ~receiving)

\* display.rs:83 - the window goes on presenting new pictures for as long as
\* the receiver runs, although it takes them from a channel of one.
KeepsPresenting == <>~receiving \/ []<><<Present>>_vars
=============================================================================
