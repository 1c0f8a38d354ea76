----------------------------- MODULE RawStream -----------------------------
(***************************************************************************)
(* The raw path from the socket of sender_loop to the window: fragments of *)
(* compressed frames over UDP, the loop of receiving (src/transport.rs)    *)
(* with its statistics and receipts, and either the display channel and    *)
(* the window loop of src/display.rs or standard output.                   *)
(*                                                                         *)
(* Frames carry a serial number that the program does not see.  A frame of *)
(* the program's own sender stays below the limits of src/config.rs: even  *)
(* incompressible, MAX_RAW_FRAME_BYTES take fewer bytes than               *)
(* MAX_COMPRESSED_FRAME_BYTES, so no chunk count is refused here.          *)
(***************************************************************************)
EXTENDS Reassembly, Sequences

CONSTANTS
  Sizes,        \* chunks a frame may need
  Streams,      \* StreamSpecs a run of the sender may have
  ReportEvery,  \* REPORT_FRAMES outcomes between two reports
  MaxFrames,    \* bound: frames sent
  MaxRestarts,  \* bound: times the sending program is started again
  Lifetime      \* bound: serials for which the network may keep a fragment

ASSUME RawAssumption ==
  /\ Sizes \subseteq 1 .. MaxChunks
  /\ NoShape \notin Streams
  /\ ReportEvery \in Nat \ {0, 1}
  /\ MaxFrames \in Nat /\ MaxRestarts \in Nat
  /\ Lifetime \in 1 .. IdRange \div 2

VARIABLES
  serial,       \* the last serial given out
  frameId, stream, senderUp, restarts,
  network,      \* fragments that may still arrive
  heard,        \* the newest serial a fragment arrived of
  receiverUp, reassembler,
  stats,        \* ReassemblyStats, and what its reports took out of it
  taken,        \* history: frames the reassembler was reset for
  echoed,       \* receipts sent, and the serial of the last frame with one
  sink, channel,   \* where pictures go; the channel to the window
  shown         \* serial of the last picture presented or written

senderVars   == <<serial, frameId, stream, senderUp, restarts>>
receiverVars == <<heard, receiverUp, reassembler, stats, taken, echoed>>
sinkVars     == <<sink, channel, shown>>
vars == <<senderVars, network, receiverVars, sinkVars>>

Init ==
  /\ serial = 0 /\ frameId = 0 /\ stream \in Streams
  /\ senderUp = TRUE /\ restarts = 0
  /\ network = {} /\ heard = 0
  /\ receiverUp = TRUE /\ reassembler = NewReassembler
  /\ stats = [completed |-> 0, dropped |-> 0, outcomes |-> 0, reported |-> 0]
  /\ taken = 0 /\ echoed = [count |-> 0, last |-> 0]
  /\ sink \in {"window", "stdout"} /\ channel = <<>> /\ shown = 0

-----------------------------------------------------------------------------
(* The sending program                                                     *)

Fragments(total, count) ==
  {[id |-> frameId, shape |-> stream, index |-> i, total |-> total,
    unit |-> serial + 1] : i \in 0 .. count - 1}

Transmit(total, count) ==
  /\ senderUp /\ serial < MaxFrames
  /\ serial' = serial + 1
  /\ network' = {d \in network : d.unit > serial + 1 - Lifetime}
                  \cup Fragments(total, count)
  /\ UNCHANGED <<stream, restarts, receiverVars, sinkVars>>

\* Mutant of SendFrame: the frame ID does not wrap.
SendFrameUnwrapped ==
  /\ \E total \in Sizes : Transmit(total, total)
  /\ frameId' = frameId + 1
  /\ UNCHANGED senderUp

SendFrame ==
  /\ \E total \in Sizes : Transmit(total, total)
  /\ frameId' = (frameId + 1) % IdRange
  /\ UNCHANGED senderUp

SendFails ==
  /\ \E total \in Sizes : \E count \in 0 .. total - 1 : Transmit(total, count)
  /\ senderUp' = FALSE
  /\ UNCHANGED frameId

\* The user starts the sending program again, perhaps with another source,
\* which takes longer than a fragment stays in the network.
Restart ==
  /\ restarts < MaxRestarts
  /\ restarts' = restarts + 1
  /\ frameId' = 0 /\ stream' \in Streams /\ senderUp' = TRUE
  /\ network' = {}
  /\ UNCHANGED <<serial, receiverVars, sinkVars>>

-----------------------------------------------------------------------------
(* receiving                                                               *)

\* record_complete or record_drop, each with report_if_ready.
Record(s, outcome) ==
  LET counted == [s EXCEPT ![outcome] = @ + 1, !.outcomes = @ + 1]
  IN  IF counted.outcomes # ReportEvery THEN counted
      ELSE [completed |-> 0, dropped |-> 0, outcomes |-> 0,
            reported |-> s.reported + counted.completed + counted.dropped]

\* Mutant of RecordAbandoned: a frame replaced when complete counts as dropped.
RecordReplaced(s) == IF reassembler.total > 0 THEN Record(s, "dropped") ELSE s

RecordAbandoned(s) == IF Incomplete(reassembler) THEN Record(s, "dropped") ELSE s

\* try_send to a window that has not taken the frame before drops this one.
Show(d) ==
  \/ /\ sink = "window"
     /\ channel' = IF channel = <<>> THEN <<d.unit>> ELSE channel
     /\ UNCHANGED <<receiverUp, shown>>
  \/ /\ sink = "stdout"
     /\ shown' = d.unit
     /\ UNCHANGED <<receiverUp, channel>>
  \/ /\ sink = "stdout"               \* the write fails
     /\ receiverUp' = FALSE
     /\ UNCHANGED <<channel, shown>>

\* The rest of the loop for a frame that `add' completed: decompressed to its
\* size, acknowledged and shown, or given up.
Finish(d) ==
  \/ /\ echoed' = [count |-> echoed.count + 1, last |-> d.unit]
     /\ Show(d)
  \/ UNCHANGED <<echoed, receiverUp, channel, shown>>

\* Mutant of AddFragment: a chunk that is already there completes a frame too.
AddFragmentAgain(r, d, s) ==
  /\ d.shape = r.shape /\ d.total = r.total
  /\ reassembler' = Add(r, d)
  /\ stats' = IF Complete(Add(r, d)) THEN Record(s, "completed") ELSE s
  /\ IF Complete(Add(r, d)) THEN Finish(d)
     ELSE UNCHANGED <<echoed, receiverUp, channel, shown>>

AddFragment(r, d, s) ==
  /\ Accepts(r, d)
  /\ reassembler' = Add(r, d)
  /\ \/ /\ ~Complete(Add(r, d))
        /\ stats' = s
        /\ UNCHANGED <<echoed, receiverUp, channel, shown>>
     \/ /\ Complete(Add(r, d))
        /\ stats' = Record(s, "completed")
        /\ Finish(d)

\* An outage is shorter than half of the ID range: is_newer_frame sees no
\* further.
Arrive(d) ==
  /\ receiverUp
  /\ d \in network
  /\ d.unit - heard < IdRange \div 2
  /\ heard' = IF d.unit > heard THEN d.unit ELSE heard
  /\ UNCHANGED <<senderVars, network, sink>>

ReceiveCurrent(d) ==
  /\ Arrive(d)
  /\ d.id = reassembler.frameId
  /\ AddFragment(reassembler, d, stats)
  /\ UNCHANGED taken

\* A chunk the frame already has, or of another stream or number of chunks.
ReceiveUseless(d) ==
  /\ Arrive(d)
  /\ d.id = reassembler.frameId
  /\ ~Accepts(reassembler, d)
  /\ UNCHANGED <<receiverUp, reassembler, stats, taken, echoed, channel, shown>>

ReceiveLate(d) ==
  /\ Arrive(d)
  /\ d.id # reassembler.frameId /\ ~IsNewerFrame(reassembler, d.id)
  /\ UNCHANGED <<receiverUp, reassembler, stats, taken, echoed, channel, shown>>

ReceiveNewer(d) ==
  /\ Arrive(d)
  /\ IsNewerFrame(reassembler, d.id)
  /\ AddFragment(Reset(reassembler, d), d, RecordAbandoned(stats))
  /\ taken' = taken + 1

-----------------------------------------------------------------------------
(* run_display                                                             *)

Present ==
  /\ channel # <<>>
  /\ shown' = Head(channel)
  /\ channel' = Tail(channel)
  /\ UNCHANGED <<senderVars, network, receiverVars, sink>>

\* The event loop ends, and the receiver thread with the process.
CloseWindow ==
  /\ sink = "window"
  /\ receiverUp' = FALSE
  /\ channel' = <<>>
  /\ UNCHANGED <<senderVars, network, heard, reassembler, stats, taken, echoed,
                 sink, shown>>

Next ==
  \/ SendFrame \/ SendFails \/ Restart
  \/ \E d \in network :
       \/ ReceiveCurrent(d) \/ ReceiveUseless(d)
       \/ ReceiveLate(d) \/ ReceiveNewer(d)
  \/ Present \/ CloseWindow

Spec == Init /\ [][Next]_vars

-----------------------------------------------------------------------------
Fragment == [id : 0 .. IdRange - 1, shape : Streams, index : 0 .. MaxChunks - 1,
             total : Sizes, unit : 1 .. MaxFrames]

\* Every field holds what the code can store in it.
TypeOK ==
  /\ serial \in 0 .. MaxFrames /\ frameId \in 0 .. IdRange - 1
  /\ stream \in Streams /\ restarts \in 0 .. MaxRestarts
  /\ {senderUp, receiverUp} \subseteq BOOLEAN
  /\ network \subseteq Fragment /\ heard \in 0 .. serial
  /\ reassembler.frameId \in 0 .. IdRange - 1
  /\ reassembler.shape \in Streams \cup {NoShape}
  /\ reassembler.total \in Sizes \cup {0}
  /\ reassembler.received \subseteq 0 .. reassembler.total - 1
  /\ stats \in [completed : Nat, dropped : Nat, outcomes : 0 .. ReportEvery - 1,
                reported : Nat]
  /\ taken \in Nat /\ echoed \in [count : Nat, last : 0 .. serial]
  /\ sink \in {"window", "stdout"} /\ channel \in Seq(1 .. MaxFrames)
  /\ shown \in 0 .. serial

\* reassembly.rs:7, one in-progress compressed frame: what goes to the
\* decompressor, which has no checksum, was cut from one frame.  A restarted
\* sender begins at frame ID 0 again, so this is for one run of it.
FrameIntact == restarts = 0 => Intact(reassembler)

\* metrics.rs:265-282 - the reports lose and repeat no frame: each frame the
\* reassembler took up is still in progress, or counted once, as completed or
\* as dropped.
EveryFrameOneOutcome ==
  taken = stats.completed + stats.dropped + stats.reported
            + (IF Incomplete(reassembler) THEN 1 ELSE 0)

\* transport.rs:405 - a receipt is for a newer frame than the receipt before:
\* no frame is acknowledged twice, or after one that followed it.
EchoedOnceInOrder == [][echoed'.last > echoed.last]_echoed

\* The window and standard output never go back in time, and show nothing that
\* has no receipt.
ShownInOrder == [][shown' > shown /\ shown' <= echoed'.last]_shown
=============================================================================
