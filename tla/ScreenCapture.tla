--------------------------- MODULE ScreenCapture ---------------------------
(***************************************************************************)
(* The screen sources in front of the handoff: ScreenCaptureState of       *)
(* src/screen/linux.rs (backend "pipewire") and Handler of                 *)
(* src/screen/macos.rs (backend "screencapturekit"), with the validation   *)
(* and the row copy of publish_strided.                                    *)
(*                                                                         *)
(* The operating system calls the callbacks of one stream one at a time,   *)
(* and PipeWire reports a new format between two of them.  What a callback *)
(* decides before it claims a slot touches nothing shared and is one step  *)
(* with the claim; the sender runs between claim, copy and publication.    *)
(***************************************************************************)
EXTENDS FrameHandoff

CONSTANTS RowBytes, Height,         \* the image: a packed row, the rows
          Memory,                   \* bytes a mapped buffer has
          Offsets, Sizes, Strides,  \* what a driver writes in a chunk
          MaxCallbacks              \* bound: callbacks of one stream

ASSUME ScreenAssumption ==
  /\ RowBytes \in Nat \ {0} /\ Height \in Nat \ {0}
  /\ Memory \in Nat /\ MaxCallbacks \in Nat
  /\ Offsets \subseteq Nat /\ Sizes \subseteq Nat /\ Strides \subseteq Int

VARIABLES
  backend,     \* the source this program was started with
  format,      \* external: the format of the buffers PipeWire now delivers
  negotiated,  \* negotiated_format
  source,      \* the buffer the callback holds, while it has a slot
  callbacks, published, malformed, rejected   \* the counters; macOS has none

counters   == <<callbacks, published, malformed, rejected>>
screenVars == <<backend, format, negotiated, source, counters>>

Formats == {"none", "unreadable", "other", "expected"}

Buffers == [format : Formats, mapped : BOOLEAN, offset : Offsets,
            size : Sizes, stride : Strides]

NoBuffer == [format |-> "none", mapped |-> FALSE, offset |-> 0, size |-> 0,
             stride |-> 0]

ScreenInit ==
  /\ Init /\ Source = "callback"   \* the callback publishes by itself
  /\ backend \in {"pipewire", "screencapturekit"}
  /\ format = "none" /\ negotiated = FALSE
  /\ source = NoBuffer
  /\ callbacks = 0 /\ published = 0 /\ malformed = 0 /\ rejected = 0

-----------------------------------------------------------------------------
\* Mutant of Negotiates: an unreadable format leaves the flag as it was.
NegotiatesReadable(f) ==
  IF f = "unreadable" THEN negotiated ELSE f = "expected"

\* What observe_format concludes from a Format parameter.
Negotiates(f) == f = "expected"

\* param_changed, on the loop thread that also runs the capture callback.
ObserveFormat ==
  /\ backend = "pipewire"
  /\ capturePc = "claim"
  /\ \E f \in Formats \ {format} :
       /\ format' = f
       /\ negotiated' = Negotiates(f)
  /\ UNCHANGED <<vars, backend, source, counters>>

\* The chunk lies in the memory and its stride is usable.
Slice(b) == b.mapped /\ b.stride > 0 /\ b.offset + b.size <= Memory

\* Mutant of Needed: the rows before the last one are enough.
NeededBeforeLast(stride) == stride * (Height - 1)

\* The bytes from the first to the last pixel of a strided image.
Needed(stride) == stride * (Height - 1) + RowBytes

\* publish_strided validates before it claims a slot.
Accepted(b) == b.stride >= RowBytes /\ b.size >= Needed(b.stride)

\* source[row * stride ..][..row_bytes], the slices of the row copy.
RowsInside(b) ==
  \A row \in 0 .. Height - 1 : row * b.stride + RowBytes <= b.size

-----------------------------------------------------------------------------
\* One more call of capture_one, when none is running.
CaptureOne ==
  /\ backend = "pipewire"
  /\ capturePc = "claim"
  /\ callbacks < MaxCallbacks
  /\ callbacks' = callbacks + 1
  /\ UNCHANGED <<backend, format, negotiated>>

NothingDequeued ==
  /\ CaptureOne
  /\ malformed' = malformed + 1
  /\ UNCHANGED <<vars, source, published, rejected>>

\* Mutant of RejectFormat: the callback returns without counting.
RejectFormatUncounted ==
  /\ CaptureOne
  /\ ~negotiated
  /\ UNCHANGED <<vars, source, published, malformed, rejected>>

RejectFormat ==
  /\ CaptureOne
  /\ ~negotiated
  /\ rejected' = rejected + 1
  /\ UNCHANGED <<vars, source, published, malformed>>

\* An unusable chunk, or the error of publish_strided.
RejectBuffer ==
  /\ CaptureOne
  /\ negotiated
  /\ \E b \in Buffers : b.format = format /\ ~(Slice(b) /\ Accepted(b))
  /\ malformed' = malformed + 1
  /\ UNCHANGED <<vars, source, published, rejected>>

\* A buffer that reaches publish_strided through capture_one.
FromPipeWire(b) ==
  /\ CaptureOne
  /\ negotiated
  /\ b.format = format
  /\ Slice(b)

\* A sample buffer that reaches it through did_output_sample_buffer, which
\* looks at every buffer's own shape, locks it and counts nothing.
FromScreenKit(b) ==
  /\ backend = "screencapturekit"
  /\ b.format = "expected"
  /\ b.mapped /\ b.offset = 0
  /\ UNCHANGED <<backend, format, negotiated, callbacks>>

Offered(b) == (FromPipeWire(b) \/ FromScreenKit(b)) /\ Accepted(b)

ClaimForBuffer ==
  /\ \E b \in Buffers : Offered(b) /\ source' = b
  /\ CaptureClaim
  /\ UNCHANGED <<published, malformed, rejected>>

DropNoFreeSlot ==
  /\ \E b \in Buffers : Offered(b)
  /\ CallbackDrop
  /\ UNCHANGED <<source, published, malformed, rejected>>

\* The row copy and set_info; a slice out of the source panics.
CopyRows ==
  /\ \/ RowsInside(source) /\ CaptureFill
     \/ /\ ~RowsInside(source)
        /\ capturePc = "fill" /\ capturePc' = "panicked"
        /\ UNCHANGED <<freeVars, readyVars, pool, captureHeld, captureRunning,
                       frames, dropped, senderVars>>
  /\ UNCHANGED screenVars

\* The ID goes to ReadySlots and the buffer back to the operating system.
PublishSlot ==
  /\ CapturePublish
  /\ source' = NoBuffer
  /\ published' = IF backend = "pipewire" THEN published + 1 ELSE published
  /\ UNCHANGED <<backend, format, negotiated, callbacks, malformed, rejected>>

ScreenNext ==
  \/ ObserveFormat \/ NothingDequeued \/ RejectFormat \/ RejectBuffer
  \/ ClaimForBuffer \/ DropNoFreeSlot \/ CopyRows \/ PublishSlot
  \/ SenderNext /\ UNCHANGED screenVars

ScreenSpec == ScreenInit /\ [][ScreenNext]_<<vars, screenVars>>

-----------------------------------------------------------------------------
\* Every field holds what the code can store in it.
ScreenTypeOK ==
  /\ TypeOK
  /\ backend \in {"pipewire", "screencapturekit"}
  /\ format \in Formats /\ negotiated \in BOOLEAN
  /\ source \in Buffers \cup {NoBuffer}
  /\ {callbacks, published, malformed, rejected} \subseteq Nat

\* linux.rs:317 and macos.rs:48 - what is copied into a slot is an image of
\* the shape the pipeline was built for, through every renegotiation.
OnlyExpectedShape ==
  capturePc \in {"fill", "publish"} => source.format = "expected"

\* The frames that have gone from the callback to the sender and its cycle.
LeftCapture == frameId + LetGo + Len(readyQueue) + Len(senderHeld)

\* linux.rs:405 - the counters of the callback and those of the two stages
\* together lose no callback: it was malformed, rejected, or its frame was
\* dropped, retired, sent or is still in the cycle, and what has left the
\* callback for the sender was published.
CallbacksAccounted ==
  (backend = "pipewire" /\ NoPanic) =>
    /\ callbacks = malformed + rejected + dropped + stale + reported
                     + frameId + LetGo + InCycle
                     + (IF capturePc = "fill" THEN 1 ELSE 0)
    /\ published \in LeftCapture .. LeftCapture + dropped + stale + reported

\* pipeline.rs:172 - what publish_strided lets through, its copy can do: with
\* any buffer and any renegotiation the source is a callback source of the
\* handoff, which neither panics in the copy nor keeps a slot.
ImplementsHandoff == Spec
=============================================================================
