---------------------------- MODULE FrameSources ----------------------------
(***************************************************************************)
(* The sources that capture_loop drives, in front of the handoff:          *)
(* FileCapture and V4l2Capture of src/capture.rs.  capture_once calls      *)
(* next_frame with a slot and discard_next_frame without one.  A file of   *)
(* raw frames is played in a circle, past the frames the pipeline drops;   *)
(* another program may cut it short.  A camera may deliver a buffer that   *)
(* is too short, or fail.                                                  *)
(***************************************************************************)
EXTENDS FrameHandoff

CONSTANTS FrameSize,    \* FRAME_SIZE
          FileLength    \* the file's length when it is opened

ASSUME SourcesAssumption ==
  /\ FrameSize \in Nat \ {0}
  /\ FileLength \in Nat /\ FileLength >= FrameSize   \* open fails otherwise

VARIABLES
  device,      \* the source this program was started with
  length,      \* external: the file's length now
  position,    \* where the reader is in the file
  index,       \* the frames read or skipped since the last rewind
  origin       \* history: where in the file a slot's frame came from

sourceVars == <<device, length, position, index, origin>>

\* FileCapture::open, once and for all.
TotalFrames == FileLength \div FrameSize

SourcesInit ==
  /\ Init /\ Source = "thread"     \* capture_loop drives them
  /\ device \in {"file", "camera"}
  /\ length = FileLength
  /\ position = 0 /\ index = 0
  /\ origin = [s \in Slots |-> 0]

-----------------------------------------------------------------------------
(* FileCapture                                                             *)

\* Mutant of BeginNextFrame: one frame more before the rewind.
BeginNextFrameLate ==
  IF index > TotalFrames THEN [position |-> 0, index |-> 0]
                         ELSE [position |-> position, index |-> index]

\* begin_next_frame: the end of the last whole frame leads back to the start.
BeginNextFrame ==
  IF index >= TotalFrames THEN [position |-> 0, index |-> 0]
                          ELSE [position |-> position, index |-> index]

\* The reader has moved past one frame, and finish_frame counts it.
FinishFrame(begun) ==
  /\ position' = begun.position + FrameSize
  /\ index' = begun.index + 1

ReadFrame ==
  /\ device = "file"
  /\ CaptureFill
  /\ BeginNextFrame.position + FrameSize <= length
  /\ FinishFrame(BeginNextFrame)
  /\ origin' = [origin EXCEPT ![captureHeld[1]] = BeginNextFrame.position]
  /\ UNCHANGED <<device, length>>

\* read_exact meets the end of the file.
ReadFails ==
  /\ device = "file"
  /\ capturePc = "fill"
  /\ CaptureFails
  /\ BeginNextFrame.position + FrameSize > length
  /\ position' = BeginNextFrame.position
  /\ index' = BeginNextFrame.index
  /\ UNCHANGED <<device, length, origin>>

\* Mutant of SkipFrame: a dropped frame stays in the file for the next read.
SkipFrameNot ==
  /\ device = "file"
  /\ CaptureDiscard
  /\ UNCHANGED sourceVars

\* A seek past the end of the file succeeds.
SkipFrame ==
  /\ device = "file"
  /\ CaptureDiscard
  /\ FinishFrame(BeginNextFrame)
  /\ UNCHANGED <<device, length, origin>>

\* Bound: once, and to whole frames, as only whole frames are read.
Truncate ==
  /\ device = "file"
  /\ length = FileLength
  /\ \E kept \in 0 .. TotalFrames : length' = kept * FrameSize
  /\ UNCHANGED <<vars, device, position, index, origin>>

-----------------------------------------------------------------------------
(* V4l2Capture: dequeue waits for a buffer; a short one fails next_frame   *)

DequeueFrame ==
  /\ device = "camera"
  /\ CaptureFill \/ CaptureDiscard
  /\ UNCHANGED sourceVars

DequeueFails ==
  /\ device = "camera"
  /\ CaptureFails
  /\ UNCHANGED sourceVars

-----------------------------------------------------------------------------
\* The steps of the handoff between which the source works.
Handoff ==
  /\ CaptureClaim \/ CaptureNoSlot \/ CapturePublish \/ SenderNext
  /\ UNCHANGED sourceVars

SourcesNext ==
  \/ ReadFrame \/ ReadFails \/ SkipFrame \/ Truncate
  \/ DequeueFrame \/ DequeueFails
  \/ Handoff

SourcesSpec == SourcesInit /\ [][SourcesNext]_<<vars, sourceVars>>
               /\ SenderFairness

-----------------------------------------------------------------------------
\* Every field holds what the code can store in it; the reader never stands
\* behind the last whole frame.
SourcesTypeOK ==
  /\ TypeOK
  /\ device \in {"file", "camera"}
  /\ length \in 0 .. FileLength
  /\ index \in 0 .. TotalFrames /\ position \in 0 .. FileLength
  /\ origin \in [Slots -> 0 .. FileLength]

\* capture.rs:275 - the source keeps pace with the frames the pipeline drops:
\* the n-th frame offered is the n-th of the file played in a circle, whether
\* the ones before it were read into a slot or skipped.
FramesOfTheFile ==
  device = "file" =>
    \A s \in Slots : pool[s].info # None =>
      origin[s] = ((pool[s].info - 1) % TotalFrames) * FrameSize

\* capture.rs:290 - a file that keeps its whole frames plays for ever, whatever
\* partial frame it ends with.
WholeFileNeverFails ==
  (device = "file" /\ ~captureRunning) => length < TotalFrames * FrameSize
=============================================================================
