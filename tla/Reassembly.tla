----------------------------- MODULE Reassembly -----------------------------
(***************************************************************************)
(* src/reassembly.rs: Reassembler and H264Reassembler as values.  Both     *)
(* keep one in-progress unit; they differ in what identifies a fragment as *)
(* the unit's own (`shape': the stream spec, or the H.264 flags).          *)
(*                                                                         *)
(* A fragment is a record with the fields of the packet header it needs    *)
(* (id, shape, index, total) and `unit', which stands for its payload: the *)
(* unit the sender cut it from.                                            *)
(***************************************************************************)
EXTENDS Integers, FiniteSets

CONSTANTS IdRange,     \* frame IDs are words below IdRange (2^32)
          MaxChunks,   \* chunks that fit MAX_COMPRESSED_FRAME_BYTES
          NoShape      \* before the first unit

ASSUME ReassemblyAssumption ==
  /\ IdRange \in Nat /\ IdRange % 2 = 0 /\ IdRange > 0
  /\ MaxChunks \in Nat \ {0}

NewReassembler ==
  [frameId  |-> IdRange - 1,
   shape    |-> NoShape,
   total    |-> 0,
   received |-> {},
   buf      |-> [i \in 0 .. MaxChunks - 1 |-> 0]]

\* Mutant of IsNewerFrame: every other ID is a newer one.
IsOtherFrame(r, candidate) == candidate # r.frameId

\* Mutant of IsNewerFrame: the wrap of the ID is forgotten.
IsLargerFrame(r, candidate) == candidate > r.frameId

IsNewerFrame(r, candidate) ==
  /\ candidate # r.frameId
  /\ (candidate - r.frameId) % IdRange < IdRange \div 2

Missing(r) == r.total - Cardinality(r.received)
Complete(r) == r.total > 0 /\ Missing(r) = 0
Incomplete(r) == r.total > 0 /\ Missing(r) > 0

\* The memory limit of `reset'; a refused unit leaves everything as it was.
WithinLimit(d) == d.total \in 1 .. MaxChunks

\* Mutant of Reset: the bitmap of the unit before is kept.
ResetKeepingReceived(r, d) ==
  [r EXCEPT !.frameId = d.id, !.shape = d.shape, !.total = d.total]

\* A new unit; the buffer keeps the bytes of the units before it.
Reset(r, d) ==
  [r EXCEPT !.frameId = d.id, !.shape = d.shape, !.total = d.total, !.received = {}]

Accepts(r, d) ==
  /\ d.shape = r.shape
  /\ d.total = r.total
  /\ d.index < r.total
  /\ d.index \notin r.received

Add(r, d) ==
  [r EXCEPT !.received = @ \cup {d.index}, !.buf[d.index] = d.unit]

\* reassembly.rs:94, wire.rs:29 - "a missing fragment invalidates the entire
\* unit": a unit is complete only with all of its own fragments, never with
\* bytes of another unit or bytes the buffer still holds from before.
Intact(r) ==
  Complete(r) => \A i, j \in 0 .. r.total - 1 : r.buf[i] = r.buf[j]
=============================================================================
