------------------------------ MODULE SpscRing ------------------------------
(***************************************************************************)
(* src/spsc.rs, one SpscSlotRing: the masked ring of FRAME_POOL_SLOTS      *)
(* cells under the two atomic cursors, taken apart into its atomic loads,  *)
(* its plain cell accesses and its atomic stores.                          *)
(*                                                                         *)
(* `head' and `tail' hold the machine words, which wrap at CursorRange     *)
(* (2^64 in the build).  `headView' is the newest `head' the producer has  *)
(* acquired and `tailView' the newest `tail' the consumer has acquired; an *)
(* atomic load returns any value of the cursor from the loader's view on,  *)
(* as the memory model allows, and with Acquire it moves the view there.   *)
(***************************************************************************)
EXTENDS Integers, Sequences

CONSTANTS Ids, Capacity, CursorRange, Uninit

\* `new' asserts a power of two, so the cells divide the range of a cursor.
ASSUME RingAssumption ==
  /\ Capacity \in Nat \ {0}
  /\ CursorRange \in Nat
  /\ \E laps \in 2 .. CursorRange : CursorRange = laps * Capacity
  /\ Uninit \notin Ids

VARIABLES
  cells, head, tail,        \* the fields of SpscSlotRing
  headView, tailView,       \* what each end has acquired of the other
  producer, producerId,     \* where try_push stands, and its argument
  consumer, consumerId      \* where try_pop stands, and what it read

vars == <<cells, head, tail, headView, tailView,
          producer, producerId, consumer, consumerId>>

Words == 0 .. CursorRange - 1
Plus(a, n)  == (a + n) % CursorRange        \* wrapping_add
Minus(a, b) == (a - b) % CursorRange        \* wrapping_sub
Cell(cursor) == cursor % Capacity           \* cursor & MASK

\* The values an atomic load may return to a reader whose view is `view'.
Loadable(view, current) == {Plus(view, n) : n \in 0 .. Minus(current, view)}

Init ==
  /\ cells = [c \in 0 .. Capacity - 1 |-> Uninit]
  /\ head = 0 /\ tail = 0
  /\ headView = 0 /\ tailView = 0
  /\ producer = "idle" /\ producerId = Uninit
  /\ consumer = "idle" /\ consumerId = Uninit

-----------------------------------------------------------------------------
(* try_push                                                                *)

\* Mutant of Full: one cell too many.
FullTooLate(loaded) == Minus(tail, loaded) > Capacity

Full(loaded) == Minus(tail, loaded) >= Capacity

PushClaim(id) ==
  /\ producer = "idle"
  /\ \E loaded \in Loadable(headView, head) :
       /\ ~Full(loaded)
       /\ headView' = loaded
  /\ producer' = "write"
  /\ producerId' = id
  /\ UNCHANGED <<cells, head, tail, tailView, consumer, consumerId>>

PushRefused ==
  /\ producer = "idle"
  /\ \E loaded \in Loadable(headView, head) :
       /\ Full(loaded)
       /\ headView' = loaded
  /\ UNCHANGED <<cells, head, tail, tailView,
                 producer, producerId, consumer, consumerId>>

\* Mutant of PushWrite: into the cell after the one that is published.
PushWriteNext ==
  /\ producer = "write"
  /\ cells' = [cells EXCEPT ![Cell(Plus(tail, 1))] = producerId]
  /\ producer' = "publish"
  /\ UNCHANGED <<head, tail, headView, tailView,
                 producerId, consumer, consumerId>>

PushWrite ==
  /\ producer = "write"
  /\ cells' = [cells EXCEPT ![Cell(tail)] = producerId]
  /\ producer' = "publish"
  /\ UNCHANGED <<head, tail, headView, tailView,
                 producerId, consumer, consumerId>>

PushPublish ==
  /\ producer = "publish"
  /\ tail' = Plus(tail, 1)
  /\ producer' = "idle"
  /\ producerId' = Uninit
  /\ UNCHANGED <<cells, head, headView, tailView, consumer, consumerId>>

-----------------------------------------------------------------------------
(* try_pop                                                                 *)

\* Mutant of PopClaim: no check for an empty ring.
PopClaimUnchecked ==
  /\ consumer = "idle"
  /\ tailView' \in Loadable(tailView, tail)
  /\ consumer' = "read"
  /\ UNCHANGED <<cells, head, tail, headView,
                 producer, producerId, consumerId>>

PopClaim ==
  /\ consumer = "idle"
  /\ \E loaded \in Loadable(tailView, tail) :
       /\ loaded # head
       /\ tailView' = loaded
  /\ consumer' = "read"
  /\ UNCHANGED <<cells, head, tail, headView,
                 producer, producerId, consumerId>>

PopEmpty ==
  /\ consumer = "idle"
  /\ head \in Loadable(tailView, tail)
  /\ tailView' = head
  /\ UNCHANGED <<cells, head, tail, headView,
                 producer, producerId, consumer, consumerId>>

PopRead ==
  /\ consumer = "read"
  /\ consumerId' = cells[Cell(head)]
  /\ consumer' = "release"
  /\ UNCHANGED <<cells, head, tail, headView, tailView, producer, producerId>>

PopRelease ==
  /\ consumer = "release"
  /\ head' = Plus(head, 1)
  /\ consumer' = "idle"
  /\ consumerId' = Uninit
  /\ UNCHANGED <<cells, tail, headView, tailView, producer, producerId>>

-----------------------------------------------------------------------------
\* The pipeline's other ring synchronises the same two threads, which can
\* move a view forward between two calls on this ring.
ProducerSync ==
  /\ producer = "idle"
  /\ headView' \in Loadable(headView, head)
  /\ UNCHANGED <<cells, head, tail, tailView,
                 producer, producerId, consumer, consumerId>>

ConsumerSync ==
  /\ consumer = "idle"
  /\ tailView' \in Loadable(tailView, tail)
  /\ UNCHANGED <<cells, head, tail, headView,
                 producer, producerId, consumer, consumerId>>

Next ==
  \/ \E id \in Ids : PushClaim(id)
  \/ PushRefused \/ PushWrite \/ PushPublish
  \/ PopClaim \/ PopEmpty \/ PopRead \/ PopRelease
  \/ ProducerSync \/ ConsumerSync

Spec == Init /\ [][Next]_vars

-----------------------------------------------------------------------------
\* The fields hold words, slot IDs and uninitialised cells, and a call in
\* progress knows its ID.
TypeOK ==
  /\ cells \in [0 .. Capacity - 1 -> Ids \cup {Uninit}]
  /\ {head, tail, headView, tailView} \subseteq Words
  /\ producer \in {"idle", "write", "publish"}
  /\ producerId \in Ids \cup {Uninit}
  /\ producer # "idle" => producerId \in Ids
  /\ consumer \in {"idle", "read", "release"}
  /\ consumerId \in Ids \cup {Uninit}

\* spsc.rs:31: producer and consumer never access the same cell at the same
\* time, although both cursors wrap and each end works from an old view.
CellsExclusive ==
  producer = "write" /\ consumer = "read" => Cell(tail) # Cell(head)

\* spsc.rs:87 and 108: the accesses to one cell are ordered by the atomics,
\* the last read of it before the next write, the write of it before the read.
CellAccessesOrdered ==
  /\ producer = "write" => Minus(tail, headView) < Capacity
  /\ consumer = "read" => Minus(tailView, head) \in 1 .. Capacity

\* The published, not yet released IDs, oldest first.
Contents == [i \in 1 .. Minus(tail, head) |-> cells[Cell(Plus(head, i - 1))]]

\* spsc.rs:94: try_pop takes the oldest published ID, never a cell that is
\* uninitialised or already overwritten.
PopReturnsOldest ==
  consumer = "release" =>
    /\ Minus(tail, head) > 0
    /\ consumerId = Contents[1]
    /\ consumerId \in Ids

\* The ring implements the queue its callers rely on.
Queue == INSTANCE SpscQueue WITH
           queue  <- Contents,
           seen   <- Minus(tailView, head),
           unseen <- Minus(head, headView)

QueueSpec == Queue!Spec
=============================================================================
