----------------------------- MODULE SpscQueue -----------------------------
(***************************************************************************)
(* What src/spsc.rs promises its two callers: a bounded FIFO of slot IDs   *)
(* with one producer and one consumer.                                     *)
(*                                                                         *)
(* The promise is stated with the freedom acquire/release atomics leave:   *)
(* each end works from its own, possibly old, view of the other end's      *)
(* cursor.  `seen' counts the queued IDs whose publication the consumer    *)
(* has acquired; `unseen' counts the IDs already popped whose cells the    *)
(* producer still believes occupied.  A push may therefore be refused and  *)
(* a pop may find nothing although the queue itself has room or content.   *)
(***************************************************************************)
EXTENDS Integers, Sequences

CONSTANTS Ids,        \* what the queue carries: the pool's SlotId values
          Capacity    \* FRAME_POOL_SLOTS cells

VARIABLES queue, seen, unseen

queueVars == <<queue, seen, unseen>>

Init ==
  /\ queue = <<>>
  /\ seen = 0
  /\ unseen = 0

\* The loads of `head' by the producer: any value from its view onwards.
Push(id) ==
  /\ unseen' \in 0 .. unseen
  /\ Len(queue) + unseen' < Capacity
  /\ queue' = Append(queue, id)
  /\ UNCHANGED seen

PushRefused ==
  /\ unseen' \in 0 .. unseen
  /\ Len(queue) + unseen' >= Capacity
  /\ UNCHANGED <<queue, seen>>

\* The load of `tail' by the consumer: any value from its view onwards.
Pop ==
  /\ queue # <<>>
  /\ seen' \in 0 .. Len(queue) - 1
  /\ seen' >= seen - 1
  /\ queue' = Tail(queue)
  /\ unseen' = unseen + 1

PopEmpty ==
  /\ seen = 0
  /\ UNCHANGED queueVars

\* Synchronisation that does not go through this queue can also bring a view
\* up to date: at most `bound' popped IDs stay unseen by the producer.
ProducerLearns(bound) ==
  /\ unseen' = IF bound < unseen THEN bound ELSE unseen
  /\ UNCHANGED <<queue, seen>>

ConsumerLearns ==
  /\ seen' \in seen .. Len(queue)
  /\ UNCHANGED <<queue, unseen>>

Next ==
  \/ \E id \in Ids : Push(id)
  \/ PushRefused
  \/ Pop
  \/ PopEmpty
  \/ \E bound \in 0 .. Capacity : ProducerLearns(bound)
  \/ ConsumerLearns

Spec == Init /\ [][Next]_queueVars

-----------------------------------------------------------------------------
\* Both views lag behind by at most what the cells can hold.
TypeOK ==
  /\ queue \in Seq(Ids)
  /\ seen \in 0 .. Len(queue)
  /\ unseen \in Nat
  /\ Len(queue) + unseen <= Capacity
=============================================================================
