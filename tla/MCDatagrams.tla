----------------------------- MODULE MCDatagrams -----------------------------
(* Bytes have six values, datagrams up to 16 bytes of payload: the payload   *)
(* of an H.264 datagram can then look like the rest of a raw header.         *)
EXTENDS Datagrams, TLC

MCSignature == <<2, 3, 1, 0>>

\* Two pixels, Yuyv422; then two chunks; then three, above the limit.
LikeRawHeader == <<0, 2, 0, 1, 1, 0, 0, 0, 4, 0, 0, 0, 1, 0, 0, 1>>
MCUnits == {[shape |-> [flags |-> 3], bytes |-> LikeRawHeader],
            [shape |-> [flags |-> 0], bytes |-> <<1, 2, 3, 4, 0, 1, 2, 3, 4, 0, 1, 2, 3, 4, 0, 1, 2, 3>>],
            [shape |-> [flags |-> 1], bytes |-> <<3, 4, 5, 0, 1, 2, 3, 4, 5, 0, 1, 2, 3, 4, 5, 0, 1, 2, 3, 4, 5, 0, 1, 2, 3, 4, 5, 0, 1, 2, 3, 4, 5>>]}

MCImages == {[stream |-> StreamSpec(2, 1, 1), bytes |-> <<1, 4, 3, 4, 1, 0, 1, 4, 3, 4, 1, 0, 1, 4, 3, 4, 1, 0, 1>>],
             [stream |-> StreamSpec(2, 1, 1), bytes |-> <<5>>],
             [stream |-> StreamSpec(1, 2, 2), bytes |-> <<1, 2, 3, 4, 5, 0, 1, 2, 3, 4, 5, 0, 1, 2, 3, 4, 5>>]}

\* The time that looks like the ID and the chunk fields of an H.264 header.
MCCaptureTimes == {<<0, 0, 0, 0, 0, 0, 0, 2>>}
=============================================================================
