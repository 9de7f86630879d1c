----------------------------- MODULE ByteQueue ------------------------------
(* What class Buffer promises: a queue of bytes of bounded length.  What is  *)
(* read is what was written, each byte once and in order.                    *)
EXTENDS Naturals, Sequences

CONSTANTS Byte, Capacity, Null

VARIABLES
    queue,  \* the bytes written and not read yet
    got     \* the bytes the last read handed out, or Null

Init == queue = <<>> /\ got = Null

\* Append bytes, which may be none.
Put ==
    /\ queue' \in Seq(Byte)
    /\ Len(queue) <= Len(queue') /\ Len(queue') <= Capacity
    /\ SubSeq(queue', 1, Len(queue)) = queue
    /\ got' = Null

\* Take the first bytes, handing them out or skipping them.
Take ==
    \E n \in 0..Len(queue) :
        /\ queue' = SubSeq(queue, n + 1, Len(queue))
        /\ got' \in {SubSeq(queue, 1, n), Null}

Clear == queue' = <<>> /\ got' = Null

Next == Put \/ Take \/ Clear

Spec == Init /\ [][Next]_<<queue, got>>
=============================================================================
