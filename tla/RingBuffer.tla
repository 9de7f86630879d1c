----------------------------- MODULE RingBuffer -----------------------------
(* class Buffer of src/base/io/io_buffer.cpp as operators on records: the    *)
(* array, its size and the two positions.  A buffer whose positions meet is  *)
(* empty, so it never holds more than size - 1 bytes.                        *)
EXTENDS Integers, Sequences

Ring(size, buf) == [size |-> size, buf |-> buf, rpos |-> 0, wpos |-> 0]

\* Buffer::write_left and Buffer::read_left.
WriteLeft(b) == (b.rpos + b.size - b.wpos - 1) % b.size
ReadLeft(b)  == (b.wpos + b.size - b.rpos) % b.size

Lesser(m, n) == IF m < n THEN m ELSE n

\* Buffer::continuous_write_left and Buffer::continuous_read_left: what can be
\* written at wcurrent(), or read at rcurrent(), without wrapping.
ContinuousWriteLeft_Ahead(b) == IF b.wpos >= b.rpos THEN b.size - b.wpos ELSE WriteLeft(b)
ContinuousWriteLeft(b) ==
    IF b.wpos >= b.rpos THEN Lesser(b.size - b.wpos, WriteLeft(b)) ELSE WriteLeft(b)
ContinuousReadLeft(b) ==
    IF b.rpos > b.wpos THEN b.size - b.rpos ELSE ReadLeft(b)

\* Buffer::seek_read and Buffer::seek_write refuse what is not there.
SeekRead_NoWrap(b, n) ==
    IF n \in 1..ReadLeft(b) THEN [b EXCEPT !.rpos = @ + n] ELSE b
SeekRead(b, n) ==
    IF n \in 1..ReadLeft(b) THEN [b EXCEPT !.rpos = (@ + n) % b.size] ELSE b
SeekWrite(b, n) ==
    IF n \in 1..WriteLeft(b) THEN [b EXCEPT !.wpos = (@ + n) % b.size] ELSE b

\* The n bytes that read_bytes and read_string copy out, in two pieces when
\* they wrap.
CopyOut_TailFirst(b, n) ==
    LET tail == (b.rpos + n) % b.size IN
    IF tail < b.rpos
    THEN [i \in 1..n |-> IF i <= tail THEN b.buf[i - 1] ELSE b.buf[b.rpos + i - tail - 1]]
    ELSE [i \in 1..n |-> b.buf[b.rpos + i - 1]]
CopyOut(b, n) ==
    LET head == b.size - b.rpos IN
    IF (b.rpos + n) % b.size < b.rpos
    THEN [i \in 1..n |-> IF i <= head THEN b.buf[b.rpos + i - 1] ELSE b.buf[i - head - 1]]
    ELSE [i \in 1..n |-> b.buf[b.rpos + i - 1]]

\* Buffer::read_bytes copies CopyOut(b, ReadSize(b, n)) and leaves ReadBytes(b, n).
ReadSize(b, n) == IF n <= 0 THEN 0 ELSE Lesser(n, ReadLeft(b))
ReadBytes(b, n) == [b EXCEPT !.rpos = (@ + ReadSize(b, n)) % b.size]

\* The array after memcpy of the sequence s to wcurrent(), which must not wrap.
Store(b, s) ==
    [b EXCEPT !.buf = [i \in 0..(b.size - 1) |->
        IF i \in b.wpos..(b.wpos + Len(s) - 1) THEN s[i - b.wpos + 1] ELSE b.buf[i]]]

\* The array after the two copies of a write_bytes that wraps.
StoreWrapped(b, s) ==
    [b EXCEPT !.buf = [i \in 0..(b.size - 1) |->
        IF i >= b.wpos THEN s[i - b.wpos + 1]
        ELSE IF i < (b.wpos + Len(s)) % b.size THEN s[b.size - b.wpos + i + 1]
        ELSE b.buf[i]]]

\* Buffer::write_bytes writes all of s, or fails and writes nothing.
WriteBytes(b, s) ==
    IF Len(s) \notin 1..WriteLeft(b) THEN b
    ELSE LET next == (b.wpos + Len(s)) % b.size
             stored == IF next < b.wpos THEN StoreWrapped(b, s) ELSE Store(b, s)
         IN  [stored EXCEPT !.wpos = next]

\* Buffer::reset.
Reset(b) == [b EXCEPT !.rpos = 0, !.wpos = 0]

\* What has been written and not been read, in order.
Contents(b) == [i \in 1..ReadLeft(b) |-> b.buf[(b.rpos + i - 1) % b.size]]

IsRing(b, Byte) ==
    /\ b = [size |-> b.size, buf |-> b.buf, rpos |-> b.rpos, wpos |-> b.wpos]
    /\ b.size \in Nat \ {0}
    /\ b.buf \in [0..(b.size - 1) -> Byte]
    /\ b.rpos \in 0..(b.size - 1)
    /\ b.wpos \in 0..(b.size - 1)
=============================================================================
