------------------------------- MODULE Buffer -------------------------------
(* class Buffer of src/base/io/io_buffer.cpp as a state machine: one action  *)
(* per operation of its interface.                                           *)
EXTENDS RingBuffer, SequencesExt

CONSTANTS
    Size,    \* the size of the array
    Byte,    \* the values of a byte
    Null,    \* no bytes handed out
    Widths   \* the N of the write_Nbytes and read_Nbytes that are used

ASSUME BufferAssumption ==
    /\ Size \in Nat \ {0}
    /\ Widths \subseteq Nat \ {0}

VARIABLES
    ring,  \* the buffer
    got    \* the bytes the last operation handed to its caller

vars == <<ring, got>>

TypeOK ==
    /\ IsRing(ring, Byte) /\ ring.size = Size
    /\ got \in Seq(Byte) \cup {Null}

\* The array comes from new char[], uninitialised.
Init ==
    /\ \E memory \in [0..(Size - 1) -> Byte] : ring = Ring(Size, memory)
    /\ got = Null

\* write_bytes; also write_Nbytes, which asserts that its N bytes, the value in
\* big-endian order, fit, and stores them one by one.
WriteBytesOf(s) == ring' = WriteBytes(ring, s) /\ got' = Null

WriteWord(s) ==
    /\ Len(s) \in Widths /\ Len(s) <= WriteLeft(ring)
    /\ ring' = WriteBytes(ring, s) /\ got' = Null

\* A reader fills the memory at wcurrent(), and seek_write takes it in.
Receive(s) ==
    /\ Len(s) <= ContinuousWriteLeft(ring)
    /\ ring' = SeekWrite(Store(ring, s), Len(s)) /\ got' = Null

\* read_bytes: an error for n <= 0, else what there is of n bytes.
ReadBytesOf(n) ==
    /\ ring' = ReadBytes(ring, n)
    /\ got' = IF n <= 0 THEN Null ELSE CopyOut(ring, ReadSize(ring, n))

\* read_string asserts that n bytes can be read.
ReadString(n) ==
    /\ n <= ReadLeft(ring)
    /\ ring' = SeekRead(ring, n)
    /\ got' = CopyOut(ring, n)

\* read_Nbytes: N times the byte at rcurrent() and seek_read(1).
ReadWord(n) ==
    /\ n \in Widths /\ n <= ReadLeft(ring)
    /\ ring' = [ring EXCEPT !.rpos = (@ + n) % ring.size]
    /\ got' = [i \in 1..n |-> ring.buf[(ring.rpos + i - 1) % ring.size]]

Skip(n) == ring' = SeekRead(ring, n) /\ got' = Null

Empty == ring' = Reset(ring) /\ got' = Null

Next ==
    \/ \E s \in BoundedSeq(Byte, Size) : WriteBytesOf(s) \/ WriteWord(s) \/ Receive(s)
    \/ \E n \in 0..Size : ReadBytesOf(n) \/ ReadString(n) \/ ReadWord(n)
    \/ \E n \in (-Size)..Size : Skip(n)
    \/ Empty

Spec == Init /\ [][Next]_vars

-----------------------------------------------------------------------------
\* The contiguous areas that the code hands to readers and writers lie in the
\* array and in the free or the filled part of the ring, and are empty only
\* when that part is: an area of no bytes would read as the end of the stream.
AreasFit ==
    LET toWrite == ContinuousWriteLeft(ring)
        toRead  == ContinuousReadLeft(ring)
    IN  /\ ring.wpos + toWrite <= Size /\ toWrite <= WriteLeft(ring)
        /\ ring.rpos + toRead <= Size  /\ toRead <= ReadLeft(ring)
        /\ toWrite = 0 => WriteLeft(ring) = 0
        /\ toRead = 0 => ReadLeft(ring) = 0

\* The buffer is a queue of bytes that holds at most Size - 1 of them.
Queue == INSTANCE ByteQueue WITH queue <- Contents(ring), Capacity <- Size - 1

QueueSpec == Queue!Spec
=============================================================================
