--------------------------- MODULE FileCacheProofs ---------------------------
(***************************************************************************)
(* For any number of requests and files, any sizes and any stream: no      *)
(* request waits for what is there, the segment that is being written is   *)
(* in the cache, and what one write has brought is read as it was written. *)
(***************************************************************************)
EXTENDS FileCache, FiniteSetTheorems, SequenceTheorems, TLAPS

\* A File and a request, as TypeOK has them.
Bytes == 0..(MaxPackets * MuxBuffer)

FileRecords ==
    [name: Keys \cup {"segment"}, data: Seq(Bytes), size: 0..SizeLimit, pos: Nat,
     total_length: {0}]

ReaderRecords == [at: ReaderStates, file: 0..MaxFiles, offset: Nat, good: BOOLEAN]

\* The packet that a byte came with.
Piece(b) == (b - 1) \div MuxBuffer

\* All bytes of what was appended to a file came with one packet.
OnePiece(w) == \A i, j \in 1..Len(w) : Piece(w[i]) = Piece(w[j])

\* A file is as long as what was appended to it, which came with the first p
\* packets; as long as it came with one of them, it is what the array begins
\* with.
Keeps(f, w, p) ==
    /\ w \in Seq(1..(p * MuxBuffer))
    /\ f.pos = Len(w)
    /\ OnePiece(w) => \A i \in 1..Len(w) : i <= Len(f.data) /\ f.data[i] = w[i]

\* A request that has begun has a file, and has not gone beyond its end.
ReaderInv(r) ==
    LET q == reader[r] IN
    /\ q.file \in 0..Len(files)
    /\ q.at = "new" => q.file = 0 /\ q.offset = 0 /\ q.good
    /\ q.at # "new" => /\ q.file # 0
                       /\ q.offset <= files[q.file].pos
                       /\ q.at = "wait" => q.offset = files[q.file].pos
                       /\ OnePiece(written[q.file]) => q.good

\* The current segment has a file, in the cache, with an array (unless the
\* smallest array is already too large), and its timestamps are past.
CurrentInv ==
    current # NoSegment =>
        /\ current.file \in FileIds
        /\ \E t \in Stamps : segments[t] = current.file
        /\ files[current.file].data = <<>> => SizeLimit <= InitSize
        /\ current.last_timestamp <= now

\* The files, and what was appended to them.
FilesFit ==
    /\ files \in Seq(FileRecords) /\ Len(files) <= MaxFiles
    /\ written \in Seq(Seq(Nat)) /\ Len(written) = Len(files) /\ DOMAIN written = FileIds
    /\ \A id \in FileIds : /\ Len(files[id].data) <= InitSize
                           /\ Keeps(files[id], written[id], packets)

IInv ==
    /\ TypeOK
    /\ FilesFit
    /\ \A r \in Readers : ReaderInv(r)
    /\ CurrentInv
    /\ \A k \in Keys : file_cache[k] \in 0..Len(files)
    /\ \A t \in Stamps : segments[t] \in 0..Len(files)

----------------------------------------------------------------------------
\* Numbers of bytes and packets.
LEMMA Numbers ==
    /\ \A p \in 0..MaxPackets : p * MuxBuffer \in Nat /\ p * MuxBuffer <= MaxPackets * MuxBuffer
    /\ \A p \in Nat : (p + 1) * MuxBuffer = p * MuxBuffer + MuxBuffer
    /\ \A m \in Nat : Growth * (m + 1) \in Nat /\ Growth * (m + 1) > m
  <1>1. \A p, q, m \in Nat : p <= q => p * m <= q * m /\ p * m \in Nat
    BY SMTT(30)
  <1>2. MaxPackets \in Nat /\ MuxBuffer \in Nat /\ Growth \in Nat /\ Growth >= 1
    BY FileCacheAssumption
  <1>3. ASSUME NEW m \in Nat PROVE Growth * (m + 1) \in Nat /\ Growth * (m + 1) > m
    <2>1. 1 * (m + 1) <= Growth * (m + 1) /\ Growth * (m + 1) \in Nat
      BY <1>1, <1>2
    <2> QED BY <2>1, <1>2
  <1>4. ASSUME NEW p \in Nat PROVE (p + 1) * MuxBuffer = p * MuxBuffer + MuxBuffer
    BY <1>2, SMTT(30)
  <1> QED BY <1>1, <1>2, <1>3, <1>4

\* A byte tells the packet it came with.
LEMMA Pieces ==
    ASSUME NEW p \in Nat
    PROVE  /\ \A i \in 1..MuxBuffer : Piece(p * MuxBuffer + i) = p
           /\ \A b \in 1..(p * MuxBuffer) : Piece(b) \in Nat /\ Piece(b) < p
  <1>1. MuxBuffer \in Nat /\ MuxBuffer >= 1
    BY FileCacheAssumption
  <1>2. ASSUME NEW i \in 1..MuxBuffer PROVE Piece(p * MuxBuffer + i) = p
    BY <1>1, SMTT(30) DEF Piece
  <1>3. ASSUME NEW b \in 1..(p * MuxBuffer) PROVE Piece(b) \in Nat /\ Piece(b) < p
    BY <1>1, SMTT(30) DEF Piece
  <1> QED BY <1>2, <1>3

\* Copying to the start of the array: it begins with the bytes, and holds
\* nothing but bytes, in no more room than either.
LEMMA StoreAtStart ==
    ASSUME NEW data \in Seq(Bytes), NEW n \in Nat, NEW bytes \in [1..n -> Bytes]
    PROVE  LET d == Stored(data, 0, bytes) IN
           /\ d \in Seq(Bytes)
           /\ Len(d) = IF n > Len(data) THEN n ELSE Len(data)
           /\ \A i \in 1..n : d[i] = bytes[i]
  <1>1. Len(bytes) = n /\ Junk \in Bytes
    BY Numbers, FileCacheAssumption DEF Bytes, Junk
  <1> DEFINE end == IF n > Len(data) THEN n ELSE Len(data)
             d == [i \in 1..end |-> IF i \in 1..n THEN bytes[i]
                                    ELSE IF i <= Len(data) THEN data[i] ELSE Junk]
  <1>2. Stored(data, 0, bytes) = d
    BY <1>1 DEF Stored
  <1>3. end \in Nat /\ n <= end
    OBVIOUS
  <1>4. \A i \in 1..end : d[i] \in Bytes
    BY <1>1
  <1>5. d \in [1..end -> Bytes]
    BY <1>4
  <1>6. \A i \in 1..n : d[i] = bytes[i]
    BY <1>3
  <1>7. d \in Seq(Bytes) /\ Len(d) = end
    <2> HIDE DEF d
    <2> QED BY <1>3, <1>5
  <1> QED BY <1>2, <1>6, <1>7

\* What init_buffer makes of a file: nothing, when the size is too large or no
\* larger than before; or an array of that size, when there was none.
LEMMA GrowsOnlyFromEmpty ==
    ASSUME NEW f \in FileRecords, NEW size \in Nat
    PROVE  LET g == InitBuffer(f, size) IN
           /\ g \in FileRecords
           /\ g.name = f.name /\ g.pos = f.pos
           /\ g.data = f.data \/ (f.data = <<>> /\ ~TooLarge(size) /\ Len(g.data) = size)
           /\ size >= f.size /\ ~TooLarge(size) => f.data # <<>> \/ Len(g.data) = size
  <1> DEFINE none == [i \in 1..size |-> Junk]
             g == InitBuffer(f, size)
  <1>1. Junk \in Bytes /\ SizeLimit \in Nat
    BY Numbers, FileCacheAssumption DEF Bytes, Junk
  <1>2. none \in Seq(Bytes) /\ Len(none) = size
    BY <1>1
  <1>3. CASE TooLarge(size) \/ size < f.size
    <2>1. g = f
      BY <1>3 DEF InitBuffer
    <2>2. ~(size >= f.size /\ ~TooLarge(size))
      BY <1>1, <1>3 DEF FileRecords
    <2> QED BY <2>1, <2>2
  <1>4. CASE ~TooLarge(size) /\ size >= f.size
    <2>1. ~(size < f.size)
      BY <1>4 DEF FileRecords
    <2>2. g = [f EXCEPT !.data = IF f.data = <<>> THEN none ELSE @, !.size = size]
      BY <1>4, <2>1 DEF InitBuffer, Buffered
    <2>3. size \in 0..SizeLimit
      BY <1>4, <1>1 DEF TooLarge
    <2> HIDE DEF none
    <2>4. CASE f.data = <<>>
      <3>1. g = [f EXCEPT !.data = none, !.size = size]
        BY <2>2, <2>4 DEF FileRecords
      <3> QED BY <1>2, <1>4, <2>3, <2>4, <3>1 DEF FileRecords
    <2>5. CASE f.data # <<>>
      <3>1. g = [f EXCEPT !.size = size]
        BY <2>2, <2>5 DEF FileRecords
      <3>2. g \in FileRecords /\ g.name = f.name /\ g.pos = f.pos /\ g.data = f.data
        BY <2>3, <3>1 DEF FileRecords
      <3> QED BY <2>5, <3>2
    <2> QED BY <2>4, <2>5
  <1>5. f.size \in Nat
    BY <1>1 DEF FileRecords
  <1> QED BY <1>3, <1>4, <1>5

\* append: the file is longer by the bytes, in an array that is no larger than
\* the one a segment starts with.  Its array is only made larger when there was
\* none, which a segment's file is without only if the limit is that low.
LEMMA AppendStores ==
    ASSUME NEW f \in FileRecords, Len(f.data) <= InitSize,
           f.data = <<>> => SizeLimit <= InitSize,
           NEW n \in 1..MuxBuffer, NEW bytes \in [1..n -> Bytes]
    PROVE  LET g == Appended(f, bytes) IN
           /\ g \in FileRecords
           /\ Len(g.data) <= InitSize /\ g.data # <<>>
           /\ g.pos = f.pos + n
           /\ \A i \in 1..n : i <= Len(g.data) /\ g.data[i] = bytes[i]
  <1>1. /\ n \in Nat /\ n > 0 /\ n <= InitSize /\ InitSize \in Nat /\ SizeLimit \in Nat
        /\ Len(bytes) = n
    BY FileCacheAssumption
  <1> DEFINE h == Grown(f, n)
             needed == IF f.size > n THEN f.size ELSE n
             size == Growth * (needed + 1)
  <1>2. size \in Nat
    <2>1. needed \in Nat
      BY <1>1 DEF FileRecords
    <2> HIDE DEF needed
    <2> QED BY <2>1, Numbers
  <1>3. h = f \/ h = InitBuffer(f, size)
    BY DEF Grown
  <1>4. /\ h \in FileRecords
        /\ h.pos = f.pos
        /\ Len(h.data) <= InitSize
    <2>1. CASE h = f
      BY <2>1 DEF FileRecords
    <2>2. CASE h = InitBuffer(f, size)
      <3> HIDE DEF h, size
      <3>1. /\ h \in FileRecords
            /\ h.pos = f.pos
            /\ h.data = f.data \/ (f.data = <<>> /\ ~TooLarge(size) /\ Len(h.data) = size)
        BY <2>2, <1>2, GrowsOnlyFromEmpty
      <3>2. f.data = <<>> /\ ~TooLarge(size) => size <= InitSize
        BY <1>1, <1>2 DEF TooLarge
      <3> QED BY <1>1, <3>1, <3>2
    <2> QED BY <1>3, <2>1, <2>2
  <1> DEFINE d == Stored(h.data, 0, bytes)
  <1>5. /\ d \in Seq(Bytes)
        /\ Len(d) = IF n > Len(h.data) THEN n ELSE Len(h.data)
        /\ \A i \in 1..n : d[i] = bytes[i]
    <2>1. h.data \in Seq(Bytes)
      BY <1>4 DEF FileRecords
    <2> HIDE DEF h
    <2> QED BY <2>1, <1>1, StoreAtStart
  <1>6. Appended(f, bytes) = [h EXCEPT !.data = d, !.pos = @ + n]
    BY <1>1 DEF Appended, Overwritten
  <1> HIDE DEF d, h
  <1>7. Len(d) <= InitSize /\ Len(d) >= n /\ Len(d) \in Nat
    BY <1>1, <1>4, <1>5 DEF FileRecords
  <1>8. /\ Appended(f, bytes).data = d
        /\ Appended(f, bytes).pos = f.pos + n
        /\ Appended(f, bytes) \in FileRecords
    <2>1. h.pos + n \in Nat /\ h.pos = f.pos
      BY <1>1, <1>4 DEF FileRecords
    <2> QED BY <1>4, <1>5, <1>6, <2>1 DEF FileRecords
  <1>9. d # <<>>
    BY <1>1, <1>7
  <1> QED BY <1>1, <1>5, <1>7, <1>8, <1>9

\* One write to a file: before anything else it is what the array begins with,
\* and later the file is of two packets.
LEMMA AppendKeeps ==
    ASSUME NEW f \in FileRecords, Len(f.data) <= InitSize,
           f.data = <<>> => SizeLimit <= InitSize,
           NEW p \in Nat, p < MaxPackets, NEW w, Keeps(f, w, p),
           NEW n \in 1..MuxBuffer
    PROVE  LET bytes == [i \in 1..n |-> p * MuxBuffer + i]
               g == Appended(f, bytes)
           IN  /\ g \in FileRecords
               /\ Len(g.data) <= InitSize /\ g.data # <<>>
               /\ g.pos = f.pos + n
               /\ Keeps(g, w \o bytes, p + 1)
               /\ OnePiece(w \o bytes) => OnePiece(w)
  <1> DEFINE bytes == [i \in 1..n |-> p * MuxBuffer + i]
             g == Appended(f, bytes)
             v == w \o bytes
  <1>1. /\ MuxBuffer \in Nat /\ p * MuxBuffer \in Nat
        /\ (p + 1) * MuxBuffer = p * MuxBuffer + MuxBuffer
        /\ (p + 1) * MuxBuffer <= MaxPackets * MuxBuffer
        /\ n \in Nat /\ n <= MuxBuffer
    <2>1. MaxPackets \in Nat /\ MuxBuffer \in Nat
      BY FileCacheAssumption
    <2>2. p \in 0..MaxPackets /\ p + 1 \in 0..MaxPackets
      BY <2>1
    <2> QED BY <2>1, <2>2, Numbers
  <1>2. bytes \in [1..n -> Bytes] /\ Len(bytes) = n /\ bytes \in Seq(1..((p + 1) * MuxBuffer))
    <2>1. \A i \in 1..n : p * MuxBuffer + i \in Bytes /\ p * MuxBuffer + i \in 1..((p + 1) * MuxBuffer)
      <3> SUFFICES ASSUME NEW i \in 1..n
                   PROVE  /\ p * MuxBuffer + i \in Bytes
                          /\ p * MuxBuffer + i \in 1..((p + 1) * MuxBuffer)
        OBVIOUS
      <3> DEFINE a == p * MuxBuffer
                 b == (p + 1) * MuxBuffer
                 c == MaxPackets * MuxBuffer
      <3>1. a \in Nat /\ b = a + MuxBuffer /\ b <= c /\ i \in Nat /\ 1 <= i /\ i <= MuxBuffer
        BY <1>1
      <3>2. c \in Nat
        <4>1. MaxPackets \in 0..MaxPackets
          BY FileCacheAssumption
        <4> QED BY <4>1, Numbers
      <3> HIDE DEF a, b, c
      <3>3. a + i \in 0..c /\ a + i \in 1..b
        BY <1>1, <3>1, <3>2
      <3> QED BY <3>3 DEF a, b, c, Bytes
    <2>2. bytes \in [1..n -> 1..((p + 1) * MuxBuffer)] /\ bytes \in [1..n -> Bytes]
      BY <2>1
    <2> HIDE DEF bytes
    <2> QED BY <1>1, <2>2
  <1>3. /\ g \in FileRecords
        /\ Len(g.data) <= InitSize /\ g.data # <<>>
        /\ g.pos = f.pos + n
        /\ \A i \in 1..n : i <= Len(g.data) /\ g.data[i] = bytes[i]
    <2> HIDE DEF bytes
    <2> QED BY <1>2, AppendStores
  <1>4. w \in Seq(1..(p * MuxBuffer)) /\ f.pos = Len(w)
    BY DEF Keeps
  <1>5. v \in Seq(1..((p + 1) * MuxBuffer)) /\ Len(v) = Len(w) + n
    <2>1. w \in Seq(1..((p + 1) * MuxBuffer))
      <3>1. 1..(p * MuxBuffer) \subseteq 1..((p + 1) * MuxBuffer)
        BY <1>1
      <3> QED BY <1>4, <3>1, SeqMonotonic
    <2> HIDE DEF bytes
    <2> QED BY <1>2, <1>4, <2>1
  <1>6. CASE w = <<>>
    <2>1. v = bytes
      BY <1>2, <1>6
    <2>2. OnePiece(w)
      BY <1>6 DEF OnePiece
    <2> HIDE DEF g, v, bytes
    <2>3. Keeps(g, v, p + 1)
      BY <1>2, <1>3, <1>4, <1>5, <2>1 DEF Keeps
    <2> QED BY <1>3, <2>2, <2>3 DEF g, v, bytes
  <1>7. CASE w # <<>>
    <2>1. 1 \in 1..Len(w) /\ Len(w) \in Nat
      BY <1>4, <1>7
    <2>2. v[1] = w[1] /\ v[Len(w) + 1] = p * MuxBuffer + 1
      BY <1>1, <1>2, <1>4, <2>1
    <2>3. Piece(v[1]) < p /\ Piece(v[1]) \in Nat
      <3>1. w[1] \in 1..(p * MuxBuffer)
        BY <1>4, <2>1, ElementOfSeq
      <3> QED BY <2>2, <3>1, Pieces
    <2>4. Piece(v[Len(w) + 1]) = p
      BY <1>1, <2>2, Pieces
    <2> HIDE DEF g, v, bytes
    <2>5. ~OnePiece(v)
      <3>1. 1 \in 1..Len(v) /\ Len(w) + 1 \in 1..Len(v)
        BY <1>1, <1>5, <2>1
      <3>2. Piece(v[1]) # Piece(v[Len(w) + 1])
        BY <2>3, <2>4
      <3> QED BY <3>1, <3>2 DEF OnePiece
    <2>6. Keeps(g, v, p + 1)
      BY <1>3, <1>4, <1>5, <2>5 DEF Keeps
    <2> QED BY <1>3, <2>5, <2>6 DEF g, v, bytes
  <1> QED BY <1>6, <1>7

----------------------------------------------------------------------------
\* Types in the terms of this module.
LEMMA FilesAre ==
    ASSUME TypeOK
    PROVE  /\ files \in Seq(FileRecords) /\ reader \in [Readers -> ReaderRecords]
           /\ Len(files) \in Nat /\ MaxFiles \in Nat /\ Len(files) <= MaxFiles
           /\ Chunk \in Nat /\ packets \in Nat /\ crashed \in BOOLEAN
           /\ \A id \in FileIds : /\ files[id] \in FileRecords
                                  /\ files[id].pos \in Nat
                                  /\ files[id].data \in Seq(Bytes)
                                  /\ files[id].total_length = 0
  <1>1. files \in Seq(FileRecords) /\ reader \in [Readers -> ReaderRecords]
    BY DEF TypeOK, FileRecords, ReaderRecords, Bytes
  <1>2. MaxFiles \in Nat /\ Chunk \in Nat
    BY FileCacheAssumption
  <1>3. Len(files) <= MaxFiles /\ packets \in Nat /\ crashed \in BOOLEAN
    BY DEF TypeOK
  <1>4. ASSUME NEW id \in FileIds
        PROVE  /\ files[id] \in FileRecords
               /\ files[id].pos \in Nat
               /\ files[id].data \in Seq(Bytes)
               /\ files[id].total_length = 0
    <2>1. files[id] \in FileRecords
      BY <1>1 DEF FileIds
    <2> QED BY <2>1 DEF FileRecords
  <1> QED BY <1>1, <1>2, <1>3, <1>4

\* A copy moves the request on, not beyond the end of the file, and what it
\* hands on is the file's if that came with one packet.
LEMMA CopiesKeeps ==
    ASSUME IInv, NEW r \in Readers, NEW id \in FileIds,
           reader[r].offset <= files[id].pos,
           OnePiece(written[id]) => reader[r].good,
           Copies(r, id, reader[r].offset), UNCHANGED fileVars
    PROVE  /\ reader' \in [Readers -> ReaderRecords]
           /\ crashed' \in BOOLEAN
           /\ \A q \in Readers : ReaderInv(q)'
  <1> DEFINE f == files[id]
             w == written[id]
             offset == reader[r].offset
             n == IF f.pos - offset < Chunk THEN f.pos - offset ELSE Chunk
             bytes == [i \in 1..n |-> IF offset + i <= Len(f.data) THEN f.data[offset + i] ELSE Junk]
             good == reader[r].good /\ bytes = SubSeq(w, offset + 1, offset + n)
  <1>1. /\ files \in Seq(FileRecords) /\ reader \in [Readers -> ReaderRecords]
        /\ Len(files) <= MaxFiles /\ Len(files) \in Nat
        /\ Chunk \in Nat /\ MaxFiles \in Nat
    BY FilesAre DEF IInv
  <1>2. f \in FileRecords /\ f.pos \in Nat /\ f.data \in Seq(Bytes)
    BY FilesAre DEF IInv
  <1>3. offset \in Nat /\ reader[r].good \in BOOLEAN
    BY <1>1 DEF ReaderRecords
  <1>4. n \in Nat /\ offset + n <= f.pos
    BY <1>1, <1>2, <1>3
  <1>5. reader' = [reader EXCEPT ![r] = [at |-> "write", file |-> id, offset |-> offset + n, good |-> good]]
    BY <1>1 DEF Copies
  <1>6. good \in BOOLEAN
    BY <1>3
  <1>7. OnePiece(written[id]) => good
    <2> SUFFICES ASSUME OnePiece(written[id]) PROVE bytes = SubSeq(w, offset + 1, offset + n)
      OBVIOUS
    <2>1. /\ w \in Seq(1..(packets * MuxBuffer))
          /\ f.pos = Len(w)
          /\ \A i \in 1..Len(w) : i <= Len(f.data) /\ f.data[i] = w[i]
      BY DEF IInv, FilesFit, Keeps
    <2> HIDE DEF f, w, offset, n
    <2>2. SubSeq(w, offset + 1, offset + n) = [i \in 1..n |-> w[offset + i]]
      BY <1>3, <1>4, <2>1
    <2>3. \A i \in 1..n : offset + i \in 1..Len(w)
      BY <1>3, <1>4, <2>1
    <2> QED BY <2>1, <2>2, <2>3
  <1> HIDE DEF n, good
  <1>8. reader' \in [Readers -> ReaderRecords]
    BY <1>1, <1>3, <1>4, <1>5, <1>6 DEF ReaderRecords, ReaderStates, FileIds
  <1>9. crashed' \in BOOLEAN
    BY DEF Copies
  <1>10. files' = files /\ written' = written
    BY DEF fileVars
  <1>11. ASSUME NEW q \in Readers PROVE ReaderInv(q)'
    <2>1. CASE q = r
      <3>1. /\ reader'[q].at = "write" /\ reader'[q].file = id
            /\ reader'[q].offset = offset + n /\ reader'[q].good = good
        BY <1>1, <1>5, <2>1
      <3>2. OnePiece(written'[id]) => good
        BY <1>7, <1>10
      <3> QED BY <1>1, <1>4, <1>10, <3>1, <3>2 DEF ReaderInv, FileIds
    <2>2. CASE q # r
      <3>1. reader'[q] = reader[q]
        BY <1>1, <1>5, <2>2
      <3> QED BY <1>10, <3>1 DEF ReaderInv, IInv
    <2> QED BY <2>1, <2>2
  <1> QED BY <1>8, <1>9, <1>11

\* The head of the readers' loop, for a request that has not gone beyond the
\* end: it waits at the end, and copies before it.
LEMMA ContinuesKeeps ==
    ASSUME IInv, NEW r \in Readers, NEW id \in FileIds,
           reader[r].offset <= files[id].pos,
           OnePiece(written[id]) => reader[r].good,
           Continues(r, id, reader[r].offset), UNCHANGED fileVars
    PROVE  /\ reader' \in [Readers -> ReaderRecords]
           /\ crashed' \in BOOLEAN
           /\ \A q \in Readers : ReaderInv(q)'
  <1> DEFINE offset == reader[r].offset
             f == files[id]
  <1>1. /\ files \in Seq(FileRecords) /\ reader \in [Readers -> ReaderRecords]
        /\ Len(files) <= MaxFiles /\ Len(files) \in Nat
        /\ MaxFiles \in Nat /\ crashed \in BOOLEAN
    BY FilesAre DEF IInv
  <1>2. f.pos \in Nat /\ f.total_length = 0 /\ offset \in Nat /\ ~Complete(f)
    <2>1. f.pos \in Nat /\ f.total_length = 0
      BY FilesAre DEF IInv
    <2>2. offset \in Nat
      BY <1>1 DEF ReaderRecords
    <2> QED BY <2>1, <2>2 DEF Complete
  <1>3. CASE offset < f.pos
    BY <1>2, <1>3, CopiesKeeps DEF Continues
  <1>4. CASE offset >= f.pos
    <2>1. /\ reader' = [reader EXCEPT ![r].at = "wait", ![r].file = id]
          /\ crashed' = crashed
      BY <1>2, <1>4 DEF Continues
    <2>2. offset = f.pos
      BY <1>2, <1>4
    <2>3. files' = files /\ written' = written
      BY DEF fileVars
    <2>4. reader' \in [Readers -> ReaderRecords]
      <3>1. reader' = [reader EXCEPT ![r] = [reader[r] EXCEPT !.at = "wait", !.file = id]]
        BY <1>1, <2>1
      <3>2. [reader[r] EXCEPT !.at = "wait", !.file = id] \in ReaderRecords
        <4>1. id \in 0..MaxFiles /\ reader[r] \in ReaderRecords
          BY <1>1 DEF FileIds
        <4> QED BY <4>1 DEF ReaderRecords, ReaderStates
      <3> QED BY <1>1, <3>1, <3>2
    <2>5. ASSUME NEW q \in Readers PROVE ReaderInv(q)'
      <3>1. CASE q = r
        <4>1. /\ reader'[q].at = "wait" /\ reader'[q].file = id
              /\ reader'[q].offset = offset /\ reader'[q].good = reader[q].good
          BY <1>1, <2>1, <3>1 DEF ReaderRecords
        <4> QED BY <1>1, <1>2, <2>2, <2>3, <3>1, <4>1 DEF ReaderInv, FileIds
      <3>2. CASE q # r
        <4>1. reader'[q] = reader[q]
          BY <1>1, <2>1, <3>2
        <4> QED BY <2>3, <4>1 DEF ReaderInv, IInv
      <3> QED BY <3>1, <3>2
    <2> QED BY <1>1, <2>1, <2>4, <2>5
  <1> QED BY <1>2, <1>3, <1>4

\* A wait that ends changes nothing else.
LEMMA WakingKeeps ==
    ASSUME IInv, NEW S \in SUBSET Readers, UNCHANGED fileVars,
           \A q \in S : reader[q].at = "wait",
           reader' = [q \in Readers |-> IF q \in S THEN [reader[q] EXCEPT !.at = "woken"]
                                       ELSE reader[q]]
    PROVE  reader' \in [Readers -> ReaderRecords] /\ \A q \in Readers : ReaderInv(q)'
  <1>1. reader \in [Readers -> ReaderRecords]
    BY FilesAre DEF IInv
  <1>2. files' = files /\ written' = written
    BY DEF fileVars
  <1>3. ASSUME NEW q \in Readers PROVE reader'[q] \in ReaderRecords /\ ReaderInv(q)'
    <2>1. CASE q \in S
      <3>1. reader'[q] = [reader[q] EXCEPT !.at = "woken"] /\ reader[q].at = "wait"
        BY <2>1
      <3>2. reader'[q] \in ReaderRecords
        BY <1>1, <3>1 DEF ReaderRecords, ReaderStates
      <3>3. /\ reader'[q].at = "woken" /\ reader'[q].file = reader[q].file
            /\ reader'[q].offset = reader[q].offset /\ reader'[q].good = reader[q].good
        BY <1>1, <3>1 DEF ReaderRecords
      <3>4. ReaderInv(q)
        BY DEF IInv
      <3> QED BY <1>2, <3>1, <3>2, <3>3, <3>4 DEF ReaderInv
    <2>2. CASE q \notin S
      <3>1. reader'[q] = reader[q] /\ ReaderInv(q)
        BY <2>2 DEF IInv
      <3> QED BY <1>1, <1>2, <3>1 DEF ReaderInv
    <2> QED BY <2>1, <2>2
  <1> QED BY <1>3

\* Requests read the files: what they do to each other and to their channel
\* leaves the rest of the invariant as it was.
LEMMA ReadingKeeps ==
    ASSUME IInv, UNCHANGED <<fileVars, file_cache, segments, current, packets, now>>,
           reader' \in [Readers -> ReaderRecords], \A q \in Readers : ReaderInv(q)',
           crashed' \in BOOLEAN, enabled' \in BOOLEAN,
           input' \in [1..MaxFiles -> {"none", "connect", "ended"}]
    PROVE  IInv'
  <1>1. TypeOK'
    BY DEF IInv, TypeOK, ReaderRecords, FileIds, fileVars
  <1>2. CurrentInv'
    BY DEF IInv, CurrentInv, FileIds, fileVars
  <1>3. /\ FilesFit'
        /\ \A k \in Keys : file_cache'[k] \in 0..Len(files')
        /\ \A t \in Stamps : segments'[t] \in 0..Len(files')
    BY DEF IInv, FilesFit, FileIds, fileVars
  <1> QED BY <1>1, <1>2, <1>3 DEF IInv

LEMMA PlayFileKeeps ==
    ASSUME IInv, NEW r \in Readers, NEW k \in Keys, PlayFile(r, k)
    PROVE  IInv'
  <1>1. file_cache[k] \in FileIds
    <2>1. file_cache[k] \in 0..Len(files) /\ file_cache[k] # 0 /\ Len(files) \in Nat
      BY FilesAre DEF IInv, PlayFile, Found
    <2> QED BY <2>1 DEF FileIds
  <1>2. reader[r].offset = 0 /\ reader[r].good
    BY DEF IInv, ReaderInv, PlayFile
  <1>3. files[file_cache[k]].pos \in Nat
    BY <1>1, FilesAre DEF IInv
  <1>4. /\ reader' \in [Readers -> ReaderRecords]
        /\ crashed' \in BOOLEAN
        /\ \A q \in Readers : ReaderInv(q)'
    <2>1. Continues(r, file_cache[k], reader[r].offset) /\ UNCHANGED fileVars
      BY <1>2 DEF PlayFile, fileVars
    <2> QED BY <1>1, <1>2, <1>3, <2>1, ContinuesKeeps
  <1>5. /\ UNCHANGED <<fileVars, file_cache, segments, current, packets, now>>
        /\ enabled' \in BOOLEAN /\ input' \in [1..MaxFiles -> {"none", "connect", "ended"}]
    BY DEF PlayFile, IInv, TypeOK, fileVars
  <1> QED BY <1>4, <1>5, ReadingKeeps

LEMMA PlaySegmentKeeps ==
    ASSUME IInv, NEW r \in Readers, NEW t \in Stamps, PlaySegment(r, t)
    PROVE  IInv'
  <1>1. /\ reader' \in [Readers -> ReaderRecords]
        /\ crashed' \in BOOLEAN
        /\ \A q \in Readers : ReaderInv(q)'
    <2>1. CASE segments[t] # 0 /\ Continues(r, segments[t], 0)
      <3>1. segments[t] \in FileIds
        <4>1. segments[t] \in 0..Len(files) /\ Len(files) \in Nat
          BY FilesAre DEF IInv
        <4> QED BY <2>1, <4>1 DEF FileIds
      <3>2. reader[r].offset = 0 /\ reader[r].good
        BY DEF IInv, ReaderInv, PlaySegment
      <3>3. files[segments[t]].pos \in Nat
        BY <3>1, FilesAre DEF IInv
      <3> QED BY <2>1, <3>1, <3>2, <3>3, ContinuesKeeps DEF PlaySegment
    <2>2. CASE UNCHANGED <<reader, crashed>>
      BY <2>2, FilesAre DEF IInv, ReaderInv, PlaySegment, fileVars
    <2> QED BY <2>1, <2>2 DEF PlaySegment
  <1> QED BY <1>1, ReadingKeeps DEF PlaySegment, IInv, TypeOK

LEMMA InterruptedKeeps ==
    ASSUME IInv, NEW r \in Readers, Interrupted(r)
    PROVE  IInv'
  <1>1. reader' = [q \in Readers |-> IF q \in {r} THEN [reader[q] EXCEPT !.at = "woken"]
                                     ELSE reader[q]]
    BY FilesAre DEF IInv, Interrupted
  <1>2. reader' \in [Readers -> ReaderRecords] /\ \A q \in Readers : ReaderInv(q)'
    BY <1>1, WakingKeeps DEF Interrupted
  <1> QED BY <1>2, ReadingKeeps DEF Interrupted, IInv, TypeOK

LEMMA SeekRangeKeeps ==
    ASSUME IInv, NEW r \in Readers, SeekRange(r)
    PROVE  IInv'
  <1>1. /\ reader[r].file \in FileIds
        /\ reader[r].offset <= files[reader[r].file].pos
        /\ OnePiece(written[reader[r].file]) => reader[r].good
    BY FilesAre DEF IInv, ReaderInv, SeekRange, FileIds
  <1>2. /\ reader' \in [Readers -> ReaderRecords]
        /\ crashed' \in BOOLEAN
        /\ \A q \in Readers : ReaderInv(q)'
    BY <1>1, CopiesKeeps DEF SeekRange
  <1> QED BY <1>2, ReadingKeeps DEF SeekRange, IInv, TypeOK

LEMMA WrittenKeeps ==
    ASSUME IInv, NEW r \in Readers, Written(r)
    PROVE  IInv'
  <1>1. /\ reader[r].file \in FileIds
        /\ reader[r].offset <= files[reader[r].file].pos
        /\ OnePiece(written[reader[r].file]) => reader[r].good
    BY FilesAre DEF IInv, ReaderInv, Written, FileIds
  <1>2. /\ reader' \in [Readers -> ReaderRecords]
        /\ crashed' \in BOOLEAN
        /\ \A q \in Readers : ReaderInv(q)'
    BY <1>1, ContinuesKeeps DEF Written
  <1> QED BY <1>2, ReadingKeeps DEF Written, IInv, TypeOK

LEMMA InputConnectsKeeps ==
    ASSUME IInv, NEW id \in FileIds, InputConnects(id)
    PROVE  IInv'
  <1>1. input' \in [1..MaxFiles -> {"none", "connect", "ended"}] /\ crashed' \in BOOLEAN
    BY DEF InputConnects, IInv, TypeOK
  <1>2. reader' \in [Readers -> ReaderRecords] /\ \A q \in Readers : ReaderInv(q)'
    BY FilesAre DEF InputConnects, IInv, ReaderInv, fileVars
  <1> QED BY <1>1, <1>2, ReadingKeeps DEF InputConnects, IInv, TypeOK

----------------------------------------------------------------------------
\* What the packets so far say of a file stays true with more packets.
LEMMA KeepsLater ==
    ASSUME NEW f, NEW w, NEW p \in Nat, NEW q \in Nat, p <= q, Keeps(f, w, p)
    PROVE  Keeps(f, w, q)
  <1>1. p * MuxBuffer \in Nat /\ q * MuxBuffer \in Nat /\ p * MuxBuffer <= q * MuxBuffer
    BY FileCacheAssumption, SMTT(30)
  <1>2. 1..(p * MuxBuffer) \subseteq 1..(q * MuxBuffer)
    BY <1>1
  <1> QED BY <1>2, SeqMonotonic DEF Keeps

\* A new file at the end of the others, and of what was appended to them.
LEMMA FileIsAdded ==
    ASSUME IInv, NEW f \in FileRecords, Len(f.data) <= InitSize,
           NEW w, NEW p \in Nat, packets <= p, Keeps(f, w, p), Len(files) < MaxFiles,
           files' = Append(files, f), written' = Append(written, w), packets' = p
    PROVE  /\ FilesFit' /\ Len(files') = Len(files) + 1
           /\ \A id \in FileIds : files'[id] = files[id] /\ written'[id] = written[id]
           /\ files'[Len(files) + 1] = f /\ written'[Len(files) + 1] = w
  <1>1. /\ files \in Seq(FileRecords) /\ Len(files) \in Nat /\ MaxFiles \in Nat
        /\ packets \in Nat
    BY FilesAre DEF IInv
  <1>2. written \in Seq(Seq(Nat)) /\ Len(written) = Len(files)
    BY DEF IInv, FilesFit
  <1>3. w \in Seq(Nat)
    <2>1. w \in Seq(1..(p * MuxBuffer))
      BY DEF Keeps
    <2>2. 1..(p * MuxBuffer) \subseteq Nat
      OBVIOUS
    <2> QED BY <2>1, <2>2, SeqMonotonic
  <1>4. /\ files' \in Seq(FileRecords) /\ Len(files') = Len(files) + 1
        /\ \A id \in 1..Len(files) : files'[id] = files[id]
        /\ files'[Len(files) + 1] = f
    BY <1>1
  <1>5. /\ Len(written') = Len(files) + 1 /\ DOMAIN written' = 1..(Len(files) + 1)
        /\ \A id \in 1..Len(files) : written'[id] = written[id]
        /\ written'[Len(files) + 1] = w
        /\ written' \in Seq(Seq(Nat))
    BY <1>1, <1>2, <1>3
  <1>6. ASSUME NEW id \in FileIds'
        PROVE  Len(files'[id].data) <= InitSize /\ Keeps(files'[id], written'[id], packets')
    <2>1. CASE id \in 1..Len(files)
      <3>1. Len(files[id].data) <= InitSize /\ Keeps(files[id], written[id], packets)
        BY <2>1 DEF IInv, FilesFit, TypeOK, FileIds
      <3> QED BY <1>1, <1>4, <1>5, <2>1, <3>1, KeepsLater
    <2>2. CASE id = Len(files) + 1
      BY <1>4, <1>5, <2>2
    <2>3. id \in 1..Len(files) \/ id = Len(files) + 1
      BY <1>1, <1>4 DEF FileIds
    <2> QED BY <2>1, <2>2, <2>3
  <1> QED BY <1>1, <1>4, <1>5, <1>6 DEF FilesFit, FileIds

\* A sequence with another element in the place of one.
Replaced(s, i, x) == [s EXCEPT ![i] = x]

\* Another state of a file that is there.
LEMMA FileIsChanged ==
    ASSUME IInv, NEW id \in FileIds, NEW f \in FileRecords, Len(f.data) <= InitSize,
           NEW w, NEW p \in Nat, packets <= p, Keeps(f, w, p),
           files' = Replaced(files, id, f), written' = Replaced(written, id, w),
           packets' = p
    PROVE  /\ FilesFit' /\ Len(files') = Len(files)
           /\ \A i \in FileIds \ {id} : files'[i] = files[i] /\ written'[i] = written[i]
           /\ files'[id] = f /\ written'[id] = w
  <1>1. /\ files \in Seq(FileRecords) /\ Len(files) \in Nat /\ Len(files) <= MaxFiles
        /\ packets \in Nat
    BY FilesAre DEF IInv
  <1>2. written \in Seq(Seq(Nat)) /\ Len(written) = Len(files)
    BY DEF IInv, FilesFit
  <1>3. w \in Seq(Nat)
    <2>1. w \in Seq(1..(p * MuxBuffer))
      BY DEF Keeps
    <2>2. 1..(p * MuxBuffer) \subseteq Nat
      OBVIOUS
    <2> QED BY <2>1, <2>2, SeqMonotonic
  <1>4. id \in 1..Len(files)
    BY DEF FileIds
  <1>5. /\ files' \in Seq(FileRecords) /\ Len(files') = Len(files)
        /\ \A i \in 1..Len(files) \ {id} : files'[i] = files[i]
        /\ files'[id] = f
    BY <1>1, <1>4 DEF Replaced
  <1>6. /\ written' \in Seq(Seq(Nat)) /\ Len(written') = Len(files)
        /\ DOMAIN written' = 1..Len(files)
        /\ \A i \in 1..Len(files) \ {id} : written'[i] = written[i]
        /\ written'[id] = w
    BY <1>1, <1>2, <1>3, <1>4 DEF Replaced
  <1>7. ASSUME NEW i \in 1..Len(files)
        PROVE  Len(files'[i].data) <= InitSize /\ Keeps(files'[i], written'[i], packets')
    <2>1. CASE i = id
      BY <1>5, <1>6, <2>1
    <2>2. CASE i # id
      <3>1. Len(files[i].data) <= InitSize /\ Keeps(files[i], written[i], packets)
        BY <2>2 DEF IInv, FilesFit, TypeOK, FileIds
      <3> QED BY <1>1, <1>5, <1>6, <2>2, <3>1, KeepsLater
    <2> QED BY <2>1, <2>2
  <1> QED BY <1>1, <1>5, <1>6, <1>7 DEF FilesFit, FileIds

\* What n bytes of a packet make of a file and of what was appended to it.
LEMMA PacketKeeps ==
    ASSUME NEW f \in FileRecords, Len(f.data) <= InitSize,
           f.data = <<>> => SizeLimit <= InitSize,
           NEW p \in Nat, p < MaxPackets, NEW w, Keeps(f, w, p),
           NEW n \in 0..MuxBuffer
    PROVE  LET bytes == [i \in 1..n |-> p * MuxBuffer + i]
               g == IF n = 0 THEN f ELSE Appended(f, bytes)
           IN  /\ g \in FileRecords
               /\ Len(g.data) <= InitSize
               /\ g.data = <<>> => SizeLimit <= InitSize
               /\ g.pos = f.pos + n
               /\ Keeps(g, w \o bytes, p + 1)
               /\ OnePiece(w \o bytes) => OnePiece(w)
  <1>1. CASE n = 0
    <2>1. [i \in 1..n |-> p * MuxBuffer + i] = <<>>
      BY <1>1
    <2>2. w \o <<>> = w
      BY DEF Keeps
    <2>3. Keeps(f, w, p + 1)
      BY KeepsLater
    <2>4. f.pos + 0 = f.pos
      BY DEF FileRecords
    <2> QED BY <1>1, <2>1, <2>2, <2>3, <2>4
  <1>2. CASE n # 0
    <2>1. n \in 1..MuxBuffer
      BY <1>2, FileCacheAssumption
    <2> QED BY <1>2, <2>1, AppendKeeps
  <1> QED BY <1>1, <1>2

\* The readers of a file that a packet has come to: those who waited at its end
\* are woken, and none is where the others are not.
LEMMA ReadersFollow ==
    ASSUME IInv, NEW id, NEW n \in Nat,
           Len(files') \in Nat, Len(files') >= Len(files),
           \A i \in FileIds \ {id} : files'[i] = files[i] /\ written'[i] = written[i],
           id \in FileIds => /\ files'[id].pos = files[id].pos + n
                             /\ OnePiece(written'[id]) => OnePiece(written[id]),
           reader' = [r \in Readers |-> IF n > 0 /\ r \in Notified(id)
                                            THEN [reader[r] EXCEPT !.at = "woken"]
                                            ELSE reader[r]]
    PROVE  reader' \in [Readers -> ReaderRecords] /\ \A r \in Readers : ReaderInv(r)'
  <1>1. /\ reader \in [Readers -> ReaderRecords] /\ Len(files) \in Nat
        /\ \A i \in FileIds : files[i].pos \in Nat
    BY FilesAre DEF IInv
  <1>2. ASSUME NEW r \in Readers PROVE reader'[r] \in ReaderRecords /\ ReaderInv(r)'
    <2> DEFINE q == reader[r]
    <2>1. /\ reader'[r].at = IF n > 0 /\ r \in Notified(id) THEN "woken" ELSE q.at
          /\ reader'[r].file = q.file
          /\ reader'[r].offset = q.offset /\ reader'[r].good = q.good
          /\ reader'[r] \in ReaderRecords
      BY <1>1 DEF ReaderRecords, ReaderStates
    <2>2. q \in ReaderRecords /\ ReaderInv(r)
      BY <1>1 DEF IInv
    <2>3. q.offset \in Nat /\ q.file \in 0..Len(files')
      BY <1>1, <2>2 DEF ReaderInv, ReaderRecords
    <2>4. CASE q.at = "new"
      BY <2>1, <2>2, <2>3, <2>4 DEF ReaderInv, Notified
    <2>5. CASE q.at # "new"
      <3>1. q.file \in FileIds /\ reader'[r].at # "new"
        BY <1>1, <2>1, <2>2, <2>5 DEF ReaderInv, FileIds
      <3>2. CASE q.file = id /\ n > 0
        <4>1. reader'[r].at # "wait"
          BY <2>1, <3>2 DEF Notified
        <4>2. q.offset <= files'[id].pos
          BY <1>1, <2>2, <2>3, <2>5, <3>1, <3>2 DEF ReaderInv
        <4> QED BY <2>1, <2>2, <2>3, <2>5, <3>1, <3>2, <4>1, <4>2 DEF ReaderInv
      <3>3. CASE ~(q.file = id /\ n > 0)
        <4>1. /\ files'[q.file].pos = files[q.file].pos
              /\ OnePiece(written'[q.file]) => OnePiece(written[q.file])
          BY <1>1, <3>1, <3>3
        <4>2. reader'[r].at = q.at
          BY <2>1, <3>3 DEF Notified
        <4> QED BY <2>1, <2>2, <2>3, <2>5, <3>1, <4>1, <4>2 DEF ReaderInv
      <3> QED BY <3>2, <3>3
    <2> QED BY <2>1, <2>4, <2>5
  <1>3. DOMAIN reader' = Readers /\ reader' = [r \in Readers |-> reader'[r]]
    OBVIOUS
  <1> QED BY <1>2, <1>3

\* A file nobody has written to.
LEMMA NewFileKeeps ==
    ASSUME NEW name \in Keys \cup {"segment"}, NEW p \in Nat
    PROVE  /\ NewFile(name) \in FileRecords
           /\ NewFile(name).data = <<>> /\ NewFile(name).pos = 0
           /\ Keeps(NewFile(name), <<>>, p)
           /\ OnePiece(<<>>)
           /\ LET f == InitBuffer(NewFile(name), InitSize) IN
              /\ f \in FileRecords /\ Len(f.data) <= InitSize
              /\ f.pos = 0
              /\ f.data = <<>> => SizeLimit <= InitSize
              /\ Keeps(f, <<>>, p)
  <1> DEFINE g == NewFile(name)
             f == InitBuffer(g, InitSize)
  <1>1. InitSize \in Nat \ {0} /\ SizeLimit \in Nat
    BY FileCacheAssumption
  <1>2. g \in FileRecords /\ g.data = <<>> /\ g.pos = 0 /\ g.size = 0
    BY <1>1 DEF NewFile, FileRecords
  <1>3. /\ f \in FileRecords /\ f.pos = g.pos
        /\ f.data = g.data \/ (g.data = <<>> /\ ~TooLarge(InitSize) /\ Len(f.data) = InitSize)
        /\ InitSize >= g.size /\ ~TooLarge(InitSize) => g.data # <<>> \/ Len(f.data) = InitSize
    <2> HIDE DEF g
    <2> QED BY <1>1, <1>2, GrowsOnlyFromEmpty
  <1>4. OnePiece(<<>>) /\ <<>> \in Seq(1..(p * MuxBuffer)) /\ Len(<<>>) = 0
    BY DEF OnePiece
  <1>5. Keeps(g, <<>>, p) /\ Keeps(f, <<>>, p)
    <2> HIDE DEF f, g
    <2> QED BY <1>2, <1>3, <1>4 DEF Keeps
  <1>6. Len(f.data) <= InitSize /\ (f.data = <<>> => SizeLimit <= InitSize)
    <2> HIDE DEF f, g
    <2> QED BY <1>1, <1>2, <1>3 DEF TooLarge
  <1> QED BY <1>2, <1>3, <1>4, <1>5, <1>6

LEMMA CreateOriginFileKeeps ==
    ASSUME IInv, NEW r \in Readers, NEW k \in Keys, CreateOriginFile(r, k)
    PROVE  IInv'
  <1> DEFINE id == Len(files) + 1
             f == NewFile(k)
  <1>1. /\ reader \in [Readers -> ReaderRecords] /\ Len(files) \in Nat
        /\ packets \in Nat /\ MaxFiles \in Nat /\ id <= MaxFiles
        /\ id \in 1..MaxFiles
    BY FilesAre DEF IInv, CreateOriginFile
  <1>2. f \in FileRecords /\ f.data = <<>> /\ f.pos = 0 /\ Keeps(f, <<>>, packets) /\ OnePiece(<<>>)
    BY <1>1, NewFileKeeps
  <1>3. Len(f.data) <= InitSize
    BY <1>2, FileCacheAssumption
  <1>4. /\ files' = Append(files, f) /\ written' = Append(written, <<>>) /\ packets' = packets
        /\ reader' = [reader EXCEPT ![r].at = "wait", ![r].file = id]
        /\ file_cache' = [file_cache EXCEPT ![k] = id]
        /\ input' = [input EXCEPT ![id] = "connect"]
        /\ UNCHANGED <<enabled, segments, current, now, crashed>>
        /\ reader[r].at = "new"
    BY DEF CreateOriginFile
  <1> HIDE DEF f
  <1>5. /\ FilesFit' /\ Len(files') = Len(files) + 1
        /\ \A i \in FileIds : files'[i] = files[i] /\ written'[i] = written[i]
        /\ files'[id] = f /\ written'[id] = <<>>
    <2>1. Len(files) < MaxFiles /\ packets <= packets
      BY <1>1
    <2> QED BY <1>1, <1>2, <1>3, <1>4, <2>1, FileIsAdded
  <1>6. reader[r].offset = 0 /\ reader[r].good
    BY <1>4 DEF IInv, ReaderInv
  <1>7. ASSUME NEW q \in Readers PROVE reader'[q] \in ReaderRecords /\ ReaderInv(q)'
    <2>1. CASE q = r
      <3>1. /\ reader'[q].at = "wait" /\ reader'[q].file = id
            /\ reader'[q].offset = 0 /\ reader'[q].good
            /\ reader'[q] \in ReaderRecords
        <4>1. reader'[q] = [reader[r] EXCEPT !.at = "wait", !.file = id]
          BY <1>1, <1>4, <2>1
        <4>2. reader[r] \in ReaderRecords /\ id \in 0..MaxFiles
          BY <1>1
        <4> HIDE DEF id
        <4> QED BY <1>6, <4>1, <4>2 DEF ReaderRecords, ReaderStates
      <3> QED BY <1>1, <1>2, <1>5, <3>1 DEF ReaderInv
    <2>2. CASE q # r
      <3>1. reader'[q] = reader[q] /\ reader[q] \in ReaderRecords /\ ReaderInv(q)
        BY <1>1, <1>4, <2>2 DEF IInv
      <3>2. reader[q].at # "new" => reader[q].file \in FileIds
        BY <1>1, <3>1 DEF ReaderInv, FileIds
      <3> QED BY <1>1, <1>5, <3>1, <3>2 DEF ReaderInv
    <2> QED BY <2>1, <2>2
  <1>8. reader' \in [Readers -> ReaderRecords]
    BY <1>1, <1>4, <1>7
  <1>9. /\ file_cache' \in [Keys -> 0..MaxFiles]
        /\ \A j \in Keys : file_cache'[j] \in 0..Len(files')
        /\ \A t \in Stamps : segments'[t] \in 0..Len(files')
        /\ input' \in [1..MaxFiles -> {"none", "connect", "ended"}]
    <2>1. file_cache \in [Keys -> 0..MaxFiles] /\ input \in [1..MaxFiles -> {"none", "connect", "ended"}]
      BY DEF IInv, TypeOK
    <2>2. \A j \in Keys : file_cache[j] \in 0..Len(files)
      BY DEF IInv
    <2>3. \A t \in Stamps : segments[t] \in 0..Len(files)
      BY DEF IInv
    <2> QED BY <1>1, <1>4, <1>5, <2>1, <2>2, <2>3
  <1>10. TypeOK'
    BY <1>4, <1>5, <1>8, <1>9 DEF IInv, FilesFit, TypeOK, FileRecords, ReaderRecords, Bytes
  <1>11. CurrentInv'
    <2>1. CurrentInv
      BY DEF IInv
    <2> QED BY <1>1, <1>4, <1>5, <2>1 DEF CurrentInv, FileIds
  <1> QED BY <1>5, <1>7, <1>9, <1>10, <1>11 DEF IInv

\* The segment a packet is for: the current one, or a new one in a file of its
\* own.
Segments ==
    [file: 0..MaxFiles, duration_ms: Nat, last_timestamp: Stamps, first_timestamp: Stamps]

LEMMA TargetHolds ==
    ASSUME IInv, NEW t \in Stamps, now <= t, NEW is_key_frame \in BOOLEAN,
           NEW target, target = Target(t, is_key_frame), Len(target[2]) <= MaxFiles
    PROVE  LET segment == target[1]
               id == segment.file
               new == InitBuffer(NewFile("segment"), InitSize)
           IN  /\ segment \in Segments /\ id # 0
               /\ segment.last_timestamp <= t
               /\ \/ /\ id \in FileIds
                     /\ target[2] = files /\ target[3] = segments
                     /\ files[id].data = <<>> => SizeLimit <= InitSize
                  \/ /\ id = Len(files) + 1 /\ id <= MaxFiles
                     /\ target[2] = Append(files, new)
                     /\ \E u \in Stamps : target[3] = [segments EXCEPT ![u] = id]
               /\ \E u \in Stamps : target[3][u] = id
               /\ target[3] \in [Stamps -> 0..MaxFiles]
               /\ \A u \in Stamps : target[3][u] \in 0..Len(target[2])
  <1> DEFINE new == InitBuffer(NewFile("segment"), InitSize)
  <1>1. /\ files \in Seq(FileRecords) /\ Len(files) \in Nat /\ Len(files) <= MaxFiles
        /\ MaxFiles \in Nat /\ MaxTime \in Nat /\ 0 \in Stamps
        /\ current \in Segments /\ now \in Stamps /\ segments \in [Stamps -> 0..MaxFiles]
        /\ \A u \in Stamps : segments[u] \in 0..Len(files)
    <2>1. MaxTime \in Nat
      BY FileCacheAssumption
    <2>2. /\ current \in Segments /\ now \in Stamps /\ segments \in [Stamps -> 0..MaxFiles]
          /\ \A u \in Stamps : segments[u] \in 0..Len(files)
      BY DEF IInv, TypeOK, Segments
    <2>3. 0 \in Stamps
      BY <2>1 DEF Stamps
    <2> QED BY <2>1, <2>2, <2>3, FilesAre DEF IInv
  <1>2. CurrentInv
    BY DEF IInv
  <1>3. CASE current # NoSegment /\ ~Rolls(t, is_key_frame)
    <2>1. /\ target[1] = [current EXCEPT !.duration_ms = Duration(current, t)]
          /\ target[2] = files /\ target[3] = segments
      BY <1>3 DEF Target
    <2>2. /\ current.file \in FileIds /\ \E u \in Stamps : segments[u] = current.file
          /\ files[current.file].data = <<>> => SizeLimit <= InitSize
          /\ current.last_timestamp <= now
      BY <1>2, <1>3 DEF CurrentInv
    <2>3. Duration(current, t) \in Nat /\ current.last_timestamp <= t
      <3>1. /\ t \in Nat /\ now \in Nat /\ now <= t
            /\ current.last_timestamp \in Nat /\ current.duration_ms \in Nat
        BY <1>1 DEF Segments, Stamps
      <3> QED BY <2>2, <3>1 DEF Duration
    <2>4. /\ target[1] \in Segments /\ target[1].file = current.file
          /\ target[1].last_timestamp = current.last_timestamp
      BY <1>1, <2>1, <2>3 DEF Segments
    <2>5. current.file # 0
      BY <1>1, <2>2 DEF FileIds
    <2> QED BY <1>1, <2>1, <2>2, <2>3, <2>4, <2>5
  <1>4. CASE ~(current # NoSegment /\ ~Rolls(t, is_key_frame))
    <2> DEFINE id == Len(files) + 1
               u == IF current = NoSegment THEN t ELSE current.first_timestamp
    <2>1. /\ target[1] = NewSegment(id)
          /\ target[2] = Append(files, new) /\ target[3] = [segments EXCEPT ![u] = id]
      BY <1>4 DEF Target, AddFile
    <2>2. u \in Stamps
      BY <1>1 DEF Segments
    <2> HIDE DEF new, u
    <2>3. Len(target[2]) = id /\ id <= MaxFiles /\ id \in 0..MaxFiles /\ id \in 0..id
      BY <1>1, <2>1
    <2>4. /\ target[1] \in Segments /\ target[1].file = id /\ id # 0
          /\ target[1].last_timestamp = 0
      BY <1>1, <2>1, <2>3 DEF NewSegment, Segments
    <2>5. /\ target[3][u] = id /\ target[3] \in [Stamps -> 0..MaxFiles]
          /\ \A v \in Stamps : target[3][v] \in 0..Len(target[2])
      BY <1>1, <2>1, <2>2, <2>3
    <2>6. target[1].last_timestamp <= t
      BY <2>4 DEF Stamps
    <2> QED BY <2>1, <2>2, <2>3, <2>4, <2>5, <2>6 DEF new
  <1> QED BY <1>3, <1>4

LEMMA HandlePacketKeeps ==
    ASSUME IInv, NEW t \in Stamps, now <= t, NEW is_key_frame \in BOOLEAN,
           NEW n \in 0..MuxBuffer, HandlePacket(t, is_key_frame, n)
    PROVE  IInv'
  <1> DEFINE target == Target(t, is_key_frame)
             segment == target[1]
             made == target[2]
             id == segment.file
             new == InitBuffer(NewFile("segment"), InitSize)
             m == IF Fits(made[id], n) THEN n ELSE 0
             bytes(k) == [i \in 1..k |-> packets * MuxBuffer + i]
             old == id \in FileIds
             f == IF old THEN files[id] ELSE new
             w == IF old THEN written[id] ELSE <<>>
             g == IF m = 0 THEN f ELSE Appended(f, bytes(m))
             v == w \o bytes(m)
  <1>1. /\ files \in Seq(FileRecords) /\ Len(files) \in Nat /\ Len(files) <= MaxFiles
        /\ packets \in Nat /\ MaxFiles \in Nat /\ MuxBuffer \in Nat
        /\ reader \in [Readers -> ReaderRecords]
        /\ written \in Seq(Seq(Nat)) /\ Len(written) = Len(files)
    BY FilesAre, FileCacheAssumption DEF IInv, FilesFit
  <1>2. /\ packets < MaxPackets /\ Len(made) <= MaxFiles
        /\ packets' = packets + 1 /\ now' = t /\ segments' = target[3]
        /\ UNCHANGED <<file_cache, input, enabled, crashed>>
    BY DEF HandlePacket
  <1>3. /\ segment \in Segments /\ id # 0 /\ segment.last_timestamp <= t
        /\ \/ /\ id \in FileIds /\ made = files
              /\ files[id].data = <<>> => SizeLimit <= InitSize
           \/ id = Len(files) + 1 /\ id <= MaxFiles /\ made = Append(files, new)
        /\ \E u \in Stamps : target[3][u] = id
        /\ target[3] \in [Stamps -> 0..MaxFiles]
        /\ \A u \in Stamps : target[3][u] \in 0..Len(made)
    <2> HIDE DEF target
    <2>1. target = Target(t, is_key_frame) /\ Len(target[2]) <= MaxFiles
      BY <1>2 DEF target
    <2> QED BY <2>1, TargetHolds, Zenon
  <1>4. m \in 0..MuxBuffer /\ m \in Nat
    BY <1>1
  <1>5. /\ current' = segment \/
              current' = [segment EXCEPT !.last_timestamp = t,
                            !.first_timestamp = IF segment.first_timestamp = 0 THEN t
                                                ELSE segment.first_timestamp]
        /\ reader' = [r \in Readers |-> IF m > 0 /\ r \in Notified(id)
                                            THEN [reader[r] EXCEPT !.at = "woken"]
                                            ELSE reader[r]]
        /\ files' = IF m = 0 THEN made ELSE [made EXCEPT ![id] = Appended(made[id], bytes(m))]
        /\ written' = IF old THEN [written EXCEPT ![id] = written[id] \o bytes(m)]
                             ELSE Append(written, bytes(m))
    <2> HIDE DEF target
    <2>1. CASE Fits(made[id], n)
      <3>1. m = n
        BY <2>1
      <3>2. /\ files' = [made EXCEPT ![id] = IF n = 0 THEN made[id] ELSE Appended(made[id], bytes(n))]
            /\ written' = IF old THEN [written EXCEPT ![id] = written[id] \o bytes(n)]
                                 ELSE Append(written, bytes(n))
            /\ current' = [segment EXCEPT !.last_timestamp = t,
                              !.first_timestamp = IF segment.first_timestamp = 0 THEN t
                                                  ELSE segment.first_timestamp]
            /\ reader' = [r \in Readers |-> IF n > 0 /\ r \in Notified(id)
                                                THEN [reader[r] EXCEPT !.at = "woken"]
                                                ELSE reader[r]]
        BY <2>1 DEF HandlePacket, target
      <3>3. n = 0 => [made EXCEPT ![id] = made[id]] = made
        <4>1. made \in Seq(FileRecords)
          <5>1. new \in FileRecords
            BY <1>1, NewFileKeeps
          <5>2. made = files \/ made = Append(files, new)
            BY <1>3
          <5> HIDE DEF new, made
          <5>3. files \in Seq(FileRecords) /\ Append(files, new) \in Seq(FileRecords)
            BY <1>1, <5>1, AppendProperties
          <5> QED BY <5>2, <5>3
        <4> HIDE DEF made, id
        <4> QED BY <4>1
      <3> HIDE DEF id, segment, made
      <3> QED BY <3>1, <3>2, <3>3
    <2>2. CASE ~Fits(made[id], n)
      <3>1. m = 0 /\ bytes(m) = <<>>
        BY <2>2
      <3>2. /\ files' = made /\ current' = segment /\ reader' = reader
            /\ written' = IF old THEN written ELSE Append(written, <<>>)
        BY <2>2 DEF HandlePacket, target
      <3>3. old => [written EXCEPT ![id] = written[id] \o <<>>] = written
        <4> HIDE DEF id
        <4> QED BY <1>1 DEF FileIds
      <3>4. reader' = [r \in Readers |-> reader[r]]
        BY <1>1, <3>2
      <3> HIDE DEF id, segment, made, m
      <3> QED BY <3>1, <3>2, <3>3, <3>4
    <2> QED BY <2>1, <2>2
  <1> HIDE DEF target, m
  <1>6. /\ f \in FileRecords /\ Len(f.data) <= InitSize /\ Keeps(f, w, packets)
        /\ f.data = <<>> => SizeLimit <= InitSize
    <2>1. CASE old
      <3>1. f = files[id] /\ w = written[id] /\ id \in FileIds
        BY <2>1
      <3>2. files[id].data = <<>> => SizeLimit <= InitSize
        BY <1>1, <1>3, <2>1 DEF FileIds
      <3> HIDE DEF id, f, w
      <3>3. files[id] \in FileRecords
        BY <3>1, FilesAre DEF IInv
      <3>4. Len(files[id].data) <= InitSize /\ Keeps(files[id], written[id], packets)
        BY <3>1 DEF IInv, FilesFit, TypeOK
      <3> QED BY <3>1, <3>2, <3>3, <3>4
    <2>2. CASE ~old
      <3>1. f = new /\ w = <<>>
        BY <2>2
      <3> HIDE DEF f, w
      <3> QED BY <1>1, <3>1, NewFileKeeps
    <2> QED BY <2>1, <2>2
  <1>7. /\ g \in FileRecords /\ Len(g.data) <= InitSize
        /\ g.data = <<>> => SizeLimit <= InitSize
        /\ g.pos = f.pos + m
        /\ Keeps(g, v, packets + 1)
        /\ OnePiece(v) => OnePiece(w)
    <2> HIDE DEF f, w
    <2> QED BY <1>1, <1>2, <1>4, <1>6, PacketKeeps
  <1>8. /\ FilesFit' /\ Len(files') >= Len(files) /\ Len(files') = Len(made)
        /\ \A i \in FileIds \ {id} : files'[i] = files[i] /\ written'[i] = written[i]
        /\ files'[id] = g /\ written'[id] = v /\ id \in FileIds'
    <2>1. CASE old
      <3>1. files' = [files EXCEPT ![id] = g] /\ written' = [written EXCEPT ![id] = v]
        <4>1. made = files /\ f = files[id] /\ w = written[id]
          BY <1>1, <1>3, <2>1 DEF FileIds
        <4>2. m = 0 => [files EXCEPT ![id] = files[id]] = files
          BY <1>1, <2>1
        <4> HIDE DEF made, id, f, w
        <4> QED BY <1>5, <2>1, <4>1, <4>2 DEF f, w
      <3> HIDE DEF g, v
      <3>2. packets + 1 \in Nat /\ packets <= packets + 1 /\ packets' = packets + 1
        BY <1>1, <1>2
      <3>3. made = files
        BY <1>1, <1>3, <2>1 DEF FileIds
      <3> HIDE DEF id
      <3>4. /\ FilesFit' /\ Len(files') = Len(files)
            /\ \A i \in FileIds \ {id} : files'[i] = files[i] /\ written'[i] = written[i]
            /\ files'[id] = g /\ written'[id] = v
        <4>1. id \in FileIds /\ g \in FileRecords /\ Len(g.data) <= InitSize
              /\ Keeps(g, v, packets + 1)
          BY <1>7, <2>1
        <4> DEFINE p == packets + 1
        <4>2. p \in Nat /\ packets <= p /\ packets' = p /\ Keeps(g, v, p)
          BY <3>2, <4>1
        <4>3. files' = Replaced(files, id, g) /\ written' = Replaced(written, id, v)
          BY <3>1 DEF Replaced
        <4> HIDE DEF p
        <4> QED BY <4>3, <4>1, <4>2, FileIsChanged
      <3>5. id \in FileIds' /\ Len(files') >= Len(files) /\ Len(files') = Len(made)
        BY <1>1, <2>1, <3>3, <3>4 DEF FileIds
      <3> QED BY <3>4, <3>5
    <2>2. CASE ~old
      <3>1. id = Len(files) + 1 /\ id <= MaxFiles /\ made = Append(files, new)
        BY <1>3, <2>2
      <3>2. files' = Append(files, g) /\ written' = Append(written, v)
        <4>1. f = new /\ w = <<>> /\ made[id] = new /\ <<>> \o bytes(m) = bytes(m)
          BY <1>1, <1>4, <2>2, <3>1
        <4>2. Append(files, g) = [Append(files, new) EXCEPT ![id] = g]
          <5>1. new \in FileRecords
            BY <1>1, NewFileKeeps
          <5>2. g \in FileRecords /\ id = Len(files) + 1
            BY <1>7, <3>1
          <5> HIDE DEF new, g, id
          <5> DEFINE a == Append(files, new)
                     b == Append(files, g)
          <5>3. a \in Seq(FileRecords) /\ Len(a) = id /\ a[id] = new /\ \A i \in 1..Len(files) : a[i] = files[i]
            BY <1>1, <5>1, <5>2
          <5>4. b \in Seq(FileRecords) /\ Len(b) = id /\ b[id] = g /\ \A i \in 1..Len(files) : b[i] = files[i]
            BY <1>1, <5>1, <5>2
          <5>5. id \in 1..id
            BY <1>1, <5>2
          <5> HIDE DEF a, b
          <5>6. /\ [a EXCEPT ![id] = g] \in Seq(FileRecords)
                /\ Len([a EXCEPT ![id] = g]) = id
                /\ \A i \in 1..id : [a EXCEPT ![id] = g][i] = IF i = id THEN g ELSE a[i]
            BY <5>2, <5>3, <5>5, ExceptSeq
          <5>7. \A i \in 1..id : [a EXCEPT ![id] = g][i] = b[i]
            <6>1. \A i \in 1..id : i = id \/ i \in 1..Len(files)
              BY <1>1, <5>2
            <6>2. Len(files) + 1 \notin 1..Len(files)
              BY <1>1
            <6> QED BY <5>2, <5>3, <5>4, <5>6, <6>1, <6>2
          <5>8. [a EXCEPT ![id] = g] = b
            BY <5>4, <5>6, <5>7, SeqEqual
          <5> QED BY <5>8 DEF a, b
        <4>3. m = 0 => g = new
          BY <4>1
        <4> HIDE DEF made, id, new
        <4>4. m = 0 => Append(files, g) = made
          BY <3>1, <4>3
        <4> QED BY <1>5, <2>2, <3>1, <4>1, <4>2, <4>4
      <3> HIDE DEF g, v, id
      <3>3. packets + 1 \in Nat /\ packets <= packets + 1 /\ packets' = packets + 1
            /\ Len(files) < MaxFiles
        BY <1>1, <1>2, <3>1
      <3>4. /\ FilesFit' /\ Len(files') = Len(files) + 1
            /\ \A i \in FileIds : files'[i] = files[i] /\ written'[i] = written[i]
            /\ files'[Len(files) + 1] = g /\ written'[Len(files) + 1] = v
        BY <1>7, <3>2, <3>3, FileIsAdded
      <3>5. Len(made) = Len(files) + 1
        BY <1>1, <3>1
      <3> QED BY <1>1, <3>1, <3>4, <3>5 DEF FileIds
    <2> QED BY <2>1, <2>2
  <1>9. reader' \in [Readers -> ReaderRecords] /\ \A r \in Readers : ReaderInv(r)'
    <2>1. id \in FileIds => /\ files'[id].pos = files[id].pos + m
                            /\ OnePiece(written'[id]) => OnePiece(written[id])
      BY <1>7, <1>8
    <2>2. /\ Len(files') \in Nat /\ Len(files') >= Len(files)
          /\ \A i \in FileIds \ {id} : files'[i] = files[i] /\ written'[i] = written[i]
      BY <1>8
    <2>3. reader' = [r \in Readers |-> IF m > 0 /\ r \in Notified(id)
                                           THEN [reader[r] EXCEPT !.at = "woken"]
                                           ELSE reader[r]]
      BY <1>5
    <2> HIDE DEF id
    <2> QED BY <1>4, <2>1, <2>2, <2>3, ReadersFollow
  <1>10. current' \in Segments /\ current'.file = id /\ current'.last_timestamp <= t
    <2>1. t \in Stamps /\ t <= t
      BY DEF Stamps
    <2> QED BY <1>3, <1>5, <2>1 DEF Segments
  <1>11. CurrentInv'
    <2>1. files'[id].data = <<>> => SizeLimit <= InitSize
      BY <1>7, <1>8
    <2>2. \E u \in Stamps : segments'[u] = id
      BY <1>2, <1>3
    <2> HIDE DEF id
    <2> QED BY <1>2, <1>8, <1>10, <2>1, <2>2 DEF CurrentInv
  <1>12. TypeOK'
    <2>1. packets' \in 0..MaxPackets
      BY <1>1, <1>2, FileCacheAssumption
    <2>2. files' \in Seq(FileRecords) /\ reader' \in [Readers -> ReaderRecords] /\ current' \in Segments
      BY <1>8, <1>9, <1>10 DEF FilesFit
    <2>3. segments' \in [Stamps -> 0..MaxFiles]
      BY <1>2, <1>3
    <2> QED BY <1>2, <1>8, <2>1, <2>2, <2>3
        DEF IInv, TypeOK, FilesFit, FileRecords, ReaderRecords, Segments, Bytes
  <1>13. /\ \A k \in Keys : file_cache'[k] \in 0..Len(files')
         /\ \A u \in Stamps : segments'[u] \in 0..Len(files')
    <2>1. \A k \in Keys : file_cache[k] \in 0..Len(files)
      BY DEF IInv
    <2>2. \A u \in Stamps : segments'[u] \in 0..Len(files')
      <3> HIDE DEF made, id
      <3> QED BY <1>2, <1>3, <1>8
    <2>3. file_cache' = file_cache /\ Len(files') \in Nat /\ Len(files) <= Len(files')
      BY <1>2, <1>8
    <2> QED BY <1>1, <2>1, <2>2, <2>3
  <1> QED BY <1>8, <1>9, <1>11, <1>12, <1>13 DEF IInv

----------------------------------------------------------------------------
LEMMA InitHolds == Init => IInv
  <1> SUFFICES ASSUME Init PROVE IInv
    OBVIOUS
  <1>1. /\ MaxFiles \in Nat /\ MaxTime \in Nat /\ MaxPackets \in Nat /\ 0 \in Stamps
        /\ FileIds = {} /\ Len(files) = 0 /\ files = <<>>
    BY FileCacheAssumption DEF Init, Stamps, FileIds
  <1>2. TypeOK
    <2>1. /\ \A id \in FileIds : Len(files[id].data) <= InitSize
          /\ Len(files) <= MaxFiles /\ DOMAIN written = FileIds
      BY <1>1 DEF Init
    <2>2. files \in Seq([name: Keys \cup {"segment"}, data: Seq(0..(MaxPackets * MuxBuffer)),
                         size: 0..SizeLimit, pos: Nat, total_length: {0}])
      BY <1>1
    <2>3. /\ file_cache \in [Keys -> 0..MaxFiles] /\ segments \in [Stamps -> 0..MaxFiles]
          /\ input \in [1..MaxFiles -> {"none", "connect", "ended"}]
          /\ enabled \in BOOLEAN /\ crashed \in BOOLEAN
          /\ packets \in 0..MaxPackets /\ now \in Stamps
      <3>1. 0 \in 0..MaxFiles /\ 0 \in 0..MaxPackets
        BY <1>1
      <3>2. file_cache \in [Keys -> 0..MaxFiles] /\ segments \in [Stamps -> 0..MaxFiles]
        BY <3>1 DEF Init
      <3>3. input \in [1..MaxFiles -> {"none", "connect", "ended"}]
        BY DEF Init
      <3> QED BY <1>1, <3>1, <3>2, <3>3 DEF Init
    <2>4. current \in [file: 0..MaxFiles, duration_ms: Nat,
                       last_timestamp: Stamps, first_timestamp: Stamps]
      BY <1>1 DEF Init, NoSegment
    <2>5. reader \in [Readers -> [at: ReaderStates, file: 0..MaxFiles, offset: Nat, good: BOOLEAN]]
      BY <1>1 DEF Init, ReaderStates
    <2> QED BY <2>1, <2>2, <2>3, <2>4, <2>5 DEF TypeOK
  <1>3. \A r \in Readers : ReaderInv(r)
    BY <1>1 DEF Init, ReaderInv
  <1>4. CurrentInv
    BY DEF Init, CurrentInv
  <1>5. written \in Seq(Seq(Nat)) /\ Len(written) = Len(files)
    BY <1>1 DEF Init
  <1> QED BY <1>1, <1>2, <1>3, <1>4, <1>5 DEF Init, IInv, FilesFit

LEMMA StepHolds == IInv /\ [Next]_vars => IInv'
  <1> SUFFICES ASSUME IInv, [Next]_vars PROVE IInv'
    OBVIOUS
  <1>1. ASSUME NEW step \in Steps, NEW is_key_frame \in BOOLEAN, NEW n \in 0..MuxBuffer,
               now + step <= MaxTime, HandlePacket(now + step, is_key_frame, n)
        PROVE  IInv'
    <2>1. now + step \in Stamps /\ now <= now + step
      BY <1>1, FileCacheAssumption DEF IInv, TypeOK, Stamps
    <2> QED BY <1>1, <2>1, HandlePacketKeeps
  <1>2. CASE UNCHANGED vars
    BY <1>2 DEF vars, fileVars, IInv, FilesFit, TypeOK, ReaderInv, CurrentInv, FileIds
  <1> QED BY <1>1, <1>2, PlayFileKeeps, CreateOriginFileKeeps, PlaySegmentKeeps,
             InterruptedKeeps, SeekRangeKeeps, WrittenKeeps, InputConnectsKeeps DEF Next

LEMMA InvariantHolds == Spec => []IInv
  BY InitHolds, StepHolds, PTL DEF Spec

\* The types of the static files, segments and requests are as declared; that
\* no array becomes larger than a segment's first one is why copying every
\* write to its start stays inside it.
THEOREM TypeCorrect == Spec => []TypeOK
  BY InvariantHolds, PTL DEF IInv

\* handle_play_file and handle_play_segment wait in seek_range only at the end
\* of their file: append's broadcast, which wakes all who wait for the file,
\* leaves none behind what it has appended.
THEOREM NobodyMissesABroadcast == Spec => []NoMissedBroadcast
  <1>1. IInv => NoMissedBroadcast
    BY DEF IInv, ReaderInv, NoMissedBroadcast
  <1> QED BY <1>1, InvariantHolds, PTL

\* SegmentHandler::write uses its file without asking whether it is still
\* there: SegmentsCache, which replaces files of the same name, has never
\* replaced the one that is being written.
THEOREM CurrentStaysCached == Spec => []CurrentIsCached
  <1>1. IInv => CurrentIsCached
    BY DEF IInv, CurrentInv, CurrentIsCached
  <1> QED BY <1>1, InvariantHolds, PTL

\* At most one packet wrote to the file if there is at most one piece in it.
LEMMA OneOfThem ==
    ASSUME NEW w, NEW p \in Nat, w \in Seq(1..(p * MuxBuffer)),
           Cardinality({(b - 1) \div MuxBuffer : b \in Range(w)}) <= 1
    PROVE  OnePiece(w)
  <1> DEFINE pieces == {(b - 1) \div MuxBuffer : b \in Range(w)}
  <1>1. ASSUME NEW i \in 1..Len(w) PROVE Piece(w[i]) \in pieces
    <2>1. w[i] \in Range(w)
      BY <1>1 DEF Range
    <2> QED BY <2>1 DEF Piece
  <1>2. \A x \in pieces : x \in Nat /\ x <= p
    <2> SUFFICES ASSUME NEW b \in Range(w) PROVE Piece(b) \in Nat /\ Piece(b) <= p
      BY DEF Piece
    <2>1. b \in 1..(p * MuxBuffer)
      <3>1. DOMAIN w = 1..Len(w)
        BY LenProperties
      <3> QED BY <3>1, ElementOfSeq DEF Range
    <2>2. Piece(b) \in Nat /\ Piece(b) < p
      BY <2>1, Pieces
    <2> QED BY <2>2
  <1>3. IsFiniteSet(pieces)
    BY <1>2, FS_BoundedSetOfNaturals
  <1> SUFFICES ASSUME NEW i \in 1..Len(w), NEW j \in 1..Len(w), Piece(w[i]) # Piece(w[j])
               PROVE  FALSE
    BY DEF OnePiece
  <1> DEFINE x == Piece(w[i])
             y == Piece(w[j])
  <1>4. {x, y} \subseteq pieces /\ x # y
    BY <1>1
  <1> HIDE DEF pieces, x, y
  <1>5. Cardinality({x, y}) <= Cardinality(pieces) /\ IsFiniteSet({x, y})
    BY <1>3, <1>4, FS_Subset
  <1>6. Cardinality({x, y}) = 2
    <2>1. IsFiniteSet({x}) /\ Cardinality({x}) = 1 /\ y \notin {x}
      BY <1>4, FS_Singleton
    <2>2. Cardinality({x} \cup {y}) = 2
      <3>1. Cardinality({x} \cup {y}) = IF y \in {x} THEN Cardinality({x}) ELSE Cardinality({x}) + 1
        BY <2>1, FS_AddElement
      <3>2. Cardinality({x} \cup {y}) = 1 + 1
        BY <2>1, <3>1, Zenon
      <3> QED BY <3>2, 1 + 1 = 2, Zenon
    <2>3. {x} \cup {y} = {x, y}
      OBVIOUS
    <2> QED BY <2>2, <2>3
  <1>7. Cardinality(pieces) \in Nat
    BY <1>3, FS_CardinalityType
  <1>8. Cardinality(pieces) <= 1
    BY DEF pieces
  <1> QED BY <1>5, <1>6, <1>7, <1>8

\* What a muxer has written to a file at once, handle_play_file and
\* handle_play_segment hand on as it was written, whatever the sizes of the
\* array, of the write and of the pieces in which it is read, and whoever else
\* reads.
THEOREM OneWriteArrives == Spec => []OneWriteIsDelivered
  <1>1. ASSUME IInv PROVE OneWriteIsDelivered
    <2> SUFFICES ASSUME NEW r \in Readers, reader[r].file # 0,
                        Cardinality({(b - 1) \div MuxBuffer : b \in Range(written[reader[r].file])}) <= 1
                 PROVE  reader[r].good
      BY DEF OneWriteIsDelivered
    <2>1. ReaderInv(r) /\ packets \in Nat /\ Len(files) \in Nat
      BY <1>1, FilesAre DEF IInv
    <2>2. reader[r].at # "new" /\ reader[r].file \in FileIds
      BY <2>1 DEF ReaderInv, FileIds
    <2>3. written[reader[r].file] \in Seq(1..(packets * MuxBuffer))
      BY <1>1, <2>2 DEF IInv, FilesFit, Keeps
    <2>4. OnePiece(written[reader[r].file])
      BY <2>1, <2>3, OneOfThem
    <2> QED BY <2>1, <2>2, <2>4 DEF ReaderInv
  <1> QED BY <1>1, InvariantHolds, PTL

=============================================================================
