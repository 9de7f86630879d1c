------------------------- MODULE ChunkStreamProofs -------------------------
(***************************************************************************)
(* Proofs about ChunkStream.  The types need what a header on the wire may  *)
(* hold, and that the size of a half-read message keeps within the length   *)
(* in the header.  That the messages received are those sent needs what     *)
(* becomes of the chunks on their way: were the reader to take them all,    *)
(* one after the other, it would stop somewhere, or be as far as the peer.  *)
(***************************************************************************)
EXTENDS ChunkStream, SequenceTheorems, TLAPS

\* A byte of a payload: the message that it is of, and which one it is there.
Byte == (1..MaxMessages) \X Nat

Times == 0..(Wrap - 1)
Sizes == Lengths \cup {0}

Halves == [size: Int, room: Nat, payload: Seq(Byte)]

Streams ==
    [timestamp: Times, timestamp_delta: 0..Extended, payload_length: Sizes,
     type: Types, extended: BOOLEAN, count: {0, 1}, msg: Halves]

\* A half-read message is not longer than the header says, and fits its payload.
StreamOK(s) ==
    /\ s \in Streams
    /\ s.msg.room \in {0, s.payload_length}
    /\ s.msg.size <= s.payload_length
    /\ IsFirstChunk(s) \/ (0 <= s.msg.size /\ s.msg.size <= s.msg.room)

ChunkType ==
    [basic: Seq(Nat), time: 0..Extended, length: Sizes, type: Types,
     extended: BOOLEAN, payload: Seq(Byte)]

ChunkOK(c) == c \in ChunkType /\ Cid(c.basic) \in Cids /\ Fmt(c.basic) \in 0..3

PeerType ==
    [type: Types, length: Sizes, time: Times, delta: 0..Extended, left: Nat,
     used: BOOLEAN]

\* The message that a peer has begun to send is the last that it sent.
IsBegun(p, q) ==
    p.left > 0 =>
        /\ p.used
        /\ q # <<>>
        /\ \E id \in 1..MaxMessages :
            q[Len(q)] = [type |-> p.type, time |-> p.time,
                         payload |-> [i \in 1..p.length |-> <<id, i>>]]

PeerOK(p, q) == p \in PeerType /\ p.left <= p.length /\ IsBegun(p, q)

Typed ==
    /\ chunks \in [Cids -> Streams]
    /\ \A cid \in Cids : StreamOK(chunks[cid])
    /\ in_chunk_size \in ChunkSizes
    /\ at \in {"read", "failed", "lost"}
    /\ received \in [Cids -> Seq(Messages)]
    /\ sent \in [Cids -> Seq(Messages)]
    /\ peer \in [Cids -> PeerType]
    /\ \A cid \in Cids : PeerOK(peer[cid], sent[cid])
    /\ peer_chunk \in ChunkSizes
    /\ count \in 0..MaxMessages
    /\ wire \in Seq(ChunkType)
    /\ Len(wire) <= MaxWire
    /\ \A i \in 1..Len(wire) : ChunkOK(wire[i])

-----------------------------------------------------------------------------
(* Headers.                                                                  *)

LEMMA Constants ==
    /\ Extended \in Nat /\ Extended > 0 /\ Wrap \in Nat /\ Extended < Wrap
    /\ MaxMessages \in Nat /\ MaxWire \in Nat /\ MaxMessages > 0 /\ MaxWire > 0
    /\ Cids \subseteq Nat /\ Lengths \subseteq Nat /\ Sizes \subseteq Nat
    /\ ChunkSizes \subseteq Nat /\ Deltas \subseteq 0..(Extended - 1)
    /\ \A n \in ChunkSizes : n > 0
  BY ChunkStreamAssumption DEF Sizes

LEMMA Masks == \A t \in Int : Masked(t) \in Times
  BY Constants DEF Masked, Times

LEMMA TypedTypes == Typed => TypeOK
  <1> SUFFICES ASSUME Typed PROVE TypeOK
    OBVIOUS
  <1>1. ASSUME NEW cid \in Cids
        PROVE  LET s == chunks[cid] IN
               /\ s.timestamp \in 0..(Wrap - 1)
               /\ s.timestamp_delta \in 0..Extended
               /\ s.payload_length \in Lengths \cup {0}
               /\ s.msg.size \in -1..s.payload_length
               /\ ~IsFirstChunk(s) => s.msg.size <= s.msg.room
    <2>1. StreamOK(chunks[cid]) /\ chunks[cid].msg.size \in Int
      BY DEF Typed, StreamOK, Streams, Halves
    <2>2. chunks[cid].msg.size >= -1
      BY <2>1 DEF StreamOK, IsFirstChunk, NoMessage
    <2>3. chunks[cid] \in Streams /\ chunks[cid].payload_length \in Nat
      BY <2>1, Constants DEF StreamOK, Streams
    <2>4. chunks[cid].msg.size \in -1..chunks[cid].payload_length
      BY <2>1, <2>2, <2>3 DEF StreamOK
    <2> QED BY <2>1, <2>3, <2>4 DEF StreamOK, Streams, Times, Sizes
  <1>2. DOMAIN chunks = Cids /\ DOMAIN received = Cids
    BY DEF Typed
  <1>3. Len(wire) \in 0..MaxWire
    BY Constants DEF Typed
  <1> QED BY <1>1, <1>2, <1>3 DEF Typed, TypeOK

\* The reader finds the chunk stream and the format that the peer wrote.
LEMMA BasicIsRead ==
    ASSUME NEW fmt \in 0..3, NEW cid \in Cids
    PROVE  /\ Basic(fmt, cid) \in Seq(Nat)
           /\ Cid(Basic(fmt, cid)) = cid /\ Fmt(Basic(fmt, cid)) = fmt
  <1>1. cid \in Nat /\ 2 <= cid /\ cid <= 65599
    BY ChunkStreamAssumption
  <1>2. CASE cid < 64
    <2>1. Basic(fmt, cid) = <<64 * fmt + cid>>
      BY <1>2 DEF Basic
    <2>2. (64 * fmt + cid) \div 64 = fmt /\ (64 * fmt + cid) % 64 = cid
      BY <1>1, <1>2
    <2> QED BY <1>1, <1>2, <2>1, <2>2 DEF Cid, Fmt
  <1>3. CASE cid >= 64 /\ cid < 320
    <2>1. Basic(fmt, cid) = <<64 * fmt, cid - 64>>
      BY <1>1, <1>3 DEF Basic
    <2>2. (64 * fmt) \div 64 = fmt /\ (64 * fmt) % 64 = 0
      OBVIOUS
    <2> QED BY <1>1, <1>3, <2>1, <2>2 DEF Cid, Fmt
  <1>4. CASE cid >= 320
    <2> DEFINE low == (cid - 64) % 256
               high == (cid - 64) \div 256
    <2>1. Basic(fmt, cid) = <<64 * fmt + 1, low, high>>
      BY <1>1, <1>4 DEF Basic
    <2>2. (64 * fmt + 1) \div 64 = fmt /\ (64 * fmt + 1) % 64 = 1
      OBVIOUS
    <2>3. low \in Nat /\ high \in Nat /\ 64 + low + high * 256 = cid
      BY <1>1, <1>4
    <2> HIDE DEF low, high
    <2> QED BY <1>1, <1>4, <2>1, <2>2, <2>3 DEF Cid, Fmt
  <1> QED BY <1>1, <1>2, <1>3, <1>4

\* A chunk of chunk stream cid, with the fields of a header in format fmt.
IsHeader(c, cid, fmt, time, length, type) ==
    /\ ChunkOK(c) /\ Cid(c.basic) = cid /\ Fmt(c.basic) = fmt
    /\ c.time = time /\ c.length = length /\ c.type = type

\* With basic headers of one byte, as chunk_header_c0 and chunk_header_c3 write
\* them, and longer ones.
LEMMA HeadersAreChunks ==
    ASSUME NEW cid \in Cids, NEW time \in Times, NEW length \in Sizes,
           NEW type \in Types, NEW delta \in 0..Extended, NEW fmt \in 0..3
    PROVE  /\ IsHeader(WithCid(C0(cid, time, length, type), 0, cid), cid, 0,
                       IF time < Extended THEN time ELSE Extended, length, type)
           /\ IsHeader(WithCid(C3(cid, time), 3, cid), cid, 3, 0, 0, "media")
           /\ IsHeader(Chunk(Basic(fmt, cid), IF fmt = 3 THEN 0 ELSE delta, length, type,
                             FALSE),
                       cid, fmt, IF fmt = 3 THEN 0 ELSE delta, length, type)
  <1>1. cid \in Nat /\ Extended \in Nat /\ delta \in 0..Extended /\ time \in Nat
    BY Constants DEF Times
  <1>2. <<>> \in Seq(Byte) /\ "media" \in Types /\ 0 \in Sizes
    BY DEF Types, Sizes
  <1>3. ASSUME NEW x \in {0, 3}, NEW t \in 0..Extended, NEW l \in Sizes, NEW y \in Types,
               NEW e \in BOOLEAN, NEW b, b = <<64 * x + (cid % 64)>>
        PROVE  LET d == WithCid(Chunk(b, t, l, y, e), x, cid) IN
               /\ d \in ChunkType
               /\ Cid(d.basic) = cid /\ Fmt(d.basic) = x
               /\ d.length = l /\ d.type = y /\ d.extended = e /\ d.time = t
    <2> DEFINE d == WithCid(Chunk(b, t, l, y, e), x, cid)
    <2>1. d.basic = Basic(x, cid)
      <3>1. CASE cid < 64
        <4>1. cid % 64 = cid
          BY <1>1, <3>1
        <4> QED BY <1>3, <3>1, <4>1 DEF WithCid, Chunk, Basic
      <3>2. CASE cid >= 64
        <4> DEFINE k == Chunk(b, t, l, y, e)
        <4>1. ~(cid < 64)
          BY <1>1, <3>2
        <4>2. d = [k EXCEPT !.basic = Basic(x, cid)]
          BY <4>1 DEF WithCid
        <4> HIDE DEF d
        <4> QED BY <4>2 DEF Chunk
      <3> QED BY <1>1, <3>1, <3>2
    <2>2. d = [basic |-> d.basic, time |-> t, length |-> l, type |-> y, extended |-> e,
               payload |-> <<>>]
      <3>1. CASE cid < 64
        BY <3>1 DEF WithCid, Chunk
      <3>2. CASE ~(cid < 64)
        <4>1. d = [Chunk(b, t, l, y, e) EXCEPT !.basic = Basic(x, cid)]
          BY <3>2 DEF WithCid
        <4> HIDE DEF d
        <4> QED BY <4>1 DEF Chunk
      <3> QED BY <3>1, <3>2
    <2>3. x \in 0..3
      OBVIOUS
    <2>4. d.basic \in Seq(Nat) /\ Cid(d.basic) = cid /\ Fmt(d.basic) = x
      BY <2>1, <2>3, BasicIsRead
    <2> HIDE DEF d
    <2>5. d \in ChunkType
      <3> DEFINE k == d.basic
      <3>1. k \in Seq(Nat)
        BY <2>4
      <3>2. d = [basic |-> k, time |-> t, length |-> l, type |-> y, extended |-> e,
                 payload |-> <<>>]
        BY <2>2
      <3> HIDE DEF k
      <3> QED BY <1>2, <3>1, <3>2 DEF ChunkType
    <2> QED BY <2>2, <2>4, <2>5 DEF d
  <1> DEFINE c0 == WithCid(C0(cid, time, length, type), 0, cid)
             c3 == WithCid(C3(cid, time), 3, cid)
             c == Chunk(Basic(fmt, cid), IF fmt = 3 THEN 0 ELSE delta, length, type, FALSE)
             t0 == IF time < Extended THEN time ELSE Extended
  <1>4. t0 \in 0..Extended /\ (time >= Extended) \in BOOLEAN /\ 0 \in 0..Extended
    BY <1>1
  <1> HIDE DEF t0
  <1>5. /\ c0 \in ChunkType
        /\ Cid(c0.basic) = cid /\ Fmt(c0.basic) = 0
        /\ c0.length = length /\ c0.type = type
        /\ c0.time = t0
    <2> DEFINE b == <<cid % 64>>
               e == time >= Extended
    <2>1. C0(cid, time, length, type) = Chunk(b, t0, length, type, e)
      BY DEF C0, t0
    <2>2. b = <<64 * 0 + (cid % 64)>> /\ 0 \in {0, 3}
      BY <1>1
    <2> HIDE DEF b, e
    <2>3. e \in BOOLEAN
      BY <1>4 DEF e
    <2>4. LET d == WithCid(Chunk(b, t0, length, type, e), 0, cid) IN
          /\ d \in ChunkType
          /\ Cid(d.basic) = cid /\ Fmt(d.basic) = 0
          /\ d.length = length /\ d.type = type /\ d.extended = e /\ d.time = t0
      BY <1>3, <1>4, <2>2, <2>3
    <2> QED BY <2>1, <2>4, Zenon DEF e
  <1>6. /\ c3 \in ChunkType /\ Cid(c3.basic) = cid /\ Fmt(c3.basic) = 3
        /\ c3.time = 0 /\ c3.length = 0 /\ c3.type = "media"
    <2> DEFINE b == <<192 + (cid % 64)>>
               e == time >= Extended
    <2>1. C3(cid, time) = Chunk(b, 0, 0, "media", e)
      BY DEF C3
    <2>2. b = <<64 * 3 + (cid % 64)>> /\ 3 \in {0, 3}
      BY <1>1
    <2> HIDE DEF b, e
    <2>3. e \in BOOLEAN
      BY <1>4 DEF e
    <2>4. LET d == WithCid(Chunk(b, 0, 0, "media", e), 3, cid) IN
          /\ d \in ChunkType
          /\ Cid(d.basic) = cid /\ Fmt(d.basic) = 3
          /\ d.time = 0 /\ d.length = 0 /\ d.type = "media"
      BY <1>2, <1>3, <1>4, <2>2, <2>3
    <2> QED BY <2>1, <2>4, Zenon
  <1>7. /\ c \in ChunkType /\ Cid(c.basic) = cid /\ Fmt(c.basic) = fmt
        /\ c.length = length /\ c.type = type
        /\ c.time = IF fmt = 3 THEN 0 ELSE delta
    BY <1>1, <1>2, <1>4, BasicIsRead DEF Chunk, ChunkType
  <1> HIDE DEF c0, c3, c
  <1>8. Fmt(c0.basic) \in 0..3 /\ Fmt(c3.basic) \in 0..3
    BY <1>5, <1>6
  <1>9. ChunkOK(c0) /\ ChunkOK(c3) /\ ChunkOK(c)
    BY <1>5, <1>6, <1>7, <1>8 DEF ChunkOK
  <1> QED BY <1>5, <1>6, <1>7, <1>9 DEF IsHeader, t0, c0, c3, c

-----------------------------------------------------------------------------
(* The reader's steps on one chunk stream.                                   *)

LEMMA MessagesAreBytes == Messages = [type: Types, time: Times, payload: Seq(Byte)]
  BY DEF Messages, Times, Byte

LEMMA NoMessageIsHalf == NoMessage \in Halves
  BY DEF NoMessage, Halves

\* The fields of a header that has been read.
LEMMA HeadedFields ==
    ASSUME NEW s \in Streams, NEW c \in ChunkType
    PROVE  LET h == Headed(s, c)
               new == Fmt(c.basic) <= 1
           IN  /\ h \in Streams
               /\ h.timestamp = Timestamp(s, c)
               /\ h.timestamp_delta = TimestampDelta(s, c)
               /\ h.extended = IsExtended(s, c)
               /\ h.payload_length = IF new THEN c.length ELSE s.payload_length
               /\ h.type = IF new THEN c.type ELSE s.type
               /\ h.count = 1
               /\ h.msg = IF IsFirstChunk(s) THEN [size |-> 0, room |-> 0, payload |-> <<>>]
                          ELSE s.msg
  <1> DEFINE new == Fmt(c.basic) <= 1
             ts == Timestamp(s, c)
             delta == TimestampDelta(s, c)
             ext == IsExtended(s, c)
             length == IF new THEN c.length ELSE s.payload_length
             type == IF new THEN c.type ELSE s.type
             msg == IF IsFirstChunk(s) THEN [size |-> 0, room |-> 0, payload |-> <<>>]
                    ELSE s.msg
  <1>1. /\ s.timestamp \in Times /\ s.timestamp_delta \in 0..Extended
        /\ s.payload_length \in Sizes /\ s.type \in Types /\ s.extended \in BOOLEAN
        /\ s.msg \in Halves
    BY DEF Streams
  <1>2. /\ c.time \in 0..Extended /\ c.length \in Sizes /\ c.type \in Types
    BY DEF ChunkType
  <1>3. ts \in Times
    <2>1. CASE IsExtended(s, c) \/ (Fmt(c.basic) = 3 /\ ~IsFirstChunk(s))
      BY <1>1, <2>1 DEF Timestamp
    <2>2. CASE ~(IsExtended(s, c) \/ (Fmt(c.basic) = 3 /\ ~IsFirstChunk(s)))
      <3>1. CASE Fmt(c.basic) = 0
        <4>1. c.time < Extended
          BY <1>2, <2>2, <3>1, Constants DEF IsExtended
        <4>2. ts = c.time
          BY <2>2, <3>1 DEF Timestamp
        <4> QED BY <1>2, <4>1, <4>2, Constants DEF Times
      <3>2. CASE Fmt(c.basic) # 0
        <4>1. PICK d \in Int : ts = Masked(s.timestamp + d)
          BY <1>1, <1>2, <2>2, <3>2, Constants DEF Timestamp
        <4>2. s.timestamp + d \in Int
          BY <1>1, <4>1, Constants DEF Times
        <4> QED BY <4>1, <4>2, Masks
      <3> QED BY <3>1, <3>2
    <2> QED BY <2>1, <2>2
  <1>4. delta \in 0..Extended
    BY <1>1, <1>2, Constants DEF TimestampDelta
  <1>5. ext \in BOOLEAN
    <2>1. (c.time >= Extended) \in BOOLEAN
      BY <1>2, Constants
    <2>2. CASE Fmt(c.basic) <= 2
      BY <2>1, <2>2 DEF IsExtended
    <2>3. CASE ~(Fmt(c.basic) <= 2)
      BY <1>1, <2>3 DEF IsExtended
    <2> QED BY <2>2, <2>3
  <1>6. length \in Sizes /\ type \in Types
    BY <1>1, <1>2
  <1>7. msg \in Halves
    <2>1. [size |-> 0, room |-> 0, payload |-> <<>>] \in Halves
      BY DEF Halves
    <2> QED BY <1>1, <2>1
  <1>8. Opened(s).msg = msg
    BY DEF Opened, Streams
  <1>9. Headed(s, c)
          = [s EXCEPT !.timestamp = ts, !.timestamp_delta = delta, !.extended = ext,
                      !.payload_length = length, !.type = type, !.count = 1,
                      !.msg = msg]
    BY <1>8 DEF Headed
  <1> HIDE DEF ts, delta, ext, length, type, msg
  <1>10. Headed(s, c)
           = [timestamp |-> ts, timestamp_delta |-> delta, payload_length |-> length,
              type |-> type, extended |-> ext, count |-> 1, msg |-> msg]
    BY <1>9 DEF Streams
  <1>11. Headed(s, c) \in Streams
    BY <1>3, <1>4, <1>5, <1>6, <1>7, <1>10 DEF Streams
  <1> QED BY <1>10, <1>11 DEF ts, delta, ext, length, type, msg

\* A message is made before its header is read.
LEMMA OpenedIsOK ==
    ASSUME NEW s, StreamOK(s)
    PROVE  StreamOK(Opened(s)) /\ ~IsFirstChunk(Opened(s))
  <1> DEFINE m == [size |-> 0, room |-> 0, payload |-> <<>>]
  <1>1. s \in Streams /\ s.payload_length \in Nat
    BY Constants DEF StreamOK, Streams
  <1>2. CASE IsFirstChunk(s)
    <2>1. Opened(s) = [s EXCEPT !.msg = m]
      BY <1>2 DEF Opened
    <2>2. m \in Halves /\ m # NoMessage /\ m.size = 0 /\ m.room = 0
      BY DEF Halves, NoMessage
    <2> HIDE DEF m
    <2>3. /\ Opened(s) \in Streams /\ Opened(s).msg = m
          /\ Opened(s).payload_length = s.payload_length
      BY <1>1, <2>1, <2>2 DEF Streams
    <2> QED BY <1>1, <2>2, <2>3 DEF StreamOK, IsFirstChunk
  <1>3. CASE ~IsFirstChunk(s)
    BY <1>3 DEF Opened
  <1> QED BY <1>2, <1>3

\* A refused header changes the time at most.
LEMMA HeadRefusedIsOK ==
    ASSUME NEW s, StreamOK(s), NEW c \in ChunkType
    PROVE  StreamOK(HeadRefused(s, c))
  <1> DEFINE h == Headed(s, c)
             ts == Timestamp(s, c)
             delta == TimestampDelta(s, c)
             ext == IsExtended(s, c)
             r == [s EXCEPT !.timestamp = ts, !.timestamp_delta = delta, !.extended = ext]
  <1>1. s \in Streams
    BY DEF StreamOK
  <1>2. h \in Streams /\ h.timestamp = ts /\ h.timestamp_delta = delta /\ h.extended = ext
    BY <1>1, HeadedFields
  <1> HIDE DEF h, ts, delta, ext
  <1>3. r \in Streams /\ r.payload_length = s.payload_length /\ r.msg = s.msg
    BY <1>1, <1>2 DEF Streams
  <1>4. StreamOK(r)
    BY <1>3 DEF StreamOK, IsFirstChunk
  <1> QED BY <1>4 DEF HeadRefused, ts, delta, ext

LEMMA HeadedIsOK ==
    ASSUME NEW s, StreamOK(s), NEW c, ChunkOK(c), ~Refused(s, c)
    PROVE  StreamOK(Headed(s, c)) /\ ~IsFirstChunk(Headed(s, c))
  <1> DEFINE h == Headed(s, c)
             m == [size |-> 0, room |-> 0, payload |-> <<>>]
  <1>1. s \in Streams /\ c \in ChunkType /\ Fmt(c.basic) \in 0..3
    BY DEF StreamOK, ChunkOK
  <1>2. /\ h \in Streams
        /\ h.payload_length = IF Fmt(c.basic) <= 1 THEN c.length ELSE s.payload_length
        /\ h.msg = IF IsFirstChunk(s) THEN m ELSE s.msg
    BY <1>1, HeadedFields
  <1>3. m # NoMessage /\ m.size = 0 /\ m.room = 0
    BY DEF NoMessage
  <1> HIDE DEF h, m
  <1>4. h.payload_length \in Nat
    BY <1>2, Constants DEF Streams
  <1>5. CASE IsFirstChunk(s)
    BY <1>2, <1>3, <1>4, <1>5 DEF StreamOK, IsFirstChunk, h
  <1>6. CASE ~IsFirstChunk(s)
    <2>1. h.payload_length = s.payload_length
      BY <1>1, <1>2, <1>6 DEF Refused, StartRefused, LengthRefused
    <2>2. h.msg = s.msg
      BY <1>2, <1>6
    <2> QED BY <1>2, <1>6, <2>1, <2>2 DEF StreamOK, IsFirstChunk, h
  <1> QED BY <1>5, <1>6

LEMMA PayloadSizeIs ==
    ASSUME NEW s, StreamOK(s), in_chunk_size \in ChunkSizes, s.msg.size >= 0
    PROVE  LET left == s.payload_length - s.msg.size IN
           /\ PayloadSize(s) \in 0..left
           /\ left > 0 => PayloadSize(s) > 0
           /\ PayloadSize(s) = left \/ PayloadSize(s) = in_chunk_size
  <1>1. /\ s.payload_length \in Nat /\ s.msg.size \in Int
        /\ s.msg.size <= s.payload_length
    BY Constants DEF StreamOK, Streams, Halves
  <1>2. in_chunk_size \in Nat /\ in_chunk_size > 0
    BY Constants
  <1> QED BY <1>1, <1>2 DEF PayloadSize

\* Its payload is read behind what there is of it.
LEMMA FilledIsOK ==
    ASSUME NEW s, StreamOK(s), ~IsFirstChunk(s), NEW c \in ChunkType,
           in_chunk_size \in ChunkSizes
    PROVE  LET f == Filled(s, c) IN
           /\ StreamOK(f) /\ ~IsFirstChunk(f)
           /\ f.msg.size = s.msg.size + PayloadSize(s)
           /\ f.msg.payload = s.msg.payload \o c.payload
           /\ f.timestamp = s.timestamp /\ f.timestamp_delta = s.timestamp_delta
           /\ f.payload_length = s.payload_length /\ f.type = s.type
           /\ f.extended = s.extended /\ f.count = s.count
  <1> DEFINE f == Filled(s, c)
             n == PayloadSize(s)
             room == IF s.msg.room = 0 THEN s.payload_length ELSE s.msg.room
             bytes == s.msg.payload \o c.payload
             m == [size |-> s.msg.size + n, room |-> room, payload |-> bytes]
  <1>1. /\ s \in Streams /\ s.payload_length \in Nat /\ s.msg.size \in Nat
        /\ s.msg \in Halves /\ s.msg.room \in {0, s.payload_length}
        /\ s.msg.payload \in Seq(Byte)
    <2>1. /\ s \in Streams /\ s.msg.room \in {0, s.payload_length}
          /\ 0 <= s.msg.size
      BY DEF StreamOK
    <2>2. s.msg \in Halves /\ s.payload_length \in Nat
      BY <2>1, Constants DEF Streams
    <2>3. s.msg.size \in Int /\ s.msg.payload \in Seq(Byte)
      BY <2>2 DEF Halves
    <2> QED BY <2>1, <2>2, <2>3
  <1>2. n \in 0..(s.payload_length - s.msg.size)
    BY <1>1, PayloadSizeIs
  <1>3. bytes \in Seq(Byte)
    BY <1>1 DEF ChunkType
  <1>4. room = s.payload_length
    BY <1>1
  <1>5. f = [s EXCEPT !.msg = m]
    BY DEF Filled
  <1> HIDE DEF f, n, room, bytes
  <1>6. m \in Halves /\ m.size = s.msg.size + n /\ m.room = room /\ m.payload = bytes
    BY <1>1, <1>2, <1>3, <1>4 DEF Halves
  <1>7. m # NoMessage
    BY <1>1, <1>2 DEF NoMessage
  <1> HIDE DEF m
  <1>8. /\ f \in Streams /\ f.msg = m
        /\ f.timestamp = s.timestamp /\ f.timestamp_delta = s.timestamp_delta
        /\ f.payload_length = s.payload_length /\ f.type = s.type
        /\ f.extended = s.extended /\ f.count = s.count
    BY <1>1, <1>5, <1>6 DEF Streams
  <1>9. ~IsFirstChunk(f)
    BY <1>7, <1>8 DEF IsFirstChunk
  <1>10. StreamOK(f)
    BY <1>1, <1>2, <1>4, <1>6, <1>8 DEF StreamOK
  <1> QED BY <1>6, <1>8, <1>9, <1>10 DEF f, n, bytes

\* The message goes, the header stays.
LEMMA TakenIsOK ==
    ASSUME NEW s, StreamOK(s)
    PROVE  LET t == Taken(s) IN
           /\ StreamOK(t) /\ t.msg = NoMessage
           /\ t.timestamp = s.timestamp /\ t.timestamp_delta = s.timestamp_delta
           /\ t.payload_length = s.payload_length /\ t.type = s.type
           /\ t.extended = s.extended /\ t.count = s.count
  <1> DEFINE t == Taken(s)
  <1>1. s \in Streams /\ s.payload_length \in Nat
    BY Constants DEF StreamOK, Streams
  <1>2. t = [s EXCEPT !.msg = NoMessage]
    BY DEF Taken
  <1> HIDE DEF t
  <1>3. NoMessage.size = -1 /\ NoMessage.room = 0
    BY DEF NoMessage
  <1>4. /\ t \in Streams /\ t.msg = NoMessage
        /\ t.timestamp = s.timestamp /\ t.timestamp_delta = s.timestamp_delta
        /\ t.payload_length = s.payload_length /\ t.type = s.type
        /\ t.extended = s.extended /\ t.count = s.count
    BY <1>1, <1>2, NoMessageIsHalf DEF Streams
  <1>5. StreamOK(t)
    BY <1>1, <1>3, <1>4 DEF StreamOK, IsFirstChunk
  <1> QED BY <1>4, <1>5 DEF t

-----------------------------------------------------------------------------
(* The reader as a whole.                                                    *)

\* What the reader has.
Reader == [at |-> at, chunks |-> chunks, received |-> received]

\* What it makes of a chunk, as in Recv.
After(a, c) ==
    LET cid == Cid(c.basic)
        s == Headed(a.chunks[cid], c)
        filled == Filled(s, c)
        message == [type |-> s.type, time |-> s.timestamp, payload |-> filled.msg.payload]
    IN  IF Refused(a.chunks[cid], c)
        THEN [at |-> "failed", received |-> a.received,
              chunks |-> [a.chunks EXCEPT ![cid] = HeadRefused(@, c)]]
        ELSE IF OutOfStep(s, c)
        THEN [at |-> "lost", received |-> a.received, chunks |-> a.chunks]
        ELSE IF ~IsEntire(filled)
        THEN [at |-> a.at, received |-> a.received,
              chunks |-> [a.chunks EXCEPT ![cid] = filled]]
        ELSE IF Ignores(s)
        THEN [at |-> a.at, received |-> a.received,
              chunks |-> [a.chunks EXCEPT ![cid] = Taken(filled)]]
        ELSE [at |-> IF OnRecvMessage(s.type) THEN "read" ELSE "failed",
              received |-> [a.received EXCEPT ![cid] = Append(@, message)],
              chunks |-> [a.chunks EXCEPT ![cid] = Taken(filled)]]

LEMMA RecvIsAfter == Recv => Reader' = After(Reader, Head(wire))
  <1> SUFFICES ASSUME Recv PROVE Reader' = After(Reader, Head(wire))
    OBVIOUS
  <1> DEFINE c == Head(wire)
             cid == Cid(c.basic)
             old == chunks[cid]
             s == Headed(old, c)
             filled == Filled(s, c)
             message == [type |-> s.type, time |-> s.timestamp, payload |-> filled.msg.payload]
             a == Reader
  <1>1. a.at = at /\ a.chunks = chunks /\ a.received = received
    BY DEF Reader
  <1>2. Reader' = [at |-> at', chunks |-> chunks', received |-> received']
    BY DEF Reader
  <1>3. CASE Refused(old, c)
    <2>1. /\ at' = "failed" /\ received' = received
          /\ chunks' = [chunks EXCEPT ![cid] = HeadRefused(@, c)]
      BY <1>3 DEF Recv
    <2>2. After(a, c) = [at |-> "failed", received |-> a.received,
                         chunks |-> [a.chunks EXCEPT ![cid] = HeadRefused(@, c)]]
      BY <1>1, <1>3 DEF After
    <2> QED BY <1>1, <1>2, <2>1, <2>2
  <1>4. CASE ~Refused(old, c) /\ OutOfStep(s, c)
    <2>1. at' = "lost" /\ received' = received /\ chunks' = chunks
      BY <1>4 DEF Recv
    <2>2. After(a, c) = [at |-> "lost", received |-> a.received, chunks |-> a.chunks]
      BY <1>1, <1>4 DEF After
    <2> QED BY <1>1, <1>2, <2>1, <2>2
  <1>5. CASE ~Refused(old, c) /\ ~OutOfStep(s, c) /\ ~IsEntire(filled)
    <2>1. at' = at /\ received' = received /\ chunks' = [chunks EXCEPT ![cid] = filled]
      BY <1>5 DEF Recv
    <2>2. After(a, c) = [at |-> a.at, received |-> a.received,
                         chunks |-> [a.chunks EXCEPT ![cid] = filled]]
      BY <1>1, <1>5 DEF After
    <2> QED BY <1>1, <1>2, <2>1, <2>2
  <1>6. CASE ~Refused(old, c) /\ ~OutOfStep(s, c) /\ IsEntire(filled) /\ Ignores(s)
    <2>1. /\ at' = at /\ received' = received
          /\ chunks' = [chunks EXCEPT ![cid] = Taken(filled)]
      BY <1>6 DEF Recv
    <2>2. After(a, c) = [at |-> a.at, received |-> a.received,
                         chunks |-> [a.chunks EXCEPT ![cid] = Taken(filled)]]
      BY <1>1, <1>6 DEF After
    <2> QED BY <1>1, <1>2, <2>1, <2>2
  <1>7. CASE ~Refused(old, c) /\ ~OutOfStep(s, c) /\ IsEntire(filled) /\ ~Ignores(s)
    <2>1. /\ at' = IF OnRecvMessage(s.type) THEN "read" ELSE "failed"
          /\ received' = [received EXCEPT ![cid] = Append(@, message)]
          /\ chunks' = [chunks EXCEPT ![cid] = Taken(filled)]
      BY <1>7 DEF Recv
    <2>2. After(a, c) = [at |-> IF OnRecvMessage(s.type) THEN "read" ELSE "failed",
                         received |-> [a.received EXCEPT ![cid] = Append(@, message)],
                         chunks |-> [a.chunks EXCEPT ![cid] = Taken(filled)]]
      BY <1>1, <1>7 DEF After
    <2> QED BY <1>1, <1>2, <2>1, <2>2
  <1> QED BY <1>3, <1>4, <1>5, <1>6, <1>7

\* What the reader makes of a chunk keeps its types.
ReaderTyped(a) ==
    /\ a.at \in {"read", "failed", "lost"}
    /\ a.chunks \in [Cids -> Streams]
    /\ \A cid \in Cids : StreamOK(a.chunks[cid])
    /\ a.received \in [Cids -> Seq(Messages)]

LEMMA StreamReplaced ==
    ASSUME NEW f \in [Cids -> Streams], \A cid \in Cids : StreamOK(f[cid]),
           NEW cid \in Cids, NEW s, StreamOK(s)
    PROVE  /\ [f EXCEPT ![cid] = s] \in [Cids -> Streams]
           /\ \A k \in Cids : StreamOK([f EXCEPT ![cid] = s][k])
  <1>1. s \in Streams
    BY DEF StreamOK
  <1>2. [f EXCEPT ![cid] = s] \in [Cids -> Streams]
    BY <1>1
  <1>3. ASSUME NEW k \in Cids
        PROVE  StreamOK([f EXCEPT ![cid] = s][k])
    <2>1. [f EXCEPT ![cid] = s][k] = IF k = cid THEN s ELSE f[k]
      OBVIOUS
    <2> QED BY <2>1
  <1> QED BY <1>2, <1>3

LEMMA AfterIsTyped ==
    ASSUME NEW a, ReaderTyped(a), NEW c, ChunkOK(c), in_chunk_size \in ChunkSizes
    PROVE  ReaderTyped(After(a, c))
  <1> DEFINE cid == Cid(c.basic)
             old == a.chunks[cid]
             s == Headed(old, c)
             filled == Filled(s, c)
             message == [type |-> s.type, time |-> s.timestamp, payload |-> filled.msg.payload]
             b == After(a, c)
  <1>1. /\ cid \in Cids /\ c \in ChunkType /\ StreamOK(old)
        /\ a.chunks \in [Cids -> Streams] /\ \A k \in Cids : StreamOK(a.chunks[k])
        /\ a.received \in [Cids -> Seq(Messages)]
    BY DEF ReaderTyped, ChunkOK
  <1>2. StreamOK(HeadRefused(old, c))
    BY <1>1, HeadRefusedIsOK
  <1>3. ~Refused(old, c) =>
          /\ StreamOK(filled) /\ StreamOK(Taken(filled))
          /\ message \in Messages
    <2> SUFFICES ASSUME ~Refused(old, c)
                 PROVE  StreamOK(filled) /\ StreamOK(Taken(filled)) /\ message \in Messages
      OBVIOUS
    <2>1. StreamOK(s) /\ ~IsFirstChunk(s)
      BY <1>1, HeadedIsOK
    <2>2. StreamOK(filled)
      BY <1>1, <2>1, FilledIsOK
    <2>3. StreamOK(Taken(filled))
      BY <2>2, TakenIsOK
    <2>4. filled.msg.payload \in Seq(Byte)
      BY <2>2 DEF StreamOK, Streams, Halves
    <2>5. s.type \in Types /\ s.timestamp \in Times
      BY <2>1 DEF StreamOK, Streams
    <2>6. message \in [type: Types, time: Times, payload: Seq(Byte)]
      BY <2>4, <2>5
    <2> QED BY <2>2, <2>3, <2>6, MessagesAreBytes
  <1> HIDE DEF cid, old, s, filled, message
  <1>4. CASE Refused(old, c)
    <2>1. b = [at |-> "failed", received |-> a.received,
               chunks |-> [a.chunks EXCEPT ![cid] = HeadRefused(old, c)]]
      BY <1>4 DEF After, cid, old
    <2> HIDE DEF b
    <2>2. b.at = "failed" /\ b.received = a.received
          /\ b.chunks = [a.chunks EXCEPT ![cid] = HeadRefused(old, c)]
      BY <2>1
    <2> DEFINE t == HeadRefused(old, c)
    <2>3. StreamOK(t) /\ b.chunks = [a.chunks EXCEPT ![cid] = t]
      BY <1>2, <2>2
    <2> HIDE DEF t
    <2>4. b.chunks \in [Cids -> Streams] /\ \A k \in Cids : StreamOK(b.chunks[k])
      BY <1>1, <2>3, StreamReplaced
    <2> QED BY <1>1, <2>2, <2>4 DEF ReaderTyped, b
  <1>5. CASE ~Refused(old, c) /\ OutOfStep(s, c)
    <2>1. b = [at |-> "lost", received |-> a.received, chunks |-> a.chunks]
      BY <1>5 DEF After, cid, old, s
    <2> QED BY <1>1, <2>1 DEF ReaderTyped
  <1>6. CASE ~Refused(old, c) /\ ~OutOfStep(s, c) /\ ~IsEntire(filled)
    <2>1. b = [at |-> a.at, received |-> a.received,
               chunks |-> [a.chunks EXCEPT ![cid] = filled]]
      BY <1>6 DEF After, cid, old, s, filled
    <2> HIDE DEF b
    <2>2. b.at = a.at /\ b.received = a.received
          /\ b.chunks = [a.chunks EXCEPT ![cid] = filled]
      BY <2>1
    <2>3. StreamOK(filled)
      BY <1>3, <1>6
    <2>4. b.chunks \in [Cids -> Streams] /\ \A k \in Cids : StreamOK(b.chunks[k])
      BY <1>1, <2>2, <2>3, StreamReplaced
    <2> QED BY <1>1, <2>2, <2>4 DEF ReaderTyped, b
  <1>7. CASE ~Refused(old, c) /\ ~OutOfStep(s, c) /\ IsEntire(filled) /\ Ignores(s)
    <2>1. b = [at |-> a.at, received |-> a.received,
               chunks |-> [a.chunks EXCEPT ![cid] = Taken(filled)]]
      BY <1>7 DEF After, cid, old, s, filled
    <2> HIDE DEF b
    <2>2. b.at = a.at /\ b.received = a.received
          /\ b.chunks = [a.chunks EXCEPT ![cid] = Taken(filled)]
      BY <2>1
    <2> DEFINE t == Taken(filled)
    <2>3. StreamOK(t) /\ b.chunks = [a.chunks EXCEPT ![cid] = t]
      BY <1>3, <1>7, <2>2
    <2> HIDE DEF t
    <2>4. b.chunks \in [Cids -> Streams] /\ \A k \in Cids : StreamOK(b.chunks[k])
      BY <1>1, <2>3, StreamReplaced
    <2> QED BY <1>1, <2>2, <2>4 DEF ReaderTyped, b
  <1>8. CASE ~Refused(old, c) /\ ~OutOfStep(s, c) /\ IsEntire(filled) /\ ~Ignores(s)
    <2> DEFINE next == IF OnRecvMessage(s.type) THEN "read" ELSE "failed"
               got == [a.received EXCEPT ![cid] = Append(a.received[cid], message)]
    <2>1. b = [at |-> next, received |-> got,
               chunks |-> [a.chunks EXCEPT ![cid] = Taken(filled)]]
      BY <1>8 DEF After, cid, old, s, filled, message
    <2>2. next \in {"read", "failed", "lost"}
      OBVIOUS
    <2>3. got \in [Cids -> Seq(Messages)]
      <3>1. Append(a.received[cid], message) \in Seq(Messages)
        BY <1>1, <1>3, <1>8
      <3> QED BY <1>1, <3>1
    <2> HIDE DEF b, next, got
    <2>4. b.at = next /\ b.received = got
          /\ b.chunks = [a.chunks EXCEPT ![cid] = Taken(filled)]
      BY <2>1
    <2> DEFINE t == Taken(filled)
    <2>5. StreamOK(t) /\ b.chunks = [a.chunks EXCEPT ![cid] = t]
      BY <1>3, <1>8, <2>4
    <2> HIDE DEF t
    <2>6. b.chunks \in [Cids -> Streams] /\ \A k \in Cids : StreamOK(b.chunks[k])
      BY <1>1, <2>5, StreamReplaced
    <2> QED BY <2>2, <2>3, <2>4, <2>6 DEF ReaderTyped, b
  <1> QED BY <1>4, <1>5, <1>6, <1>7, <1>8 DEF b

-----------------------------------------------------------------------------
(* The chunks on their way.                                                  *)

\* A chain of what the reader would have, were it to take them.
Takes(i, st) == st[i] = After(st[i - 1], wire[i])

LEMMA TakesNew ==
    ASSUME NEW i, NEW tt, NEW c,
           in_chunk_size' = in_chunk_size, wire'[i] = c, tt[i] = After(tt[i - 1], c)
    PROVE  Takes(i, tt)'
  <1>1. Takes(i, tt)' <=> tt[i] = After(tt[i - 1], c)
    BY ZenonT(60) DEF Takes, After, OutOfStep, Filled, PayloadSize
  <1> QED BY <1>1

LEMMA TakesMoves ==
    ASSUME NEW i, NEW j, NEW st, NEW tt,
           in_chunk_size' = in_chunk_size, wire'[i] = wire[j],
           tt[i] = st[j], tt[i - 1] = st[j - 1], Takes(j, st)
    PROVE  Takes(i, tt)'
  <1>1. PICK c : c = wire[j]
    OBVIOUS
  <1>2. tt[i] = After(tt[i - 1], c)
    BY <1>1 DEF Takes
  <1> QED BY <1>1, <1>2, TakesNew

\* Every message that the reader has was sent, in this order.
Arrived(a) ==
    \A cid \in Cids :
        /\ Len(a.received[cid]) <= Len(sent[cid])
        /\ \A i \in 1..Len(a.received[cid]) : a.received[cid][i] = sent[cid][i]

\* The reader's stream s and messages r are as far as the peer p, which sent q.
CaughtUp(s, r, p, q) ==
    /\ s.timestamp = p.time /\ s.timestamp_delta = p.delta
    /\ s.payload_length = p.length /\ s.type = p.type
    /\ ~s.extended
    /\ s.count = IF p.used THEN 1 ELSE 0
    /\ p.left = 0 => IsFirstChunk(s) /\ r = q
    /\ p.left > 0 =>
        /\ ~IsFirstChunk(s)
        /\ q # <<>>
        /\ q = Append(r, q[Len(q)])
        /\ s.msg.size = p.length - p.left
        /\ s.msg.payload = [i \in 1..(p.length - p.left) |-> q[Len(q)].payload[i]]

Caught(a) ==
    \A cid \in Cids : CaughtUp(a.chunks[cid], a.received[cid], peer[cid], sent[cid])

\* Of the chunks on their way the reader takes n, and then it has stopped, or
\* there are no more and it is as far as the peer.
Follows(n, st) ==
    /\ n \in 0..Len(wire)
    /\ st[0] = Reader
    /\ \A i \in 0..n : ReaderTyped(st[i]) /\ Arrived(st[i])
    /\ \A i \in 1..n : Takes(i, st)
    /\ st[n].at = "read" => n = Len(wire) /\ Caught(st[n])

InStep == \E n, st : Follows(n, st)

IInv == Typed /\ InStep

-----------------------------------------------------------------------------
(* The peer's chunks.                                                        *)

LEMMA SeqsEqual ==
    ASSUME NEW S, NEW a \in Seq(S), NEW b \in Seq(S), Len(a) = Len(b),
           \A i \in 1..Len(a) : a[i] = b[i]
    PROVE  a = b
  OBVIOUS

\* The first n bytes of message id.
FirstBytes(id, n) == [i \in 1..n |-> <<id, i>>]

\* The bytes b of message id are those that come after the first m.
Continues(b, id, m) == \A i \in 1..Len(b) : b[i] = <<id, m + i>>

LEMMA FirstBytesType ==
    ASSUME NEW id \in 1..MaxMessages, NEW n \in Nat
    PROVE  FirstBytes(id, n) \in Seq(Byte) /\ Len(FirstBytes(id, n)) = n
  <1>1. \A i \in 1..n : <<id, i>> \in Byte
    BY DEF Byte
  <1>2. FirstBytes(id, n) \in [1..n -> Byte]
    BY <1>1 DEF FirstBytes
  <1> QED BY <1>2

LEMMA PayloadIs ==
    ASSUME NEW id \in 1..MaxMessages, NEW length \in Nat, NEW left \in 0..length,
           peer_chunk \in ChunkSizes
    PROVE  /\ Payload(id, length, left) \in Seq(Byte)
           /\ Len(Payload(id, length, left)) \in 0..left
           /\ left > 0 => Len(Payload(id, length, left)) > 0
           /\ Continues(Payload(id, length, left), id, length - left)
  <1> DEFINE n == IF left < peer_chunk THEN left ELSE peer_chunk
             b == [i \in 1..n |-> <<id, length - left + i>>]
  <1>1. n \in 0..left /\ (left > 0 => n > 0)
    BY Constants
  <1>2. Payload(id, length, left) = b
    BY DEF Payload
  <1> HIDE DEF n
  <1>3. \A i \in 1..n : <<id, length - left + i>> \in Byte
    BY <1>1 DEF Byte
  <1>4. b \in [1..n -> Byte]
    BY <1>3
  <1>5. b \in Seq(Byte) /\ Len(b) = n
    BY <1>1, <1>4
  <1> QED BY <1>1, <1>2, <1>5 DEF Continues

\* The next bytes of a message behind the first ones are its first ones again.
LEMMA FirstBytesGrow ==
    ASSUME NEW id \in 1..MaxMessages, NEW m \in Nat, NEW b \in Seq(Byte),
           Continues(b, id, m)
    PROVE  FirstBytes(id, m) \o b = FirstBytes(id, m + Len(b))
  <1> DEFINE a == FirstBytes(id, m)
             n == Len(b)
             c == FirstBytes(id, m + n)
             d == a \o b
  <1>1. /\ a \in Seq(Byte) /\ Len(a) = m /\ n \in Nat
        /\ c \in Seq(Byte) /\ Len(c) = m + n
    BY FirstBytesType
  <1>2. \A i \in 1..m : a[i] = <<id, i>>
    BY DEF FirstBytes
  <1>3. \A i \in 1..(m + n) : c[i] = <<id, i>>
    BY DEF FirstBytes
  <1> HIDE DEF a, c, n
  <1>4. /\ d \in Seq(Byte) /\ Len(d) = m + n
        /\ \A i \in 1..(m + n) : d[i] = IF i <= m THEN a[i] ELSE b[i - m]
    BY <1>1, ConcatProperties DEF n
  <1> HIDE DEF d
  <1>5. ASSUME NEW i \in 1..(m + n)
        PROVE  d[i] = c[i]
    <2>1. CASE i <= m
      <3>1. i \in 1..m
        BY <2>1
      <3>2. d[i] = a[i]
        BY <1>4, <2>1
      <3>3. a[i] = <<id, i>> /\ c[i] = <<id, i>>
        BY <1>2, <1>3, <3>1
      <3> QED BY <3>2, <3>3
    <2>2. CASE ~(i <= m)
      <3> DEFINE j == i - m
      <3>1. j \in 1..n /\ m + j = i
        BY <1>1, <2>2
      <3>2. d[i] = b[j]
        BY <1>4, <2>2
      <3> HIDE DEF j
      <3>3. b[j] = <<id, m + j>>
        BY <3>1 DEF n, Continues
      <3> QED BY <1>3, <3>1, <3>2, <3>3
    <2> QED BY <2>1, <2>2
  <1>6. d = c
    BY <1>1, <1>4, <1>5, SeqsEqual
  <1> QED BY <1>6 DEF a, c, d, n

LEMMA PeerLeft ==
    ASSUME NEW p \in PeerType, p.left <= p.length
    PROVE  p.length \in Nat /\ p.left \in 0..p.length
  <1>1. p.length \in Sizes /\ p.left \in Nat
    BY DEF PeerType
  <1>2. p.length \in Nat
    BY <1>1, Constants
  <1> QED BY <1>1, <1>2

\* The reader's stream, once it has read a header of a message whose identity is
\* id, has what the peer p has sent of it.
IsHalf(s, p, id) ==
    /\ s.timestamp = p.time /\ s.timestamp_delta = p.delta
    /\ s.payload_length = p.length /\ s.type = p.type
    /\ ~s.extended /\ s.count = 1
    /\ s.msg.size = p.length - p.left
    /\ s.msg.payload = FirstBytes(id, p.length - p.left)

\* A message of the peer p.
Whole(p, id) == [type |-> p.type, time |-> p.time, payload |-> FirstBytes(id, p.length)]

\* The reader and the peer as they are on all chunk streams but one.
LEMMA AfterElsewhere ==
    ASSUME NEW a, ReaderTyped(a), NEW c, ChunkOK(c), in_chunk_size \in ChunkSizes,
           NEW k \in Cids, k # Cid(c.basic)
    PROVE  /\ After(a, c).chunks[k] = a.chunks[k]
           /\ After(a, c).received[k] = a.received[k]
  BY DEF After, ReaderTyped

\* The bytes that the reader asks for are those that the peer has put into the
\* chunk, or it is out of step.
LEMMA ReadsWhatIsThere ==
    ASSUME NEW s, StreamOK(s), NEW p \in PeerType, p.left <= p.length,
           NEW id \in 1..MaxMessages, IsHalf(s, p, id),
           in_chunk_size \in ChunkSizes, peer_chunk \in ChunkSizes,
           NEW c, c.payload = Payload(id, p.length, p.left), ~OutOfStep(s, c)
    PROVE  PayloadSize(s) = Len(c.payload) /\ Len(c.payload) \in 0..p.left
  <1>1. p.length \in Nat /\ p.left \in 0..p.length
    BY PeerLeft
  <1>2. Len(c.payload) \in 0..p.left
    BY <1>1, PayloadIs
  <1>3. s.payload_length = p.length /\ s.msg.size = p.length - p.left
    BY DEF IsHalf
  <1>4. CASE p.length > 0
    BY <1>2, <1>3, <1>4 DEF OutOfStep
  <1>5. CASE p.length = 0
    <2>1. PayloadSize(s) \in 0..(s.payload_length - s.msg.size)
      BY <1>1, <1>3, PayloadSizeIs
    <2> QED BY <1>1, <1>2, <1>3, <1>5, <2>1
  <1> QED BY <1>1, <1>4, <1>5

\* A chunk of the peer's: the reader stops, or it is as far as the peer.
LEMMA ChunkIsTaken ==
    ASSUME NEW a, ReaderTyped(a), a.at = "read", NEW c, ChunkOK(c),
           in_chunk_size \in ChunkSizes, peer_chunk \in ChunkSizes,
           NEW p \in PeerType, p.left <= p.length, NEW id \in 1..MaxMessages,
           c.payload = Payload(id, p.length, p.left),
           LET cid == Cid(c.basic)
               s == Headed(a.chunks[cid], c)
           IN  ~Refused(a.chunks[cid], c) /\ ~OutOfStep(s, c) => IsHalf(s, p, id)
    PROVE  LET cid == Cid(c.basic)
               b == After(a, c)
               r == a.received[cid]
               q == IF p.length = 0 THEN r ELSE Append(r, Whole(p, id))
               f == [p EXCEPT !.left = @ - Len(c.payload), !.used = TRUE]
           IN  /\ b.received[cid] \in {r, q}
               /\ b.at = "read" => CaughtUp(b.chunks[cid], b.received[cid], f, q)
  <1> DEFINE cid == Cid(c.basic)
             old == a.chunks[cid]
             s == Headed(old, c)
             filled == Filled(s, c)
             message == [type |-> s.type, time |-> s.timestamp, payload |-> filled.msg.payload]
             b == After(a, c)
             r == a.received[cid]
             q == IF p.length = 0 THEN r ELSE Append(r, Whole(p, id))
             n == Len(c.payload)
             f == [p EXCEPT !.left = @ - n, !.used = TRUE]
  <1>1. /\ cid \in Cids /\ c \in ChunkType /\ StreamOK(old)
        /\ a.chunks \in [Cids -> Streams]
        /\ a.received \in [Cids -> Seq(Messages)] /\ r \in Seq(Messages)
    BY DEF ReaderTyped, ChunkOK
  <1>2. p.length \in Nat /\ p.left \in 0..p.length
    BY PeerLeft
  <1>3. /\ f.left = p.left - n /\ f.used = TRUE /\ f.length = p.length
        /\ f.time = p.time /\ f.delta = p.delta /\ f.type = p.type
    BY DEF PeerType
  <1>4. CASE Refused(old, c)
    <2>1. b = [at |-> "failed", received |-> a.received,
               chunks |-> [a.chunks EXCEPT ![cid] = HeadRefused(@, c)]]
      BY <1>4 DEF After
    <2> QED BY <2>1
  <1>5. CASE ~Refused(old, c) /\ OutOfStep(s, c)
    <2>1. b = [at |-> "lost", received |-> a.received, chunks |-> a.chunks]
      BY <1>5 DEF After
    <2> QED BY <2>1
  <1>6. CASE ~Refused(old, c) /\ ~OutOfStep(s, c)
    <2>1. IsHalf(s, p, id)
      BY <1>6
    <2>2. StreamOK(s) /\ ~IsFirstChunk(s)
      BY <1>1, <1>6, HeadedIsOK
    <2>3. PayloadSize(s) = n /\ n \in 0..p.left
      BY <1>6, <2>1, <2>2, ReadsWhatIsThere
    <2>4. /\ StreamOK(filled) /\ ~IsFirstChunk(filled)
          /\ filled.msg.size = s.msg.size + n
          /\ filled.msg.payload = s.msg.payload \o c.payload
          /\ filled.timestamp = s.timestamp /\ filled.timestamp_delta = s.timestamp_delta
          /\ filled.payload_length = s.payload_length /\ filled.type = s.type
          /\ filled.extended = s.extended /\ filled.count = s.count
      BY <1>1, <2>2, <2>3, FilledIsOK
    <2> DEFINE m == p.length - p.left
    <2>5. m \in Nat /\ m + n = p.length - f.left /\ f.left \in Nat
      BY <1>2, <1>3, <2>3
    <2>6. filled.msg.size = m + n /\ filled.msg.payload = FirstBytes(id, m + n)
      <3>1. s.msg.size = m /\ s.msg.payload = FirstBytes(id, m)
        BY <2>1 DEF IsHalf
      <3>2. c.payload \in Seq(Byte) /\ Continues(c.payload, id, m)
        BY <1>2, PayloadIs
      <3> HIDE DEF m
      <3>3. FirstBytes(id, m) \o c.payload = FirstBytes(id, m + n)
        BY <2>5, <3>2, FirstBytesGrow
      <3> QED BY <2>4, <3>1, <3>3
    <2>7. /\ filled.timestamp = p.time /\ filled.timestamp_delta = p.delta
          /\ filled.payload_length = p.length /\ filled.type = p.type
          /\ ~filled.extended /\ filled.count = 1
          /\ s.type = p.type /\ s.timestamp = p.time /\ s.payload_length = p.length
      BY <2>1, <2>4 DEF IsHalf
    <2> HIDE DEF cid, old, s, filled, r, q, n, f, m
    <2>8. IsEntire(filled) <=> f.left = 0
      BY <1>2, <1>3, <2>5, <2>6, <2>7 DEF IsEntire
    <2>9. CASE ~IsEntire(filled)
      <3>1. b = [at |-> a.at, received |-> a.received,
                 chunks |-> [a.chunks EXCEPT ![cid] = filled]]
        BY <1>6, <2>9 DEF After, cid, old, s, filled
      <3>2. b.chunks[cid] = filled /\ b.received[cid] = r
        BY <1>1, <3>1 DEF r
      <3>3. f.left > 0 /\ p.length # 0
        BY <1>2, <1>3, <2>3, <2>5, <2>8, <2>9
      <3>4. q = Append(r, Whole(p, id))
        BY <3>3 DEF q
      <3>5. /\ q # <<>> /\ q[Len(q)] = Whole(p, id)
        BY <1>1, <3>4
      <3>6. filled.msg.payload = [i \in 1..(f.length - f.left) |-> q[Len(q)].payload[i]]
        <4>1. f.length - f.left = m + n
          BY <1>3, <2>5
        <4>2. m + n <= p.length /\ m + n \in Nat
          BY <1>2, <1>3, <2>3, <2>5
        <4>3. q[Len(q)].payload = FirstBytes(id, p.length)
          BY <3>5 DEF Whole
        <4>4. \A i \in 1..(m + n) : FirstBytes(id, p.length)[i] = <<id, i>>
          BY <1>2, <4>2 DEF FirstBytes
        <4> QED BY <2>6, <4>1, <4>3, <4>4 DEF FirstBytes
      <3>7. CaughtUp(filled, r, f, q)
        BY <1>3, <2>4, <2>5, <2>6, <2>7, <3>3, <3>4, <3>5, <3>6 DEF CaughtUp
      <3> QED BY <3>2, <3>7 DEF b, cid, r, q, f, n
    <2>10. CASE IsEntire(filled)
      <3> DEFINE t == Taken(filled)
      <3>1. /\ t.msg = NoMessage
            /\ t.timestamp = p.time /\ t.timestamp_delta = p.delta
            /\ t.payload_length = p.length /\ t.type = p.type
            /\ ~t.extended /\ t.count = 1
        BY <2>4, <2>7, TakenIsOK
      <3>2. Ignores(s) <=> p.length = 0
        BY <1>2, <2>7 DEF Ignores
      <3>3. b.chunks[cid] = t /\ b.received[cid] = q
        <4>1. CASE Ignores(s)
          <5>1. b = [at |-> a.at, received |-> a.received,
                     chunks |-> [a.chunks EXCEPT ![cid] = t]]
            BY <1>6, <2>10, <4>1 DEF After, cid, old, s, filled
          <5>2. q = r
            BY <3>2, <4>1 DEF q
          <5> QED BY <1>1, <5>1, <5>2 DEF r
        <4>2. CASE ~Ignores(s)
          <5>1. b = [at |-> IF OnRecvMessage(s.type) THEN "read" ELSE "failed",
                     received |-> [a.received EXCEPT ![cid] = Append(@, message)],
                     chunks |-> [a.chunks EXCEPT ![cid] = t]]
            BY <1>6, <2>10, <4>2 DEF After, cid, old, s, filled
          <5>2. message = Whole(p, id)
            <6>1. m + n = p.length
              BY <1>2, <2>5, <2>8, <2>10
            <6>2. filled.msg.payload = FirstBytes(id, p.length)
              BY <2>6, <6>1
            <6> QED BY <2>7, <6>2 DEF Whole
          <5>3. q = Append(r, message)
            BY <3>2, <4>2, <5>2 DEF q
          <5> HIDE DEF message
          <5> QED BY <1>1, <5>1, <5>3 DEF r
        <4> QED BY <4>1, <4>2
      <3> HIDE DEF t
      <3>4. CaughtUp(t, q, f, q)
        BY <1>3, <2>8, <2>10, <3>1 DEF CaughtUp, IsFirstChunk
      <3> QED BY <3>3, <3>4 DEF b, cid, r, q, f, n
    <2> QED BY <2>9, <2>10
  <1> QED BY <1>4, <1>5, <1>6

-----------------------------------------------------------------------------
(* What the steps make of the chain.                                         *)

LEMMA IntoStep ==
    ASSUME NEW m \in Nat, NEW tt, m <= Len(wire)', tt[0] = Reader',
           \A i \in 0..m : ReaderTyped(tt[i]) /\ Arrived(tt[i])',
           \A i \in 1..m : Takes(i, tt)',
           tt[m].at = "read" => m = Len(wire)' /\ Caught(tt[m])'
    PROVE  InStep'
  <1>1. Follows(m, tt)'
    BY DEF Follows
  <1> QED BY <1>1 DEF InStep

LEMMA ArrivedGrows ==
    ASSUME NEW a, Arrived(a), sent \in [Cids -> Seq(Messages)],
           \A cid \in Cids :
              sent'[cid] = sent[cid] \/ \E m : sent'[cid] = Append(sent[cid], m)
    PROVE  Arrived(a)'
  <1>1. ASSUME NEW cid \in Cids
        PROVE  /\ Len(a.received[cid]) <= Len(sent'[cid])
               /\ \A i \in 1..Len(a.received[cid]) : a.received[cid][i] = sent'[cid][i]
    <2> DEFINE r == a.received[cid]
               q == sent[cid]
               w == sent'[cid]
    <2>1. /\ Len(r) <= Len(q) /\ \A i \in 1..Len(r) : r[i] = q[i]
          /\ q \in Seq(Messages)
      BY DEF Arrived
    <2>2. w = q \/ \E m : w = Append(q, m)
      OBVIOUS
    <2> HIDE DEF r, q, w
    <2>3. Len(w) >= Len(q) /\ \A i \in 1..Len(q) : w[i] = q[i]
      <3>1. CASE w = q
        BY <2>1, <3>1
      <3>2. CASE \E m : w = Append(q, m)
        <4>1. PICK m : w = Append(q, m)
          BY <3>2
        <4>2. Len(w) = Len(q) + 1 /\ \A i \in 1..Len(q) : w[i] = q[i]
          BY <2>1, <4>1
        <4> QED BY <2>1, <4>2
      <3> QED BY <2>2, <3>1, <3>2
    <2>4. Len(q) \in Nat
      BY <2>1
    <2> QED BY <2>1, <2>3, <2>4 DEF r, w
  <1> QED BY <1>1 DEF Arrived

\* A chunk that the reader would take, or stop at, keeps it in step.
FitsChain(c) ==
    \A a, b :
        /\ ReaderTyped(a) /\ a.at = "read" /\ Arrived(a) /\ Caught(a)
        /\ b = After(a, c)
        => /\ Arrived(b)'
           /\ b.at = "read" => Caught(b)'

\* One more chunk on its way, c: the chain gets longer, or has already ended.
LEMMA ChainGrows ==
    ASSUME Typed, InStep, NEW c, ChunkOK(c), wire' = Append(wire, c),
           Reader' = Reader, in_chunk_size' = in_chunk_size,
           \A cid \in Cids :
              sent'[cid] = sent[cid] \/ \E m : sent'[cid] = Append(sent[cid], m),
           FitsChain(c)
    PROVE  InStep'
  <1>1. PICK n, st : Follows(n, st)
    BY DEF InStep
  <1>2. /\ n \in Nat /\ n <= Len(wire) /\ Len(wire) \in Nat /\ wire \in Seq(ChunkType)
        /\ in_chunk_size \in ChunkSizes /\ sent \in [Cids -> Seq(Messages)]
    BY <1>1 DEF Follows, Typed
  <1>3. /\ st[0] = Reader
        /\ \A i \in 0..n : ReaderTyped(st[i]) /\ Arrived(st[i])
        /\ \A i \in 1..n : Takes(i, st)
        /\ st[n].at = "read" => n = Len(wire) /\ Caught(st[n])
    BY <1>1 DEF Follows
  <1>4. /\ Len(wire)' = Len(wire) + 1
        /\ wire'[Len(wire) + 1] = c
        /\ \A i \in 1..Len(wire) : wire'[i] = wire[i]
    <2> c \in ChunkType
      BY DEF ChunkOK
    <2> QED BY <1>2
  <1>5. \A i \in 0..n : ReaderTyped(st[i]) /\ Arrived(st[i])'
    BY <1>2, <1>3, ArrivedGrows
  <1>6. CASE st[n].at # "read"
    <2>1. ASSUME NEW i \in 1..n
          PROVE  Takes(i, st)'
      <3>1. wire'[i] = wire[i] /\ Takes(i, st)
        BY <1>2, <1>3, <1>4
      <3> QED BY <3>1, TakesMoves
    <2>2. n <= Len(wire)' /\ st[0] = Reader'
      BY <1>2, <1>3, <1>4
    <2> QED BY <1>2, <1>5, <1>6, <2>1, <2>2, IntoStep
  <1>7. CASE st[n].at = "read"
    <2>1. n = Len(wire) /\ Caught(st[n]) /\ ReaderTyped(st[n]) /\ Arrived(st[n])
      BY <1>2, <1>3, <1>7
    <2>2. PICK b : b = After(st[n], c)
      OBVIOUS
    <2>3. PICK tt : tt = [i \in 0..(n + 1) |-> IF i <= n THEN st[i] ELSE b]
      OBVIOUS
    <2>4. \A i \in 0..n : tt[i] = st[i]
      BY <1>2, <2>3
    <2>5. tt[n + 1] = b
      BY <1>2, <2>3
    <2>6. Arrived(b)' /\ (b.at = "read" => Caught(b)')
      BY <1>7, <2>1, <2>2 DEF FitsChain
    <2>7. ReaderTyped(b)
      BY <1>2, <2>1, <2>2, AfterIsTyped
    <2>8. \A i \in 0..(n + 1) : ReaderTyped(tt[i]) /\ Arrived(tt[i])'
      <3>1. ASSUME NEW i \in 0..(n + 1)
            PROVE  ReaderTyped(tt[i]) /\ Arrived(tt[i])'
        <4>1. CASE i = n + 1
          BY <2>5, <2>6, <2>7, <4>1
        <4>2. CASE i # n + 1
          <5>1. i \in 0..n
            BY <1>2, <4>2
          <5> QED BY <1>5, <2>4, <5>1
        <4> QED BY <4>1, <4>2
      <3> QED BY <3>1
    <2>9. \A i \in 1..(n + 1) : Takes(i, tt)'
      <3>1. ASSUME NEW i \in 1..(n + 1)
            PROVE  Takes(i, tt)'
        <4>1. CASE i = n + 1
          <5>1. wire'[i] = c /\ tt[i] = b /\ tt[i - 1] = st[n]
            BY <1>2, <1>4, <2>1, <2>4, <2>5, <4>1
          <5> QED BY <2>2, <5>1, TakesNew
        <4>2. CASE i # n + 1
          <5>1. /\ i \in 1..n /\ wire'[i] = wire[i] /\ Takes(i, st)
                /\ tt[i] = st[i] /\ tt[i - 1] = st[i - 1]
            BY <1>2, <1>3, <1>4, <2>1, <2>4, <4>2
          <5> QED BY <5>1, TakesMoves
        <4> QED BY <4>1, <4>2
      <3> QED BY <3>1
    <2>10. /\ n + 1 \in Nat /\ n + 1 <= Len(wire)' /\ tt[0] = Reader'
           /\ n + 1 = Len(wire)'
      BY <1>2, <1>3, <1>4, <2>1, <2>4
    <2>11. tt[n + 1].at = "read" => n + 1 = Len(wire)' /\ Caught(tt[n + 1])'
      BY <2>5, <2>6, <2>10
    <2> QED BY <2>8, <2>9, <2>10, <2>11, IntoStep
  <1> QED BY <1>6, <1>7

\* Nothing but the peer's chunk size, or nothing at all.
LEMMA ChainStays ==
    ASSUME Typed, InStep,
           Reader' = Reader, in_chunk_size' = in_chunk_size, wire' = wire,
           sent' = sent, peer' = peer
    PROVE  InStep'
  <1>1. PICK n, st : Follows(n, st)
    BY DEF InStep
  <1>2. ASSUME NEW i \in 1..n
        PROVE  Takes(i, st)'
    <2>1. wire'[i] = wire[i] /\ Takes(i, st)
      BY <1>1 DEF Follows
    <2> QED BY <2>1, TakesMoves
  <1>3. \A i \in 0..n : ReaderTyped(st[i]) /\ Arrived(st[i])'
    BY <1>1 DEF Follows, Arrived
  <1>4. st[n].at = "read" => n = Len(wire)' /\ Caught(st[n])'
    BY <1>1 DEF Follows, Caught
  <1>5. n \in Nat /\ n <= Len(wire)' /\ st[0] = Reader'
    BY <1>1 DEF Follows
  <1> QED BY <1>2, <1>3, <1>4, <1>5, IntoStep

\* The reader takes the first chunk, and the chain gets shorter.
LEMMA RecvInStep ==
    ASSUME Typed, InStep, Recv
    PROVE  InStep'
  <1>1. PICK n, st : Follows(n, st)
    BY DEF InStep
  <1>2. /\ n \in Nat /\ n <= Len(wire) /\ Len(wire) \in Nat /\ wire \in Seq(ChunkType)
        /\ st[0] = Reader
        /\ \A i \in 0..n : ReaderTyped(st[i]) /\ Arrived(st[i])
        /\ \A i \in 1..n : Takes(i, st)
        /\ st[n].at = "read" => n = Len(wire) /\ Caught(st[n])
    BY <1>1 DEF Follows, Typed
  <1>3. /\ at = "read" /\ wire # <<>> /\ wire' = Tail(wire)
        /\ in_chunk_size' = in_chunk_size /\ peer' = peer /\ sent' = sent
    BY DEF Recv, peerVars
  <1>4. /\ Len(wire) > 0 /\ Len(wire)' = Len(wire) - 1 /\ Head(wire) = wire[1]
        /\ \A i \in 1..(Len(wire) - 1) : wire'[i] = wire[i + 1]
    BY <1>2, <1>3
  <1>5. n > 0
    <2>1. Reader.at = "read"
      BY <1>3 DEF Reader
    <2> QED BY <1>2, <1>4, <2>1
  <1>6. Reader' = st[1]
    <2>1. Takes(1, st)
      BY <1>2, <1>5
    <2>2. st[1] = After(st[0], wire[1])
      BY <2>1 DEF Takes
    <2> QED BY <1>2, <1>4, <2>2, RecvIsAfter
  <1>7. PICK tt : tt = [i \in 0..(n - 1) |-> st[i + 1]]
    OBVIOUS
  <1>8. \A i \in 0..(n - 1) : tt[i] = st[i + 1]
    BY <1>7
  <1>9. ASSUME NEW i \in 1..(n - 1)
        PROVE  Takes(i, tt)'
    <2>1. /\ i + 1 \in 1..n /\ i - 1 \in 0..(n - 1) /\ i \in 0..(n - 1)
          /\ (i + 1) - 1 = i /\ (i - 1) + 1 = i
      BY <1>2
    <2>2. tt[i] = st[i + 1] /\ tt[i - 1] = st[(i + 1) - 1] /\ Takes(i + 1, st)
      BY <1>2, <1>8, <2>1
    <2>3. wire'[i] = wire[i + 1]
      BY <1>2, <1>4
    <2> QED BY <1>3, <2>2, <2>3, TakesMoves
  <1>10. \A i \in 0..(n - 1) : ReaderTyped(tt[i]) /\ Arrived(tt[i])'
    <2>1. ASSUME NEW i \in 0..(n - 1)
          PROVE  ReaderTyped(tt[i]) /\ Arrived(tt[i])'
      <3>1. tt[i] = st[i + 1] /\ i + 1 \in 0..n
        BY <1>2, <1>8
      <3>2. ReaderTyped(tt[i]) /\ Arrived(tt[i])
        BY <1>2, <3>1
      <3> QED BY <1>3, <3>2 DEF Arrived
    <2> QED BY <2>1
  <1>11. tt[n - 1].at = "read" => n - 1 = Len(wire)' /\ Caught(tt[n - 1])'
    <2>1. tt[n - 1] = st[n]
      BY <1>2, <1>5, <1>8
    <2>2. st[n].at = "read" => n = Len(wire) /\ Caught(st[n])'
      BY <1>2, <1>3 DEF Caught
    <2> QED BY <1>2, <1>4, <2>1, <2>2
  <1>12. n - 1 \in Nat /\ n - 1 <= Len(wire)' /\ tt[0] = Reader'
    BY <1>2, <1>4, <1>5, <1>6, <1>8
  <1> QED BY <1>9, <1>10, <1>11, <1>12, IntoStep

-----------------------------------------------------------------------------
(* The peer's steps.                                                         *)

\* A chunk after which the reader, if it takes it, is as far as the peer.
LEMMA SentFits ==
    ASSUME Typed, NEW cid \in Cids, NEW c, ChunkOK(c), Cid(c.basic) = cid,
           NEW p \in PeerType, p.left <= p.length, NEW id \in 1..MaxMessages,
           c.payload = Payload(id, p.length, p.left),
           peer' = [peer EXCEPT
                      ![cid] = [p EXCEPT !.left = @ - Len(c.payload), !.used = TRUE]],
           \A k \in Cids : k # cid => sent'[k] = sent[k],
           sent'[cid] = sent[cid] \/ \E m : sent'[cid] = Append(sent[cid], m),
           \A s, r :
              StreamOK(s) /\ r \in Seq(Messages) /\ CaughtUp(s, r, peer[cid], sent[cid])
              => /\ sent'[cid] = IF p.length = 0 THEN r ELSE Append(r, Whole(p, id))
                 /\ ~Refused(s, c) /\ ~OutOfStep(Headed(s, c), c)
                      => IsHalf(Headed(s, c), p, id)
    PROVE  FitsChain(c)
  <1> SUFFICES ASSUME NEW a, NEW b, ReaderTyped(a), a.at = "read", Arrived(a), Caught(a),
                      b = After(a, c)
               PROVE  Arrived(b)' /\ (b.at = "read" => Caught(b)')
    BY DEF FitsChain
  <1> DEFINE r == a.received[cid]
             s == a.chunks[cid]
             q == IF p.length = 0 THEN r ELSE Append(r, Whole(p, id))
             f == [p EXCEPT !.left = @ - Len(c.payload), !.used = TRUE]
  <1>1. /\ in_chunk_size \in ChunkSizes /\ peer_chunk \in ChunkSizes
        /\ sent \in [Cids -> Seq(Messages)] /\ peer \in [Cids -> PeerType]
    BY DEF Typed
  <1>2. StreamOK(s) /\ r \in Seq(Messages) /\ CaughtUp(s, r, peer[cid], sent[cid])
    BY DEF ReaderTyped, Caught
  <1>3. sent'[cid] = q /\ (~Refused(s, c) /\ ~OutOfStep(Headed(s, c), c)
                             => IsHalf(Headed(s, c), p, id))
    BY <1>2
  <1>4. /\ b.received[cid] \in {r, q}
        /\ b.at = "read" => CaughtUp(b.chunks[cid], b.received[cid], f, q)
    BY <1>1, <1>3, ChunkIsTaken, ZenonT(60)
  <1>5. \A k \in Cids : k # cid => b.chunks[k] = a.chunks[k] /\ b.received[k] = a.received[k]
    BY <1>1, AfterElsewhere
  <1>6. peer'[cid] = f /\ \A k \in Cids : k # cid => peer'[k] = peer[k]
    BY <1>1
  <1> HIDE DEF r, s, q, f
  <1>7. Arrived(b)'
    <2>1. Arrived(a)'
      BY <1>1, ArrivedGrows
    <2>2. ASSUME NEW k \in Cids
          PROVE  /\ Len(b.received[k]) <= Len(sent'[k])
                 /\ \A i \in 1..Len(b.received[k]) : b.received[k][i] = sent'[k][i]
      <3>1. CASE b.received[k] = a.received[k]
        BY <2>1, <3>1 DEF Arrived
      <3>2. CASE k = cid /\ b.received[k] = sent'[k]
        <4>1. Len(q) \in Nat
          <5>1. r \in Seq(Messages)
            BY <1>2
          <5>2. q = r \/ q = Append(r, Whole(p, id))
            BY DEF q
          <5> QED BY <5>1, <5>2
        <4> QED BY <1>3, <3>2, <4>1
      <3> QED BY <1>3, <1>4, <1>5, <3>1, <3>2 DEF r
    <2> QED BY <2>2 DEF Arrived
  <1>8. ASSUME b.at = "read"
        PROVE  Caught(b)'
    <2>1. ASSUME NEW k \in Cids
          PROVE  CaughtUp(b.chunks[k], b.received[k], peer'[k], sent'[k])
      <3>1. CASE k = cid
        BY <1>3, <1>4, <1>6, <1>8, <3>1
      <3>2. CASE k # cid
        BY <1>5, <1>6, <3>2 DEF Caught
      <3> QED BY <3>1, <3>2
    <2> QED BY <2>1 DEF Caught
  <1> QED BY <1>7, <1>8

\* A confused peer's chunk is refused.
LEMMA ConfusedFits ==
    ASSUME Typed, NEW cid \in Cids, NEW c, ChunkOK(c), Cid(c.basic) = cid,
           peer' = peer, sent' = sent,
           \A s, r : StreamOK(s) /\ CaughtUp(s, r, peer[cid], sent[cid]) => Refused(s, c)
    PROVE  FitsChain(c)
  <1> SUFFICES ASSUME NEW a, NEW b, ReaderTyped(a), a.at = "read", Arrived(a), Caught(a),
                      b = After(a, c)
               PROVE  Arrived(b)' /\ (b.at = "read" => Caught(b)')
    BY DEF FitsChain
  <1>1. Refused(a.chunks[cid], c)
    BY DEF ReaderTyped, Caught
  <1>2. b = [at |-> "failed", received |-> a.received,
             chunks |-> [a.chunks EXCEPT ![cid] = HeadRefused(@, c)]]
    BY <1>1 DEF After
  <1>3. b.at = "failed" /\ b.received = a.received
    BY <1>2
  <1> QED BY <1>3 DEF Arrived

\* What a header leaves of a stream between two messages.
LEMMA StartIsHalf ==
    ASSUME NEW s, StreamOK(s), IsFirstChunk(s), NEW c, ChunkOK(c), NEW p \in PeerType,
           p.left = p.length, NEW id \in 1..MaxMessages,
           ~OutOfStep(Headed(s, c), c),
           ~IsExtended(s, c) => Timestamp(s, c) = p.time /\ TimestampDelta(s, c) = p.delta,
           p.length = IF Fmt(c.basic) <= 1 THEN c.length ELSE s.payload_length,
           p.type = IF Fmt(c.basic) <= 1 THEN c.type ELSE s.type
    PROVE  IsHalf(Headed(s, c), p, id)
  <1> DEFINE h == Headed(s, c)
  <1>1. /\ h.timestamp = Timestamp(s, c) /\ h.timestamp_delta = TimestampDelta(s, c)
        /\ h.extended = IsExtended(s, c)
        /\ h.payload_length = p.length /\ h.type = p.type /\ h.count = 1
        /\ h.msg = [size |-> 0, room |-> 0, payload |-> <<>>]
    <2>1. s \in Streams /\ c \in ChunkType
      BY DEF StreamOK, ChunkOK
    <2> QED BY <2>1, HeadedFields
  <1> HIDE DEF h
  <1>2. ~h.extended
    BY DEF OutOfStep, h
  <1>3. p.length - p.left = 0
    <2>1. p.left \in Nat
      BY DEF PeerType
    <2> QED BY <2>1
  <1>4. FirstBytes(id, 0) = <<>>
    BY DEF FirstBytes
  <1> QED BY <1>1, <1>2, <1>3, <1>4 DEF IsHalf, h

\* A chunk with the next bytes of a message, and the peer once it is on its way.
Carries(header, p, id) == [header EXCEPT !.payload = Payload(id, p.length, p.left)]

Further(p, c) == [p EXCEPT !.left = @ - Len(c.payload), !.used = TRUE]

\* The peer's chunk joins those on their way, and its stream goes on.
LEMMA SentIsTyped ==
    ASSUME Typed, NEW cid \in Cids, NEW header, ChunkOK(header),
           NEW p \in PeerType, p.left <= p.length, NEW id \in 1..MaxMessages,
           SendsChunk(cid, p, header, id)
    PROVE  LET c == Carries(header, p, id)
               f == Further(p, c)
           IN  /\ ChunkOK(c) /\ wire' = Append(wire, c)
               /\ c.payload = Payload(id, p.length, p.left)
               /\ c.basic = header.basic /\ c.time = header.time
               /\ c.length = header.length /\ c.type = header.type
               /\ wire' \in Seq(ChunkType) /\ Len(wire') <= MaxWire
               /\ \A i \in 1..Len(wire') : ChunkOK(wire'[i])
               /\ peer' = [peer EXCEPT ![cid] = f]
               /\ peer' \in [Cids -> PeerType]
               /\ f \in PeerType /\ f.left <= f.length /\ f.used /\ f.left <= p.left
               /\ f.type = p.type /\ f.time = p.time /\ f.length = p.length
  <1> DEFINE bytes == Payload(id, p.length, p.left)
             c == [header EXCEPT !.payload = bytes]
             n == Len(c.payload)
             f == [p EXCEPT !.left = @ - n, !.used = TRUE]
  <1>1. /\ wire \in Seq(ChunkType) /\ \A i \in 1..Len(wire) : ChunkOK(wire[i])
        /\ peer \in [Cids -> PeerType] /\ peer_chunk \in ChunkSizes
    BY DEF Typed
  <1>2. p.length \in Nat /\ p.left \in 0..p.length
    BY PeerLeft
  <1>3. bytes \in Seq(Byte) /\ Len(bytes) \in 0..p.left
    BY <1>1, <1>2, PayloadIs
  <1>4. header \in ChunkType /\ Cid(header.basic) \in Cids /\ Fmt(header.basic) \in 0..3
    BY DEF ChunkOK
  <1>5. /\ Len(wire) < MaxWire /\ wire' = Append(wire, c)
        /\ peer' = [peer EXCEPT ![cid] = [p EXCEPT !.left = @ - Len(bytes), !.used = TRUE]]
    BY DEF SendsChunk
  <1> HIDE DEF bytes
  <1>6. /\ c.payload = bytes /\ c.basic = header.basic /\ c.time = header.time
        /\ c.length = header.length /\ c.type = header.type /\ c \in ChunkType
    BY <1>3, <1>4 DEF ChunkType
  <1>7. ChunkOK(c)
    BY <1>4, <1>6 DEF ChunkOK
  <1>8. peer' = [peer EXCEPT ![cid] = f]
    BY <1>5, <1>6
  <1>9. n \in 0..p.left
    BY <1>3, <1>6
  <1> HIDE DEF c, n
  <1>10. /\ f \in PeerType /\ f.left = p.left - n /\ f.used = TRUE
         /\ f.type = p.type /\ f.time = p.time /\ f.length = p.length
    <2>1. p.left - n \in Nat
      BY <1>2, <1>9
    <2> QED BY <2>1 DEF PeerType
  <1> HIDE DEF f
  <1>11. f.left <= f.length /\ f.left <= p.left
    BY <1>2, <1>9, <1>10
  <1>12. peer' \in [Cids -> PeerType]
    BY <1>1, <1>8, <1>10
  <1>13. wire' \in Seq(ChunkType) /\ Len(wire') = Len(wire) + 1 /\ c \in ChunkType
    BY <1>1, <1>5, <1>7 DEF ChunkOK
  <1>14. \A i \in 1..Len(wire') : ChunkOK(wire'[i])
    <2>1. ASSUME NEW i \in 1..Len(wire')
          PROVE  ChunkOK(wire'[i])
      <3>1. CASE i = Len(wire) + 1
        <4>1. wire'[i] = c
          BY <1>1, <1>5, <1>13, <3>1
        <4> QED BY <1>7, <4>1
      <3>2. CASE i # Len(wire) + 1
        <4>1. i \in 1..Len(wire) /\ wire'[i] = wire[i]
          BY <1>1, <1>5, <1>13, <3>2
        <4> QED BY <1>1, <4>1
      <3> QED BY <3>1, <3>2
    <2> QED BY <2>1
  <1>15. Len(wire') <= MaxWire
    BY <1>1, <1>5, <1>13, Constants
  <1> QED BY <1>5, <1>6, <1>7, <1>8, <1>10, <1>11, <1>12, <1>13, <1>14, <1>15
          DEF bytes, c, n, f, Carries, Further

\* A message is started: with one of four headers.
StartsWith(cid, old, p, header, type, length, delta) ==
    LET time == (old.time + delta) % Wrap
        same == old.used /\ type = old.type /\ length = old.length
        begun == [old EXCEPT !.type = type, !.length = length, !.time = time, !.left = length]
        h(fmt) == Chunk(Basic(fmt, cid), IF fmt = 3 THEN 0 ELSE delta, length, type, FALSE)
    IN  \/ /\ header = WithCid(C0(cid, time, length, type), 0, cid)
           /\ p = [begun EXCEPT !.delta = 0]
        \/ header = h(1) /\ p = [begun EXCEPT !.delta = delta]
        \/ same /\ header = h(2) /\ p = [begun EXCEPT !.delta = delta]
        \/ same /\ delta = old.delta /\ header = h(3) /\ p = begun

LEMMA StartFits ==
    ASSUME NEW cid \in Cids, NEW type \in Types, NEW length \in Lengths, NEW delta \in Deltas,
           NEW old \in PeerType, NEW p, NEW header,
           StartsWith(cid, old, p, header, type, length, delta)
    PROVE  /\ ChunkOK(header) /\ Cid(header.basic) = cid
           /\ p \in PeerType /\ p.left = length /\ p.length = length /\ p.type = type
           /\ p.time = (old.time + delta) % Wrap
           /\ \A s :
                 /\ StreamOK(s) /\ IsFirstChunk(s) /\ ~s.extended
                 /\ s.timestamp = old.time /\ s.timestamp_delta = old.delta
                 /\ s.payload_length = old.length /\ s.type = old.type
                 => /\ ~IsExtended(s, header)
                         => /\ Timestamp(s, header) = p.time
                            /\ TimestampDelta(s, header) = p.delta
                    /\ length = IF Fmt(header.basic) <= 1 THEN header.length
                                ELSE s.payload_length
                    /\ type = IF Fmt(header.basic) <= 1 THEN header.type ELSE s.type
  <1> DEFINE time == (old.time + delta) % Wrap
             same == old.used /\ type = old.type /\ length = old.length
             begun == [old EXCEPT !.type = type, !.length = length, !.time = time,
                                  !.left = length]
             h(fmt) == Chunk(Basic(fmt, cid), IF fmt = 3 THEN 0 ELSE delta, length, type,
                             FALSE)
             c0 == WithCid(C0(cid, time, length, type), 0, cid)
  <1>1. /\ length \in Sizes /\ length \in Nat /\ delta \in Int /\ delta \in 0..Extended
        /\ old.time \in Times /\ old.delta \in 0..Extended
    BY Constants DEF Sizes, PeerType
  <1>2. time \in Times /\ time = Masked(old.time + delta)
    <2>1. old.time + delta \in Int
      BY <1>1, Constants DEF Times
    <2> QED BY <2>1, Masks DEF Masked
  <1> HIDE DEF time
  <1>3. /\ begun \in PeerType /\ begun.left = length /\ begun.length = length
        /\ begun.type = type /\ begun.time = time /\ begun.delta = old.delta
    BY <1>1, <1>2 DEF PeerType
  <1>4. /\ ChunkOK(c0) /\ Cid(c0.basic) = cid /\ Fmt(c0.basic) = 0
        /\ c0.length = length /\ c0.type = type
        /\ c0.time = IF time < Extended THEN time ELSE Extended
    <2>1. 0 \in 0..3
      OBVIOUS
    <2>2. IsHeader(c0, cid, 0, IF time < Extended THEN time ELSE Extended, length, type)
      BY <1>1, <1>2, <2>1, HeadersAreChunks, Zenon
    <2> HIDE DEF c0
    <2> QED BY <2>2 DEF IsHeader
  <1>5. ASSUME NEW fmt \in 0..3
        PROVE  /\ ChunkOK(h(fmt)) /\ Cid(h(fmt).basic) = cid /\ Fmt(h(fmt).basic) = fmt
               /\ h(fmt).length = length /\ h(fmt).type = type
               /\ h(fmt).time = IF fmt = 3 THEN 0 ELSE delta
    <2>1. IsHeader(h(fmt), cid, fmt, IF fmt = 3 THEN 0 ELSE delta, length, type)
      BY <1>1, <1>2, HeadersAreChunks, Zenon
    <2> HIDE DEF h
    <2> QED BY <2>1 DEF IsHeader
  <1>6. /\ \A d \in 0..Extended : [begun EXCEPT !.delta = d] \in PeerType
        /\ \A d : /\ [begun EXCEPT !.delta = d].left = length
                  /\ [begun EXCEPT !.delta = d].length = length
                  /\ [begun EXCEPT !.delta = d].type = type
                  /\ [begun EXCEPT !.delta = d].time = time
                  /\ [begun EXCEPT !.delta = d].delta = d
    <2> HIDE DEF begun
    <2> QED BY <1>3 DEF PeerType
  <1>7. \/ header = c0 /\ p = [begun EXCEPT !.delta = 0]
        \/ header = h(1) /\ p = [begun EXCEPT !.delta = delta]
        \/ same /\ header = h(2) /\ p = [begun EXCEPT !.delta = delta]
        \/ same /\ delta = old.delta /\ header = h(3) /\ p = begun
    BY DEF StartsWith, time
  <1> HIDE DEF begun, h, c0
  <1>8. CASE header = c0 /\ p = [begun EXCEPT !.delta = 0]
    <2>1. 0 \in 0..Extended
      BY Constants
    <2>2. /\ p \in PeerType /\ p.left = length /\ p.length = length /\ p.type = type
          /\ p.time = time /\ p.delta = 0
      BY <1>6, <1>8, <2>1
    <2>3. ASSUME NEW s
          PROVE  ~IsExtended(s, header) => /\ Timestamp(s, header) = time
                                           /\ TimestampDelta(s, header) = 0
      <3>1. IsExtended(s, header) <=> header.time >= Extended
        BY <1>4, <1>8 DEF IsExtended
      <3>2. time < Extended => header.time = time
        BY <1>4, <1>8
      <3>3. ~(time < Extended) => header.time >= Extended
        BY <1>4, <1>8, Constants
      <3> QED BY <1>4, <1>8, <3>1, <3>2, <3>3 DEF Timestamp, TimestampDelta
    <2> QED BY <1>4, <1>8, <2>2, <2>3 DEF time
  <1>9. CASE \E fmt \in {1, 2} :
               header = h(fmt) /\ p = [begun EXCEPT !.delta = delta] /\ (fmt = 2 => same)
    <2>0. PICK fmt \in {1, 2} :
               header = h(fmt) /\ p = [begun EXCEPT !.delta = delta] /\ (fmt = 2 => same)
      BY <1>9
    <2>1. fmt \in 0..3
      OBVIOUS
    <2>2. /\ p \in PeerType /\ p.left = length /\ p.length = length /\ p.type = type
          /\ p.time = time /\ p.delta = delta
      BY <1>1, <1>6, <2>0
    <2>3. /\ ChunkOK(header) /\ Cid(header.basic) = cid /\ Fmt(header.basic) = fmt
          /\ header.length = length /\ header.type = type /\ header.time = delta
      BY <1>5, <2>0, <2>1
    <2>4. ASSUME NEW s, s.timestamp = old.time
          PROVE  ~IsExtended(s, header) => /\ Timestamp(s, header) = time
                                           /\ TimestampDelta(s, header) = delta
      BY <1>2, <2>3, <2>4 DEF Timestamp, TimestampDelta
    <2> QED BY <2>0, <2>2, <2>3, <2>4 DEF time
  <1>10. CASE same /\ delta = old.delta /\ header = h(3) /\ p = begun
    <2>1. 3 \in 0..3
      OBVIOUS
    <2>2. /\ p \in PeerType /\ p.left = length /\ p.length = length /\ p.type = type
          /\ p.time = time /\ p.delta = delta
      BY <1>3, <1>10
    <2>3. /\ ChunkOK(header) /\ Cid(header.basic) = cid /\ Fmt(header.basic) = 3
      BY <1>5, <1>10, <2>1
    <2>4. ASSUME NEW s, s.timestamp = old.time, s.timestamp_delta = old.delta,
                 IsFirstChunk(s)
          PROVE  ~IsExtended(s, header) => /\ Timestamp(s, header) = time
                                           /\ TimestampDelta(s, header) = delta
      BY <1>2, <1>10, <2>3, <2>4 DEF Timestamp, TimestampDelta
    <2> QED BY <1>10, <2>2, <2>3, <2>4 DEF time
  <1> QED BY <1>7, <1>8, <1>9, <1>10

LEMMA StartChooses ==
    ASSUME NEW cid \in Cids, NEW type \in Types, NEW length \in Lengths, NEW delta \in Deltas,
           StartMessage(cid, type, length, delta)
    PROVE  \E p, header :
              /\ StartsWith(cid, peer[cid], p, header, type, length, delta)
              /\ SendsChunk(cid, p, header, count + 1)
  <1> DEFINE old == peer[cid]
             id == count + 1
             time == (old.time + delta) % Wrap
             begun == [old EXCEPT !.type = type, !.length = length, !.time = time,
                                  !.left = length]
             same == old.used /\ type = old.type /\ length = old.length
             h(fmt) == Chunk(Basic(fmt, cid), IF fmt = 3 THEN 0 ELSE delta, length, type,
                             FALSE)
             c0 == WithCid(C0(cid, time, length, type), 0, cid)
             p0 == [begun EXCEPT !.delta = 0]
             p1 == [begun EXCEPT !.delta = delta]
  <1>1. \/ SendsChunk(cid, p0, c0, id)
        \/ SendsChunk(cid, p1, h(1), id)
        \/ same /\ SendsChunk(cid, p1, h(2), id)
        \/ same /\ delta = old.delta /\ SendsChunk(cid, begun, h(3), id)
    BY DEF StartMessage
  <1>2. /\ StartsWith(cid, old, p0, c0, type, length, delta)
        /\ StartsWith(cid, old, p1, h(1), type, length, delta)
        /\ same => StartsWith(cid, old, p1, h(2), type, length, delta)
        /\ same /\ delta = old.delta => StartsWith(cid, old, begun, h(3), type, length, delta)
    BY Zenon DEF StartsWith
  <1> HIDE DEF old, id, same, h, c0, p0, p1, begun
  <1> QED BY <1>1, <1>2, Zenon DEF old, id

\* What a header says of time depends on its basic header and its time only.
LEMMA SameTime ==
    ASSUME NEW s, NEW c, NEW d, c.basic = d.basic, c.time = d.time
    PROVE  /\ IsExtended(s, c) = IsExtended(s, d)
           /\ Timestamp(s, c) = Timestamp(s, d)
           /\ TimestampDelta(s, c) = TimestampDelta(s, d)
  BY DEF IsExtended, Timestamp, TimestampDelta

LEMMA StartKeeps ==
    ASSUME Typed, InStep, NEW cid \in Cids, NEW type \in Types, NEW length \in Lengths,
           NEW delta \in Deltas, StartMessage(cid, type, length, delta)
    PROVE  Typed' /\ InStep'
  <1> DEFINE old == peer[cid]
             id == count + 1
             time == (old.time + delta) % Wrap
             message == [type |-> type, time |-> time,
                         payload |-> [i \in 1..length |-> <<id, i>>]]
  <1>1. /\ old.left = 0 /\ count < MaxMessages /\ count' = id
        /\ sent' = [sent EXCEPT ![cid] = IF length = 0 THEN @ ELSE Append(@, message)]
        /\ peer_chunk' = peer_chunk /\ chunks' = chunks /\ in_chunk_size' = in_chunk_size
        /\ at' = at /\ received' = received
    BY DEF StartMessage
  <1>2. /\ sent \in [Cids -> Seq(Messages)] /\ peer \in [Cids -> PeerType]
        /\ old \in PeerType /\ count \in 0..MaxMessages
        /\ \A k \in Cids : PeerOK(peer[k], sent[k])
    BY DEF Typed
  <1>3. length \in Nat /\ id \in 1..MaxMessages
    BY <1>1, <1>2, Constants
  <1>4. PICK p, header : /\ StartsWith(cid, old, p, header, type, length, delta)
                         /\ SendsChunk(cid, p, header, id)
    BY StartChooses
  <1> HIDE DEF id
  <1>5. /\ ChunkOK(header) /\ Cid(header.basic) = cid
        /\ p \in PeerType /\ p.left = length /\ p.length = length /\ p.type = type
        /\ p.time = time
        /\ \A s :
              /\ StreamOK(s) /\ IsFirstChunk(s) /\ ~s.extended
              /\ s.timestamp = old.time /\ s.timestamp_delta = old.delta
              /\ s.payload_length = old.length /\ s.type = old.type
              => /\ ~IsExtended(s, header)
                      => /\ Timestamp(s, header) = p.time
                         /\ TimestampDelta(s, header) = p.delta
                 /\ length = IF Fmt(header.basic) <= 1 THEN header.length
                             ELSE s.payload_length
                 /\ type = IF Fmt(header.basic) <= 1 THEN header.type ELSE s.type
    BY <1>2, <1>4, StartFits
  <1> HIDE DEF time
  <1> DEFINE c == Carries(header, p, id)
             f == Further(p, c)
  <1>6. /\ ChunkOK(c) /\ wire' = Append(wire, c)
        /\ c.payload = Payload(id, p.length, p.left)
        /\ c.basic = header.basic /\ c.time = header.time
        /\ c.length = header.length /\ c.type = header.type
        /\ wire' \in Seq(ChunkType) /\ Len(wire') <= MaxWire
        /\ \A i \in 1..Len(wire') : ChunkOK(wire'[i])
        /\ peer' = [peer EXCEPT ![cid] = f]
        /\ peer' \in [Cids -> PeerType]
        /\ f \in PeerType /\ f.left <= f.length /\ f.used /\ f.left <= p.left
        /\ f.type = p.type /\ f.time = p.time /\ f.length = p.length
    <2>1. p.left <= p.length
      BY <1>3, <1>5
    <2>2. ChunkOK(header) /\ p \in PeerType /\ id \in 1..MaxMessages
      BY <1>3, <1>5
    <2>3. SendsChunk(cid, p, header, id)
      BY <1>4
    <2> QED BY <2>1, <2>2, <2>3, SentIsTyped
  <1> HIDE DEF c
  <1>7. message = Whole(p, id) /\ message \in Messages
    <2>1. message = [type |-> type, time |-> time, payload |-> FirstBytes(id, length)]
      BY DEF FirstBytes
    <2>2. p.time \in Times
      BY <1>5 DEF PeerType
    <2>3. FirstBytes(id, length) \in Seq(Byte)
      BY <1>3, FirstBytesType
    <2> HIDE DEF message
    <2>4. message \in [type: Types, time: Times, payload: Seq(Byte)]
      BY <1>5, <2>1, <2>2, <2>3
    <2> QED BY <1>5, <2>1, <2>4, MessagesAreBytes DEF Whole
  <1> HIDE DEF message
  <1>8. /\ sent'[cid] = IF length = 0 THEN sent[cid] ELSE Append(sent[cid], message)
        /\ \A k \in Cids : k # cid => sent'[k] = sent[k]
        /\ sent' \in [Cids -> Seq(Messages)]
    BY <1>1, <1>2, <1>7
  <1>9. PeerOK(f, sent'[cid])
    <2>1. ASSUME f.left > 0
          PROVE  /\ sent'[cid] # <<>>
                 /\ sent'[cid][Len(sent'[cid])]
                      = [type |-> f.type, time |-> f.time,
                         payload |-> [i \in 1..f.length |-> <<id, i>>]]
      <3>1. length # 0
        BY <1>3, <1>5, <1>6, <2>1 DEF PeerType
      <3>2. sent'[cid] = Append(sent[cid], Whole(p, id))
        BY <1>7, <1>8, <3>1
      <3>3. sent'[cid] # <<>> /\ sent'[cid][Len(sent'[cid])] = Whole(p, id)
        <4>1. sent[cid] \in Seq(Messages) /\ Whole(p, id) \in Messages
          BY <1>2, <1>7
        <4> QED BY <3>2, <4>1
      <3> QED BY <1>6, <3>3 DEF Whole, FirstBytes
    <2> HIDE DEF f
    <2> QED BY <1>3, <1>6, <2>1 DEF PeerOK, IsBegun
  <1>10. \A k \in Cids : PeerOK(peer'[k], sent'[k])
    <2>1. ASSUME NEW k \in Cids
          PROVE  PeerOK(peer'[k], sent'[k])
      <3>1. CASE k = cid
        BY <1>2, <1>6, <1>9, <3>1
      <3>2. CASE k # cid
        BY <1>2, <1>6, <1>8, <3>2
      <3> QED BY <3>1, <3>2
    <2> QED BY <2>1
  <1>11. Typed'
    BY <1>1, <1>3, <1>6, <1>8, <1>10 DEF Typed
  <1>12. FitsChain(c)
    <2>1. ASSUME NEW s, NEW r, StreamOK(s), r \in Seq(Messages),
                 CaughtUp(s, r, peer[cid], sent[cid])
          PROVE  /\ sent'[cid] = IF p.length = 0 THEN r ELSE Append(r, Whole(p, id))
                 /\ ~Refused(s, c) /\ ~OutOfStep(Headed(s, c), c)
                      => IsHalf(Headed(s, c), p, id)
      <3>1. /\ IsFirstChunk(s) /\ r = sent[cid] /\ ~s.extended
            /\ s.timestamp = old.time /\ s.timestamp_delta = old.delta
            /\ s.payload_length = old.length /\ s.type = old.type
        BY <1>1, <2>1 DEF CaughtUp
      <3>2. sent'[cid] = IF p.length = 0 THEN r ELSE Append(r, Whole(p, id))
        BY <1>5, <1>7, <1>8, <3>1
      <3>3. /\ ~IsExtended(s, c) => Timestamp(s, c) = p.time /\ TimestampDelta(s, c) = p.delta
            /\ p.length = IF Fmt(c.basic) <= 1 THEN c.length ELSE s.payload_length
            /\ p.type = IF Fmt(c.basic) <= 1 THEN c.type ELSE s.type
        <4>1. /\ ~IsExtended(s, header) => /\ Timestamp(s, header) = p.time
                                            /\ TimestampDelta(s, header) = p.delta
              /\ length = IF Fmt(header.basic) <= 1 THEN header.length
                          ELSE s.payload_length
              /\ type = IF Fmt(header.basic) <= 1 THEN header.type ELSE s.type
          BY <1>5, <2>1, <3>1, Zenon
        <4>2. /\ IsExtended(s, c) = IsExtended(s, header)
              /\ Timestamp(s, c) = Timestamp(s, header)
              /\ TimestampDelta(s, c) = TimestampDelta(s, header)
          BY <1>6, SameTime
        <4>3. Fmt(c.basic) = Fmt(header.basic)
          BY <1>6
        <4> QED BY <1>5, <1>6, <4>1, <4>2, <4>3
      <3>4. ~OutOfStep(Headed(s, c), c) => IsHalf(Headed(s, c), p, id)
        BY <1>3, <1>5, <1>6, <2>1, <3>1, <3>3, StartIsHalf
      <3> QED BY <3>2, <3>4
    <2>2. sent'[cid] = sent[cid] \/ \E m : sent'[cid] = Append(sent[cid], m)
      BY <1>8
    <2>3. Cid(c.basic) = cid /\ p.left <= p.length
      BY <1>3, <1>5, <1>6
    <2> QED BY <1>3, <1>5, <1>6, <1>8, <2>1, <2>2, <2>3, SentFits DEF Further
  <1>13. \A k \in Cids : sent'[k] = sent[k] \/ \E m : sent'[k] = Append(sent[k], m)
    BY <1>8
  <1>14. Reader' = Reader
    BY <1>1 DEF Reader
  <1>15. InStep'
    BY <1>1, <1>6, <1>12, <1>13, <1>14, ChainGrows
  <1> QED BY <1>11, <1>15

\* The message that is being sent, as it is known to the peer.
LEMMA BegunIs ==
    ASSUME Typed, NEW cid \in Cids, peer[cid].left > 0
    PROVE  /\ CurrentId(cid) \in 1..MaxMessages
           /\ sent[cid] # <<>>
           /\ sent[cid][Len(sent[cid])] = Whole(peer[cid], CurrentId(cid))
           /\ peer[cid] \in PeerType /\ peer[cid].left <= peer[cid].length /\ peer[cid].used
  <1> DEFINE p == peer[cid]
             q == sent[cid]
  <1>1. p \in PeerType /\ PeerOK(p, q) /\ p.left > 0
    BY DEF Typed
  <1>2. p.length \in Nat /\ p.left <= p.length /\ p.length >= 1
    <2>1. p.left <= p.length
      BY <1>1 DEF PeerOK
    <2>2. p.length \in Nat /\ p.left \in 0..p.length
      BY <1>1, <2>1, PeerLeft
    <2> QED BY <1>1, <2>1, <2>2
  <1> HIDE DEF p, q
  <1>3. PICK id \in 1..MaxMessages :
          q[Len(q)] = [type |-> p.type, time |-> p.time,
                       payload |-> [i \in 1..p.length |-> <<id, i>>]]
    BY <1>1 DEF PeerOK, IsBegun
  <1>4. q[Len(q)].payload = [i \in 1..p.length |-> <<id, i>>]
    BY <1>3
  <1>5. 1 \in 1..p.length
    BY <1>2
  <1>6. q[Len(q)].payload[1] = <<id, 1>>
    BY <1>4, <1>5
  <1>7. q[Len(q)].payload[1][1] = id
    BY <1>6
  <1>8. CurrentId(cid) = id
    BY <1>7 DEF CurrentId, q
  <1>9. q[Len(q)] = Whole(p, id)
    BY <1>3 DEF Whole, FirstBytes
  <1> QED BY <1>1, <1>2, <1>8, <1>9 DEF PeerOK, IsBegun, p, q

LEMMA ContinueKeeps ==
    ASSUME Typed, InStep, NEW cid \in Cids, ContinueMessage(cid)
    PROVE  Typed' /\ InStep'
  <1> DEFINE p == peer[cid]
             id == CurrentId(cid)
             header == WithCid(C3(cid, p.time), 3, cid)
  <1>1. /\ p.left > 0 /\ SendsChunk(cid, p, header, id)
        /\ peer_chunk' = peer_chunk /\ sent' = sent /\ count' = count
        /\ chunks' = chunks /\ in_chunk_size' = in_chunk_size
        /\ at' = at /\ received' = received
    BY DEF ContinueMessage
  <1>2. /\ sent \in [Cids -> Seq(Messages)] /\ peer \in [Cids -> PeerType]
        /\ \A k \in Cids : PeerOK(peer[k], sent[k])
    BY DEF Typed
  <1>3. /\ id \in 1..MaxMessages /\ sent[cid] # <<>>
        /\ sent[cid][Len(sent[cid])] = Whole(p, id)
        /\ p \in PeerType /\ p.left <= p.length /\ p.used
    BY <1>1, BegunIs
  <1>4. p.length \in Nat /\ p.left \in 0..p.length
    BY <1>3, PeerLeft
  <1>5. ChunkOK(header) /\ Cid(header.basic) = cid /\ Fmt(header.basic) = 3
    <2>1. /\ p.time \in Times /\ "media" \in Types /\ 0 \in Sizes /\ 0 \in 0..Extended
          /\ 3 \in 0..3
      BY <1>3, Constants DEF PeerType, Types, Sizes
    <2>2. IsHeader(header, cid, 3, 0, 0, "media")
      BY <2>1, HeadersAreChunks, Zenon
    <2> HIDE DEF header
    <2> QED BY <2>2 DEF IsHeader
  <1> HIDE DEF id, header
  <1> DEFINE c == Carries(header, p, id)
             f == Further(p, c)
  <1>6. /\ ChunkOK(c) /\ wire' = Append(wire, c)
        /\ c.payload = Payload(id, p.length, p.left)
        /\ c.basic = header.basic
        /\ wire' \in Seq(ChunkType) /\ Len(wire') <= MaxWire
        /\ \A i \in 1..Len(wire') : ChunkOK(wire'[i])
        /\ peer' = [peer EXCEPT ![cid] = f]
        /\ peer' \in [Cids -> PeerType]
        /\ f \in PeerType /\ f.left <= f.length /\ f.used
        /\ f.type = p.type /\ f.time = p.time /\ f.length = p.length
    <2> HIDE DEF p
    <2>1. /\ ChunkOK(header) /\ p \in PeerType /\ p.left <= p.length
          /\ id \in 1..MaxMessages /\ SendsChunk(cid, p, header, id)
      BY <1>1, <1>3, <1>5
    <2> QED BY <2>1, SentIsTyped
  <1> HIDE DEF c
  <1>7. PeerOK(f, sent[cid])
    <2>1. sent[cid][Len(sent[cid])]
            = [type |-> f.type, time |-> f.time, payload |-> [i \in 1..f.length |-> <<id, i>>]]
      BY <1>3, <1>6 DEF Whole, FirstBytes
    <2> HIDE DEF f
    <2> QED BY <1>3, <1>6, <2>1 DEF PeerOK, IsBegun
  <1>8. \A k \in Cids : PeerOK(peer'[k], sent'[k])
    <2>1. ASSUME NEW k \in Cids
          PROVE  PeerOK(peer'[k], sent'[k])
      <3>1. CASE k = cid
        BY <1>1, <1>2, <1>6, <1>7, <3>1
      <3>2. CASE k # cid
        BY <1>1, <1>2, <1>6, <3>2
      <3> QED BY <3>1, <3>2
    <2> QED BY <2>1
  <1>9. Typed'
    BY <1>1, <1>6, <1>8 DEF Typed
  <1>10. FitsChain(c)
    <2>1. ASSUME NEW s, NEW r, StreamOK(s), r \in Seq(Messages),
                 CaughtUp(s, r, peer[cid], sent[cid])
          PROVE  /\ sent'[cid] = IF p.length = 0 THEN r ELSE Append(r, Whole(p, id))
                 /\ ~Refused(s, c) /\ ~OutOfStep(Headed(s, c), c)
                      => IsHalf(Headed(s, c), p, id)
      <3>1. /\ ~IsFirstChunk(s) /\ sent[cid] = Append(r, sent[cid][Len(sent[cid])])
            /\ s.timestamp = p.time /\ s.timestamp_delta = p.delta
            /\ s.payload_length = p.length /\ s.type = p.type /\ ~s.extended
            /\ s.msg.size = p.length - p.left
            /\ s.msg.payload = [i \in 1..(p.length - p.left)
                                   |-> sent[cid][Len(sent[cid])].payload[i]]
        BY <1>1, <2>1 DEF CaughtUp
      <3>2. sent'[cid] = Append(r, Whole(p, id)) /\ p.length # 0
        BY <1>1, <1>3, <1>4, <3>1
      <3>3. s.msg.payload = FirstBytes(id, p.length - p.left)
        <4>1. \A i \in 1..(p.length - p.left) :
                sent[cid][Len(sent[cid])].payload[i] = <<id, i>>
          BY <1>3, <1>4 DEF Whole, FirstBytes
        <4> QED BY <3>1, <4>1 DEF FirstBytes
      <3> DEFINE h == Headed(s, c)
      <3>4. /\ h.timestamp = Timestamp(s, c) /\ h.timestamp_delta = TimestampDelta(s, c)
            /\ h.extended = IsExtended(s, c)
            /\ h.payload_length = IF Fmt(c.basic) <= 1 THEN c.length ELSE s.payload_length
            /\ h.type = IF Fmt(c.basic) <= 1 THEN c.type ELSE s.type
            /\ h.count = 1
            /\ h.msg = IF IsFirstChunk(s) THEN [size |-> 0, room |-> 0, payload |-> <<>>]
                       ELSE s.msg
        <4>1. s \in Streams /\ c \in ChunkType
          BY <1>6, <2>1 DEF StreamOK, ChunkOK
        <4> QED BY <4>1, HeadedFields
      <3> HIDE DEF h
      <3>5. Fmt(c.basic) = 3
        BY <1>5, <1>6
      <3>6. /\ IsExtended(s, c) = s.extended /\ Timestamp(s, c) = s.timestamp
            /\ TimestampDelta(s, c) = s.timestamp_delta
        BY <3>1, <3>5 DEF IsExtended, Timestamp, TimestampDelta
      <3>7. IsHalf(h, p, id)
        BY <3>1, <3>3, <3>4, <3>5, <3>6 DEF IsHalf
      <3> QED BY <3>2, <3>7 DEF h
    <2>2. /\ \A k \in Cids : k # cid => sent'[k] = sent[k]
          /\ sent'[cid] = sent[cid] \/ \E m : sent'[cid] = Append(sent[cid], m)
      BY <1>1
    <2>3. Cid(c.basic) = cid
      BY <1>5, <1>6
    <2> QED BY <1>3, <1>6, <2>1, <2>2, <2>3, SentFits DEF Further
  <1>11. \A k \in Cids : sent'[k] = sent[k] \/ \E m : sent'[k] = Append(sent[k], m)
    BY <1>1
  <1>12. Reader' = Reader
    BY <1>1 DEF Reader
  <1>13. InStep'
    BY <1>1, <1>6, <1>10, <1>11, <1>12, ChainGrows
  <1> QED BY <1>9, <1>13

\* A chunk that is put on its way by a peer that is confused.
LEMMA ConfusedChunk ==
    ASSUME Typed, InStep, NEW cid \in Cids, NEW c, ChunkOK(c), Cid(c.basic) = cid,
           Len(wire) < MaxWire, wire' = Append(wire, c),
           UNCHANGED <<peerVars, readerVars>>,
           \A s, r : StreamOK(s) /\ CaughtUp(s, r, peer[cid], sent[cid]) => Refused(s, c)
    PROVE  Typed' /\ InStep'
  <1>1. /\ wire \in Seq(ChunkType) /\ \A i \in 1..Len(wire) : ChunkOK(wire[i])
        /\ c \in ChunkType
    BY DEF Typed, ChunkOK
  <1>2. /\ peer' = peer /\ peer_chunk' = peer_chunk /\ sent' = sent /\ count' = count
        /\ chunks' = chunks /\ in_chunk_size' = in_chunk_size
        /\ at' = at /\ received' = received
    BY DEF peerVars, readerVars
  <1>3. /\ wire' \in Seq(ChunkType) /\ Len(wire') = Len(wire) + 1
        /\ wire'[Len(wire) + 1] = c /\ Len(wire) \in Nat
        /\ \A i \in 1..Len(wire) : wire'[i] = wire[i]
    BY <1>1
  <1>4. \A i \in 1..Len(wire') : ChunkOK(wire'[i])
    <2>1. ASSUME NEW i \in 1..Len(wire')
          PROVE  ChunkOK(wire'[i])
      <3>1. CASE i = Len(wire) + 1
        BY <1>3, <3>1
      <3>2. CASE i # Len(wire) + 1
        <4>1. i \in 1..Len(wire)
          BY <1>3, <3>2
        <4> QED BY <1>1, <1>3, <4>1
      <3> QED BY <3>1, <3>2
    <2> QED BY <2>1
  <1>5. Len(wire') <= MaxWire
    BY <1>3, Constants
  <1>6. Typed'
    BY <1>2, <1>3, <1>4, <1>5 DEF Typed
  <1>7. FitsChain(c)
    BY <1>2, ConfusedFits
  <1>8. Reader' = Reader
    BY <1>2 DEF Reader
  <1>9. InStep'
    BY <1>2, <1>7, <1>8, ChainGrows
  <1> QED BY <1>6, <1>9

LEMMA ConfusedKeeps ==
    ASSUME Typed, InStep, NEW cid \in Cids, NEW fmt \in 0..3, NEW length \in Lengths,
           Confused(cid, fmt, length)
    PROVE  Typed' /\ InStep'
  <1> DEFINE p == peer[cid]
             chunk == Chunk(Basic(fmt, cid), 0, length, p.type, FALSE)
             left == length - (p.length - p.left)
             long == [chunk EXCEPT !.payload = Payload(CurrentId(cid), length, left)]
  <1>1. p \in PeerType /\ length \in Nat /\ length \in Sizes
    BY Constants DEF Typed, Sizes
  <1>2. /\ ChunkOK(chunk) /\ Cid(chunk.basic) = cid /\ Fmt(chunk.basic) = fmt
        /\ chunk.length = length
    <2>1. 0 \in Times /\ p.type \in Types /\ 0 \in 0..Extended
      BY <1>1, Constants DEF PeerType, Times
    <2>2. chunk = Chunk(Basic(fmt, cid), IF fmt = 3 THEN 0 ELSE 0, length, p.type, FALSE)
      OBVIOUS
    <2> HIDE DEF chunk, p
    <2>3. IsHeader(Chunk(Basic(fmt, cid), IF fmt = 3 THEN 0 ELSE 0, length, p.type, FALSE),
                   cid, fmt, IF fmt = 3 THEN 0 ELSE 0, length, p.type)
      BY <1>1, <2>1, HeadersAreChunks, Zenon
    <2> QED BY <2>2, <2>3 DEF IsHeader
  <1> HIDE DEF chunk
  <1>3. /\ Len(wire) < MaxWire
        /\ UNCHANGED <<peerVars, readerVars>>
        /\ \/ ~p.used /\ fmt \in {2, 3} /\ wire' = Append(wire, chunk)
           \/ /\ p.left > 0
              /\ fmt = 0 \/ (fmt = 1 /\ length > p.length)
              /\ left > 0
              /\ wire' = Append(wire, long)
    BY DEF Confused, chunk
  <1>4. CASE ~p.used /\ fmt \in {2, 3} /\ wire' = Append(wire, chunk)
    <2>1. ASSUME NEW s, NEW r, CaughtUp(s, r, peer[cid], sent[cid])
          PROVE  Refused(s, chunk)
      <3>1. s.count = 0
        BY <1>4, <2>1 DEF CaughtUp
      <3> QED BY <1>2, <1>4, <3>1 DEF Refused, StartRefused
    <2> QED BY <1>2, <1>3, <1>4, <2>1, ConfusedChunk
  <1>5. CASE /\ p.left > 0
             /\ fmt = 0 \/ (fmt = 1 /\ length > p.length)
             /\ left > 0
             /\ wire' = Append(wire, long)
    <2>1. /\ CurrentId(cid) \in 1..MaxMessages /\ p.left <= p.length
          /\ peer_chunk \in ChunkSizes
      BY <1>5, BegunIs DEF Typed
    <2>2. p.length \in Nat /\ p.left \in 0..p.length
      BY <1>1, <2>1, PeerLeft
    <2>3. left \in 0..length
      BY <1>1, <1>5, <2>2
    <2>4. Payload(CurrentId(cid), length, left) \in Seq(Byte)
      BY <1>1, <2>1, <2>3, PayloadIs
    <2>5. /\ ChunkOK(long) /\ Cid(long.basic) = cid /\ Fmt(long.basic) = fmt
          /\ long.length = length
      BY <1>2, <2>4 DEF ChunkOK, ChunkType
    <2> HIDE DEF long, left
    <2>6. ASSUME NEW s, NEW r, CaughtUp(s, r, peer[cid], sent[cid])
          PROVE  Refused(s, long)
      <3>1. ~IsFirstChunk(s) /\ s.payload_length = p.length
        BY <1>5, <2>6 DEF CaughtUp
      <3>2. CASE fmt = 0
        BY <2>5, <3>1, <3>2 DEF Refused, StartRefused
      <3>3. CASE fmt = 1 /\ length > p.length
        <4>1. s.payload_length # long.length
          BY <1>1, <2>2, <2>5, <3>1, <3>3
        <4> QED BY <2>5, <3>1, <3>3, <4>1 DEF Refused, LengthRefused
      <3> QED BY <1>5, <3>2, <3>3
    <2> QED BY <1>3, <1>5, <2>5, <2>6, ConfusedChunk
  <1> QED BY <1>3, <1>4, <1>5

-----------------------------------------------------------------------------
(* The reader's steps, and all of them.                                      *)

LEMMA ReaderIsTyped ==
    /\ Typed => ReaderTyped(Reader)
    /\ Typed' => ReaderTyped(Reader')
  BY DEF Typed, ReaderTyped, Reader

LEMMA RecvKeeps ==
    ASSUME Typed, InStep, Recv
    PROVE  Typed' /\ InStep'
  <1>1. /\ wire # <<>> /\ wire' = Tail(wire) /\ in_chunk_size' = in_chunk_size
        /\ peer' = peer /\ peer_chunk' = peer_chunk /\ sent' = sent /\ count' = count
    BY DEF Recv, peerVars
  <1>2. /\ wire \in Seq(ChunkType) /\ \A i \in 1..Len(wire) : ChunkOK(wire[i])
        /\ Len(wire) <= MaxWire /\ in_chunk_size \in ChunkSizes
    BY DEF Typed
  <1>3. /\ Head(wire) = wire[1] /\ 1 \in 1..Len(wire)
        /\ wire' \in Seq(ChunkType) /\ Len(wire') = Len(wire) - 1
        /\ \A i \in 1..(Len(wire) - 1) : wire'[i] = wire[i + 1]
    BY <1>1, <1>2
  <1>4. \A i \in 1..Len(wire') : ChunkOK(wire'[i])
    <2>1. ASSUME NEW i \in 1..Len(wire')
          PROVE  ChunkOK(wire'[i])
      <3>1. i + 1 \in 1..Len(wire) /\ wire'[i] = wire[i + 1]
        BY <1>2, <1>3
      <3> QED BY <1>2, <3>1
    <2> QED BY <2>1
  <1>5. Len(wire') <= MaxWire
    BY <1>2, <1>3, Constants
  <1>6. ReaderTyped(Reader')
    <2>1. ChunkOK(Head(wire))
      BY <1>2, <1>3
    <2>2. Reader' = After(Reader, Head(wire))
      BY RecvIsAfter
    <2> QED BY <1>2, <2>1, <2>2, ReaderIsTyped, AfterIsTyped
  <1>7. /\ chunks' \in [Cids -> Streams] /\ \A cid \in Cids : StreamOK(chunks'[cid])
        /\ at' \in {"read", "failed", "lost"} /\ received' \in [Cids -> Seq(Messages)]
    <2>1. Reader' = [at |-> at', chunks |-> chunks', received |-> received']
      BY DEF Reader
    <2>2. Reader'.at = at' /\ Reader'.chunks = chunks' /\ Reader'.received = received'
      BY <2>1
    <2> QED BY <1>6, <2>2 DEF ReaderTyped
  <1>8. Typed'
    BY <1>1, <1>2, <1>3, <1>4, <1>5, <1>7 DEF Typed
  <1> QED BY <1>8, RecvInStep

LEMMA RecvFailsKeeps ==
    ASSUME Typed, InStep, RecvFails
    PROVE  Typed' /\ InStep'
  <1>1. /\ at' = "failed" /\ in_chunk_size' = in_chunk_size /\ received' = received
        /\ peer' = peer /\ peer_chunk' = peer_chunk /\ sent' = sent /\ count' = count
        /\ wire' = wire
    BY DEF RecvFails, peerVars
  <1>2. /\ chunks \in [Cids -> Streams] /\ \A cid \in Cids : StreamOK(chunks[cid])
        /\ wire \in Seq(ChunkType) /\ \A i \in 1..Len(wire) : ChunkOK(wire[i])
    BY DEF Typed
  <1>3. chunks' \in [Cids -> Streams] /\ \A cid \in Cids : StreamOK(chunks'[cid])
    <2> DEFINE c == Head(wire)
               cid == Cid(c.basic)
    <2>1. CASE chunks' = chunks
      BY <1>2, <2>1
    <2>2. CASE /\ wire # <<>> /\ ~Refused(chunks[cid], c)
               /\ \/ chunks' = [chunks EXCEPT ![cid] = Opened(@)]
                  \/ chunks' = [chunks EXCEPT ![cid] = Headed(@, c)]
      <3>1. ChunkOK(c) /\ cid \in Cids
        <4>1. c = wire[1] /\ 1 \in 1..Len(wire)
          BY <1>2, <2>2
        <4>2. ChunkOK(c)
          BY <1>2, <4>1
        <4> QED BY <4>2 DEF ChunkOK
      <3> HIDE DEF c, cid
      <3>2. PICK s : /\ s \in {Opened(chunks[cid]), Headed(chunks[cid], c)}
                     /\ chunks' = [chunks EXCEPT ![cid] = s]
        BY <2>2
      <3>3. StreamOK(s)
        <4>1. StreamOK(chunks[cid])
          BY <1>2, <3>1
        <4> QED BY <2>2, <3>1, <3>2, <4>1, OpenedIsOK, HeadedIsOK
      <3> QED BY <1>2, <3>1, <3>2, <3>3, StreamReplaced
    <2> QED BY <2>1, <2>2 DEF RecvFails
  <1>4. Typed'
    BY <1>1, <1>3 DEF Typed
  <1>5. InStep'
    <2>1. PICK n, st : Follows(n, st)
      BY DEF InStep
    <2>2. Arrived(Reader)
      <3>1. 0 \in 0..n
        BY <2>1 DEF Follows
      <3> QED BY <2>1, <3>1 DEF Follows
    <2>3. PICK r : r = Reader'
      OBVIOUS
    <2>4. r.at = "failed" /\ r.received = Reader.received
      BY <1>1, <2>3 DEF Reader
    <2>5. Arrived(r)'
      BY <1>1, <2>2, <2>4 DEF Arrived
    <2>6. ReaderTyped(r)
      BY <1>4, <2>3, ReaderIsTyped
    <2>7. PICK tt : tt = [i \in {0} |-> r]
      OBVIOUS
    <2>8. tt[0] = r /\ 0 \in Nat /\ 0 <= Len(wire)'
      BY <1>1, <1>2, <2>7
    <2>9. /\ \A i \in 0..0 : ReaderTyped(tt[i]) /\ Arrived(tt[i])'
          /\ \A i \in 1..0 : Takes(i, tt)'
      BY <2>5, <2>6, <2>8
    <2> QED BY <2>3, <2>4, <2>8, <2>9, IntoStep
  <1> QED BY <1>4, <1>5

LEMMA ChangeKeeps ==
    ASSUME Typed, InStep, NEW size \in ChunkSizes, ChangeChunkSize(size)
    PROVE  Typed' /\ InStep'
  <1>1. /\ peer_chunk' = size /\ peer' = peer /\ sent' = sent /\ count' = count
        /\ wire' = wire /\ chunks' = chunks /\ in_chunk_size' = in_chunk_size
        /\ at' = at /\ received' = received
    BY DEF ChangeChunkSize
  <1>2. Typed'
    BY <1>1 DEF Typed
  <1>3. Reader' = Reader
    BY <1>1 DEF Reader
  <1> QED BY <1>1, <1>2, <1>3, ChainStays

LEMMA StutterKeeps ==
    ASSUME Typed, InStep, UNCHANGED vars
    PROVE  Typed' /\ InStep'
  <1>1. /\ peer_chunk' = peer_chunk /\ peer' = peer /\ sent' = sent /\ count' = count
        /\ wire' = wire /\ chunks' = chunks /\ in_chunk_size' = in_chunk_size
        /\ at' = at /\ received' = received
    BY DEF vars
  <1>2. Typed'
    BY <1>1 DEF Typed
  <1>3. Reader' = Reader
    BY <1>1 DEF Reader
  <1> QED BY <1>1, <1>2, <1>3, ChainStays

LEMMA InitHolds == Init => IInv
  <1> SUFFICES ASSUME Init PROVE IInv
    OBVIOUS
  <1>1. FreshStream \in Streams /\ FreshStream.msg = NoMessage
        /\ FreshStream.payload_length = 0
    <2>1. 0 \in Times /\ 0 \in 0..Extended /\ 0 \in Sizes /\ "media" \in Types
      BY Constants DEF Times, Sizes, Types
    <2> QED BY <2>1, NoMessageIsHalf DEF FreshStream, Streams
  <1>2. StreamOK(FreshStream)
    BY <1>1 DEF StreamOK, IsFirstChunk, NoMessage
  <1>3. NoPeer \in PeerType /\ NoPeer.left = 0 /\ NoPeer.length = 0
    <2>1. 0 \in Times /\ 0 \in 0..Extended /\ 0 \in Sizes /\ "media" \in Types
      BY Constants DEF Times, Sizes, Types
    <2> QED BY <2>1 DEF NoPeer, PeerType
  <1>4. PeerOK(NoPeer, <<>>)
    BY <1>3 DEF PeerOK, IsBegun
  <1>5. /\ wire = <<>> /\ Len(wire) = 0 /\ wire \in Seq(ChunkType) /\ count \in 0..MaxMessages
        /\ 0 <= MaxWire
    BY Constants DEF Init
  <1>6. /\ received \in [Cids -> Seq(Messages)] /\ sent \in [Cids -> Seq(Messages)]
        /\ \A cid \in Cids : received[cid] = <<>> /\ sent[cid] = <<>>
    BY DEF Init
  <1>7. /\ chunks \in [Cids -> Streams] /\ peer \in [Cids -> PeerType]
        /\ \A cid \in Cids : chunks[cid] = FreshStream /\ peer[cid] = NoPeer
    BY <1>1, <1>3 DEF Init
  <1>8. Typed
    BY <1>2, <1>4, <1>5, <1>6, <1>7 DEF Init, Typed
  <1>9. InStep
    <2>1. PICK st : st = [i \in {0} |-> Reader]
      OBVIOUS
    <2>2. st[0] = Reader
      BY <2>1
    <2>3. Reader.chunks = chunks /\ Reader.received = received
      BY DEF Reader
    <2>4. Arrived(Reader)
      <3>1. Len(<<>>) = 0
        OBVIOUS
      <3>2. \A cid \in Cids : Len(received[cid]) = 0 /\ Len(sent[cid]) = 0
        BY <1>6, <3>1
      <3>3. ASSUME NEW cid \in Cids
            PROVE  /\ Len(Reader.received[cid]) <= Len(sent[cid])
                   /\ \A i \in 1..Len(Reader.received[cid]) :
                        Reader.received[cid][i] = sent[cid][i]
        <4>1. Len(Reader.received[cid]) = 0 /\ Len(sent[cid]) = 0
          BY <2>3, <3>2
        <4> QED BY <4>1
      <3> QED BY <3>3 DEF Arrived
    <2>5. Caught(Reader)
      <3>1. CaughtUp(FreshStream, <<>>, NoPeer, <<>>)
        BY DEF CaughtUp, FreshStream, NoPeer, IsFirstChunk
      <3> QED BY <1>6, <1>7, <2>3, <3>1 DEF Caught
    <2>6. ReaderTyped(Reader)
      BY <1>8, ReaderIsTyped
    <2>7. Follows(0, st)
      BY <1>5, <2>2, <2>4, <2>5, <2>6 DEF Follows
    <2> QED BY <2>7 DEF InStep
  <1> QED BY <1>8, <1>9 DEF IInv

LEMMA NextKeeps == IInv /\ [Next]_vars => IInv'
  <1> SUFFICES ASSUME Typed, InStep, [Next]_vars PROVE Typed' /\ InStep'
    BY DEF IInv
  <1>1. CASE Recv
    BY <1>1, RecvKeeps
  <1>2. CASE RecvFails
    BY <1>2, RecvFailsKeeps
  <1>3. ASSUME NEW cid \in Cids, ContinueMessage(cid)
        PROVE  Typed' /\ InStep'
    BY <1>3, ContinueKeeps
  <1>4. ASSUME NEW cid \in Cids, NEW type \in Types, NEW length \in Lengths,
               NEW delta \in Deltas, StartMessage(cid, type, length, delta)
        PROVE  Typed' /\ InStep'
    BY <1>4, StartKeeps
  <1>5. ASSUME NEW cid \in Cids, NEW fmt \in 0..3, NEW length \in Lengths,
               Confused(cid, fmt, length)
        PROVE  Typed' /\ InStep'
    BY <1>5, ConfusedKeeps
  <1>6. ASSUME NEW size \in ChunkSizes, ChangeChunkSize(size)
        PROVE  Typed' /\ InStep'
    BY <1>6, ChangeKeeps
  <1>7. CASE UNCHANGED vars
    BY <1>7, StutterKeeps
  <1> QED BY <1>1, <1>2, <1>3, <1>4, <1>5, <1>6, <1>7, Zenon DEF Next

LEMMA InvariantHolds == Spec => []IInv
  BY InitHolds, NextKeeps, PTL DEF Spec

\* Whatever the peer sends, a half-read message has no more bytes than its
\* header says, and read_message_payload never writes beyond the payload, which
\* was made for the length in an earlier header.
THEOREM TypeCorrect == Spec => []TypeOK
  <1>1. IInv => TypeOK
    BY TypedTypes DEF IInv
  <1> QED BY <1>1, InvariantHolds, PTL

\* The messages that recv_packet gets from a chunk stream are the first of those
\* that the peer sent on it, in their order and with their types, times and
\* payloads, for any number of chunk streams whose chunks interleave, any
\* lengths, and any number of chunks on their way.
THEOREM MessagesArrive == Spec => []ReceivedIsSent
  <1>1. IInv => ReceivedIsSent
    <2> SUFFICES ASSUME InStep PROVE ReceivedIsSent
      BY DEF IInv
    <2>1. PICK n, st : Follows(n, st)
      BY DEF InStep
    <2>2. 0 \in 0..n /\ st[0] = Reader
      BY <2>1 DEF Follows
    <2>3. Arrived(Reader)
      BY <2>1, <2>2 DEF Follows
    <2>4. Reader.received = received
      BY DEF Reader
    <2> QED BY <2>3, <2>4 DEF Arrived, ReceivedIsSent
  <1> QED BY <1>1, InvariantHolds, PTL

=============================================================================
