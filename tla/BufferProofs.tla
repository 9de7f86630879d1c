---------------------------- MODULE BufferProofs ----------------------------
(***************************************************************************)
(* The ring buffer behaves as a queue of bytes, and class Buffer           *)
(* implements one, for every size of its array.                            *)
(***************************************************************************)
EXTENDS Buffer, SequenceTheorems, TLAPS

-----------------------------------------------------------------------------
(* Arithmetic on the positions of a ring of n bytes.                         *)

\* What % gives on the sums the code computes, and the way from p to q.
Wrap(n, x) == IF x < n THEN x ELSE x - n
Way(n, p, q) == IF q >= p THEN q - p ELSE q + n - p

\* One subtraction is enough to reduce what is less than twice the modulus.
LEMMA ModOnce ==
    ASSUME NEW n \in Nat \ {0}, NEW x \in 0..(2 * n - 1)
    PROVE  /\ x % n = Wrap(n, x)
           /\ Wrap(n, x) \in 0..(n - 1)
<1>1. CASE x < n
  BY <1>1, SMT DEF Wrap
<1>2. CASE x >= n
  <2>1. (x - n) % n = x - n
    BY <1>2, SMT
  <2>2. x % n = (x - n) % n
    BY <1>2, SMT
  <2>3. QED BY <1>2, <2>1, <2>2 DEF Wrap
<1>3. QED BY <1>1, <1>2

\* Reading brings the read position nearer to the write position.
LEMMA WayAfterRead ==
    ASSUME NEW n \in Nat \ {0}, NEW p \in 0..(n - 1), NEW q \in 0..(n - 1),
           NEW k \in 0..Way(n, p, q)
    PROVE  Way(n, Wrap(n, p + k), q) = Way(n, p, q) - k
BY DEF Way, Wrap

\* Writing takes the write position further, up to one byte before a full turn.
LEMMA WayAfterWrite ==
    ASSUME NEW n \in Nat \ {0}, NEW p \in 0..(n - 1), NEW q \in 0..(n - 1),
           NEW k \in 0..(n - 1 - Way(n, p, q))
    PROVE  Way(n, p, Wrap(n, q + k)) = Way(n, p, q) + k
BY DEF Way, Wrap

\* Two steps along the ring are one.
LEMMA WrapTwice ==
    ASSUME NEW n \in Nat \ {0}, NEW p \in 0..(n - 1), NEW j \in Nat, NEW k \in Nat,
           j + k <= n
    PROVE  Wrap(n, Wrap(n, p + j) + k) = Wrap(n, p + (j + k))
BY DEF Wrap

\* Walking the way from p to q arrives at q.
LEMMA WayArrives ==
    ASSUME NEW n \in Nat \ {0}, NEW p \in 0..(n - 1), NEW q \in 0..(n - 1)
    PROVE  /\ Way(n, p, q) \in 0..(n - 1)
           /\ Wrap(n, p + Way(n, p, q)) = q
BY DEF Way, Wrap

\* What is written, in one piece or wrapped, misses what can be read.
LEMMA OutOfTheWay ==
    ASSUME NEW n \in Nat \ {0}, NEW p \in 0..(n - 1), NEW q \in 0..(n - 1),
           NEW k \in 1..(n - 1 - Way(n, p, q)), NEW i \in 0..(Way(n, p, q) - 1)
    PROVE  /\ Wrap(n, q + k) >= q => Wrap(n, p + i) \notin q..(q + k - 1)
           /\ Wrap(n, q + k) < q  => /\ Wrap(n, p + i) < q
                                     /\ Wrap(n, p + i) >= Wrap(n, q + k)
BY DEF Way, Wrap

-----------------------------------------------------------------------------
(* The operators without the modulus.                                        *)

\* What can be read and what can be written are together one byte less than
\* the buffer.
LEMMA Lefts ==
    ASSUME NEW B, NEW b, IsRing(b, B)
    PROVE  /\ ReadLeft(b) = Way(b.size, b.rpos, b.wpos)
           /\ WriteLeft(b) = b.size - 1 - ReadLeft(b)
           /\ ReadLeft(b) \in 0..(b.size - 1)
<1> DEFINE n == b.size  p == b.rpos  q == b.wpos
<1>0. n \in Nat \ {0} /\ p \in 0..(n - 1) /\ q \in 0..(n - 1)
  BY DEF IsRing
<1>1. ReadLeft(b) = (q + n - p) % n /\ WriteLeft(b) = (p + n - q - 1) % n
  BY DEF ReadLeft, WriteLeft
<1> HIDE DEF n, p, q
<1>2. (q + n - p) % n = Wrap(n, q + n - p)
  <2> PICK x \in 0..(2 * n - 1) : x = q + n - p
    BY <1>0
  <2>1. QED BY <1>0, ModOnce
<1>3. (p + n - q - 1) % n = Wrap(n, p + n - q - 1)
  <2> PICK x \in 0..(2 * n - 1) : x = p + n - q - 1
    BY <1>0
  <2>1. QED BY <1>0, ModOnce
<1>4. /\ Wrap(n, q + n - p) = Way(n, p, q)
      /\ Wrap(n, p + n - q - 1) = n - 1 - Way(n, p, q)
      /\ Way(n, p, q) \in 0..(n - 1)
  BY <1>0 DEF Way, Wrap
<1>5. /\ ReadLeft(b) = Way(n, p, q)
      /\ WriteLeft(b) = n - 1 - ReadLeft(b)
      /\ ReadLeft(b) \in 0..(n - 1)
  BY <1>1, <1>2, <1>3, <1>4
<1>6. QED BY <1>5 DEF n, p, q

\* The place in the array of what is k bytes after position p.
LEMMA Place ==
    ASSUME NEW n \in Nat \ {0}, NEW p \in 0..(n - 1), NEW k \in 0..n
    PROVE  /\ (p + k) % n = Wrap(n, p + k)
           /\ (p + k) % n \in 0..(n - 1)
<1> PICK x \in 0..(2 * n - 1) : x = p + k
  OBVIOUS
<1>1. QED BY ModOnce

\* The fields of a ring have their types.
LEMMA Fields ==
    ASSUME NEW B, NEW b, IsRing(b, B)
    PROVE  /\ b.size \in Nat \ {0}
           /\ b.rpos \in 0..(b.size - 1)
           /\ b.wpos \in 0..(b.size - 1)
           /\ b.buf \in [0..(b.size - 1) -> B]
BY DEF IsRing

\* The contents are a sequence of bytes, as long as what can be read.
LEMMA ContentsType ==
    ASSUME NEW B, NEW b, IsRing(b, B)
    PROVE  /\ Contents(b) \in Seq(B)
           /\ Len(Contents(b)) = ReadLeft(b)
           /\ \A i \in 1..ReadLeft(b) :
                 Contents(b)[i] = b.buf[Wrap(b.size, b.rpos + (i - 1))]
<1>1. ReadLeft(b) \in 0..(b.size - 1)
  BY Lefts
<1>2. ASSUME NEW i \in 1..ReadLeft(b)
      PROVE  /\ (b.rpos + i - 1) % b.size = Wrap(b.size, b.rpos + (i - 1))
             /\ b.buf[(b.rpos + i - 1) % b.size] \in B
  <2>1. i - 1 \in 0..b.size
    BY <1>1, Fields
  <2>2. (b.rpos + (i - 1)) % b.size = Wrap(b.size, b.rpos + (i - 1))
        /\ (b.rpos + (i - 1)) % b.size \in 0..(b.size - 1)
    BY <2>1, Fields, Place
  <2>3. b.rpos + (i - 1) = b.rpos + i - 1
    BY <2>1, Fields
  <2>4. QED BY <2>2, <2>3, Fields
<1>3. QED BY <1>1, <1>2 DEF Contents

\* Moving the read position k bytes on drops the first k bytes.
LEMMA Advance ==
    ASSUME NEW B, NEW b, IsRing(b, B), NEW k \in 0..ReadLeft(b),
           NEW c, c = [b EXCEPT !.rpos = (@ + k) % b.size]
    PROVE  /\ IsRing(c, B)
           /\ Contents(c) = SubSeq(Contents(b), k + 1, Len(Contents(b)))
<1>1. /\ k \in Nat /\ k \in 0..b.size /\ ReadLeft(b) \in Nat
      /\ ReadLeft(b) = Way(b.size, b.rpos, b.wpos)
      /\ ReadLeft(b) < b.size
  BY Fields, Lefts
<1>2. /\ (b.rpos + k) % b.size = Wrap(b.size, b.rpos + k)
      /\ (b.rpos + k) % b.size \in 0..(b.size - 1)
  BY <1>1, Fields, Place
<1>3. /\ c = [size |-> b.size, buf |-> b.buf, rpos |-> Wrap(b.size, b.rpos + k),
              wpos |-> b.wpos]
      /\ c.size = b.size /\ c.buf = b.buf /\ c.wpos = b.wpos
      /\ c.rpos = Wrap(b.size, b.rpos + k)
  BY <1>2 DEF IsRing
<1>4. IsRing(c, B)
  BY <1>2, <1>3, Fields DEF IsRing
<1>5. ReadLeft(c) = ReadLeft(b) - k
  <2>1. ReadLeft(c) = Way(b.size, Wrap(b.size, b.rpos + k), b.wpos)
    BY <1>3, <1>4, Lefts
  <2>2. k \in 0..Way(b.size, b.rpos, b.wpos)
    BY <1>1
  <2>3. QED BY <1>1, <2>1, <2>2, Fields, WayAfterRead
<1>6. ASSUME NEW i \in 1..(ReadLeft(b) - k)
      PROVE  Contents(c)[i] = Contents(b)[k + i]
  <2>1. i - 1 \in Nat /\ k + i \in 1..ReadLeft(b) /\ k + (i - 1) = k + i - 1
        /\ k + (i - 1) <= b.size
    BY <1>1, Fields
  <2>2. Contents(c)[i] = b.buf[Wrap(b.size, Wrap(b.size, b.rpos + k) + (i - 1))]
    <3>1. i \in 1..ReadLeft(c)
      BY <1>5
    <3>2. Contents(c)[i] = c.buf[Wrap(c.size, c.rpos + (i - 1))]
      BY <1>4, <3>1, ContentsType
    <3>3. QED BY <1>3, <3>2
  <2>3. Contents(b)[k + i] = b.buf[Wrap(b.size, b.rpos + (k + i - 1))]
    BY <2>1, ContentsType
  <2>4. Wrap(b.size, Wrap(b.size, b.rpos + k) + (i - 1))
          = Wrap(b.size, b.rpos + (k + (i - 1)))
    BY <1>1, <2>1, Fields, WrapTwice, SMTT(30)
  <2>5. QED BY <2>1, <2>2, <2>3, <2>4
<1>7. Contents(c) = SubSeq(Contents(b), k + 1, Len(Contents(b)))
  <2> DEFINE s == Contents(b)  t == Contents(c)
             u == SubSeq(s, k + 1, Len(s))
  <2>1. /\ s \in Seq(B) /\ t \in Seq(B)
        /\ Len(s) = ReadLeft(b) /\ Len(t) = ReadLeft(b) - k
    BY <1>4, <1>5, ContentsType
  <2>2. \A i \in 1..(ReadLeft(b) - k) : t[i] = s[k + i]
    BY <1>6
  <2> HIDE DEF s, t
  <2>3. u \in Seq(B) /\ Len(u) = Len(s) - k /\ \A i \in 1..Len(u) : u[i] = s[k + i]
    BY <1>1, <2>1
  <2>4. \A i \in 1..Len(t) : t[i] = u[i]
    BY <2>1, <2>2, <2>3
  <2>5. t = u
    BY <2>1, <2>3, <2>4, SeqEqual
  <2>6. QED BY <2>5 DEF s, t
<1>8. QED BY <1>4, <1>7

\* seek_read skips n bytes that are there, and refuses any other n.
LEMMA SeekReadDrops ==
    ASSUME NEW B, NEW b, IsRing(b, B), NEW n \in Int
    PROVE  /\ IsRing(SeekRead(b, n), B)
           /\ n \in 1..ReadLeft(b)
                => Contents(SeekRead(b, n)) = SubSeq(Contents(b), n + 1, Len(Contents(b)))
           /\ n \notin 1..ReadLeft(b) => SeekRead(b, n) = b
<1>1. CASE n \in 1..ReadLeft(b)
  <2>1. n \in 0..ReadLeft(b) /\ SeekRead(b, n) = [b EXCEPT !.rpos = (@ + n) % b.size]
    BY <1>1, Lefts DEF SeekRead
  <2>2. QED BY <1>1, <2>1, Advance
<1>2. CASE n \notin 1..ReadLeft(b)
  BY <1>2 DEF SeekRead
<1>3. QED BY <1>1, <1>2

\* What read_bytes copies out is the beginning of the contents, wrapped or not,
LEMMA CopyOutIsPrefix ==
    ASSUME NEW B, NEW b, IsRing(b, B), NEW n \in 0..ReadLeft(b)
    PROVE  CopyOut(b, n) = SubSeq(Contents(b), 1, n)
<1>1. /\ ReadLeft(b) \in Nat /\ n \in 0..b.size /\ n < b.size
      /\ b.size \in Nat \ {0} /\ b.rpos \in 0..(b.size - 1)
  BY Lefts, Fields
<1>2. (b.rpos + n) % b.size = Wrap(b.size, b.rpos + n)
  BY <1>1, Place
<1>3. ASSUME NEW i \in 1..n
      PROVE  CopyOut(b, n)[i] = b.buf[Wrap(b.size, b.rpos + (i - 1))]
  <2>1. CASE (b.rpos + n) % b.size < b.rpos
    <3>1. CopyOut(b, n)[i] = IF i <= b.size - b.rpos THEN b.buf[b.rpos + i - 1]
                                                    ELSE b.buf[i - (b.size - b.rpos) - 1]
      BY <2>1 DEF CopyOut
    <3>2. Wrap(b.size, b.rpos + (i - 1))
            = IF i <= b.size - b.rpos THEN b.rpos + i - 1 ELSE i - (b.size - b.rpos) - 1
      BY <1>1 DEF Wrap
    <3>3. QED BY <3>1, <3>2
  <2>2. CASE ~((b.rpos + n) % b.size < b.rpos)
    <3>1. CopyOut(b, n)[i] = b.buf[b.rpos + i - 1]
      BY <2>2 DEF CopyOut
    <3>2. Wrap(b.size, b.rpos + (i - 1)) = b.rpos + i - 1
      BY <1>1, <1>2, <2>2 DEF Wrap
    <3>3. QED BY <3>1, <3>2
  <2>3. QED BY <2>1, <2>2
<1> DEFINE s == Contents(b)  t == CopyOut(b, n)  u == SubSeq(s, 1, n)
<1>4. \A i \in 1..n : t[i] = s[i]
  BY <1>1, <1>3, ContentsType
<1>5. s \in Seq(B) /\ Len(s) = ReadLeft(b)
  BY ContentsType
<1>6. \A i \in 1..n : s[i] \in B
  BY <1>1, <1>5
<1>7. t = [i \in 1..n |-> t[i]]
  BY DEF CopyOut
<1> HIDE DEF s, t
<1>8. t \in Seq(B) /\ Len(t) = n
  BY <1>1, <1>4, <1>6, <1>7
<1>9. u \in Seq(B) /\ Len(u) = n /\ \A i \in 1..n : u[i] = s[i]
  BY <1>1, <1>5
<1>10. t = u
  BY <1>4, <1>8, <1>9, SeqEqual
<1>11. QED BY <1>10 DEF s, t

\* and read_bytes removes just that.
LEMMA ReadBytesTakes ==
    ASSUME NEW B, NEW b, IsRing(b, B), NEW n \in Int
    PROVE  /\ ReadSize(b, n) \in 0..ReadLeft(b)
           /\ IsRing(ReadBytes(b, n), B)
           /\ CopyOut(b, ReadSize(b, n)) \o Contents(ReadBytes(b, n)) = Contents(b)
<1>1. ReadLeft(b) \in Nat
  BY Lefts
<1>2. ReadSize(b, n) \in 0..ReadLeft(b)
  BY <1>1 DEF ReadSize, Lesser
<1> DEFINE k == ReadSize(b, n)  s == Contents(b)
<1>3. /\ IsRing(ReadBytes(b, n), B)
      /\ Contents(ReadBytes(b, n)) = SubSeq(s, k + 1, Len(s))
  <2> HIDE DEF k
  <2>1. ReadBytes(b, n) = [b EXCEPT !.rpos = (@ + k) % b.size]
    BY DEF ReadBytes, k
  <2>2. k \in 0..ReadLeft(b)
    BY <1>2 DEF k
  <2>3. QED BY <2>1, <2>2, Advance
<1>4. CopyOut(b, k) = SubSeq(s, 1, k)
  BY <1>2, CopyOutIsPrefix
<1>5. SubSeq(s, 1, k) \o SubSeq(s, k + 1, Len(s)) = s
  <2>1. s \in Seq(B) /\ Len(s) = ReadLeft(b)
    BY ContentsType
  <2> HIDE DEF k, s
  <2>2. k \in 0..Len(s)
    BY <1>2, <2>1 DEF k
  <2>3. QED BY <2>1, <2>2, SeqEqual
<1>6. QED BY <1>2, <1>3, <1>4, <1>5

\* When the bytes s have been put behind what can be read, and the write
\* position moved past them, they have been appended to the contents.
LEMMA Extend ==
    ASSUME NEW B, NEW b, IsRing(b, B), NEW s \in Seq(B),
           Len(s) \in 1..WriteLeft(b), NEW c, IsRing(c, B),
           c.size = b.size, c.rpos = b.rpos, c.wpos = Wrap(b.size, b.wpos + Len(s)),
           \A i \in 1..ReadLeft(b) :
              LET x == Wrap(b.size, b.rpos + (i - 1)) IN c.buf[x] = b.buf[x],
           \A j \in 1..Len(s) : c.buf[Wrap(b.size, b.wpos + (j - 1))] = s[j]
    PROVE  Contents(c) = Contents(b) \o s
<1>1. /\ ReadLeft(b) \in Nat /\ Len(s) \in Nat
      /\ ReadLeft(b) = Way(b.size, b.rpos, b.wpos)
      /\ WriteLeft(b) = b.size - 1 - ReadLeft(b)
      /\ Len(s) \in 0..(b.size - 1 - Way(b.size, b.rpos, b.wpos))
  BY Lefts, Fields
<1>2. ReadLeft(c) = ReadLeft(b) + Len(s)
  <2>1. ReadLeft(c) = Way(b.size, b.rpos, Wrap(b.size, b.wpos + Len(s)))
    BY Lefts
  <2>2. QED BY <1>1, <2>1, Fields, WayAfterWrite
<1>3. ASSUME NEW i \in 1..ReadLeft(b) PROVE Contents(c)[i] = Contents(b)[i]
  <2>1. i \in 1..ReadLeft(c)
    BY <1>1, <1>2
  <2>2. Contents(c)[i] = c.buf[Wrap(c.size, c.rpos + (i - 1))]
    BY <2>1, ContentsType
  <2>3. Contents(b)[i] = b.buf[Wrap(b.size, b.rpos + (i - 1))]
    BY ContentsType
  <2>4. QED BY <2>2, <2>3
<1>4. ASSUME NEW j \in 1..Len(s) PROVE Contents(c)[ReadLeft(b) + j] = s[j]
  <2>1. ReadLeft(b) + j \in 1..ReadLeft(c)
    BY <1>1, <1>2
  <2>2. Contents(c)[ReadLeft(b) + j]
          = c.buf[Wrap(b.size, b.rpos + (ReadLeft(b) + j - 1))]
    BY <2>1, ContentsType
  <2>3. Wrap(b.size, b.rpos + ReadLeft(b)) = b.wpos
    BY <1>1, Fields, WayArrives
  <2>4. Wrap(b.size, Wrap(b.size, b.rpos + ReadLeft(b)) + (j - 1))
          = Wrap(b.size, b.rpos + (ReadLeft(b) + (j - 1)))
    <3>1. j - 1 \in Nat /\ ReadLeft(b) + (j - 1) <= b.size
      BY <1>1, Fields
    <3>2. b.size \in Nat \ {0} /\ b.rpos \in 0..(b.size - 1)
      BY Fields
    <3> DEFINE m == ReadLeft(b)  l == j - 1
    <3>3. m \in Nat /\ l \in Nat /\ m + l <= b.size
      BY <1>1, <3>1
    <3> HIDE DEF m, l
    <3>4. Wrap(b.size, Wrap(b.size, b.rpos + m) + l) = Wrap(b.size, b.rpos + (m + l))
      BY <3>2, <3>3, WrapTwice
    <3>5. QED BY <3>4 DEF m, l
  <2>5. ReadLeft(b) + (j - 1) = ReadLeft(b) + j - 1
    BY <1>1
  <2>6. QED BY <2>2, <2>3, <2>4, <2>5
<1> DEFINE t == Contents(b)  u == Contents(c)
<1>5. /\ t \in Seq(B) /\ Len(t) = ReadLeft(b)
      /\ u \in Seq(B) /\ Len(u) = Len(t) + Len(s)
  BY <1>2, ContentsType
<1>6. (\A i \in 1..Len(t) : u[i] = t[i]) /\ (\A j \in 1..Len(s) : u[Len(t) + j] = s[j])
  BY <1>3, <1>4, <1>5
<1> HIDE DEF t, u
<1>7. t \o s \in Seq(B) /\ Len(t \o s) = Len(t) + Len(s)
  BY <1>5, ConcatProperties
<1>8. ASSUME NEW i \in 1..(Len(t) + Len(s)) PROVE u[i] = (t \o s)[i]
  <2>1. CASE i <= Len(t)
    BY <1>5, <1>6, <2>1
  <2>2. CASE i > Len(t)
    <3>1. i - Len(t) \in 1..Len(s) /\ Len(t) + (i - Len(t)) = i
      BY <1>1, <1>5, <2>2
    <3>2. u[i] = s[i - Len(t)]
      BY <1>6, <3>1
    <3>3. QED BY <1>1, <1>5, <2>2, <3>1, <3>2
  <2>3. QED BY <1>5, <2>1, <2>2
<1>9. u = t \o s
  BY <1>5, <1>7, <1>8, SeqEqual
<1>10. QED BY <1>9 DEF t, u

\* write_bytes appends, in one piece or wrapped, or refuses and changes nothing.
LEMMA WriteBytesAppends ==
    ASSUME NEW B, NEW b, IsRing(b, B), NEW s \in Seq(B)
    PROVE  /\ IsRing(WriteBytes(b, s), B)
           /\ Len(s) \in 1..WriteLeft(b) => Contents(WriteBytes(b, s)) = Contents(b) \o s
           /\ Len(s) \notin 1..WriteLeft(b) => WriteBytes(b, s) = b
<1>1. CASE Len(s) \notin 1..WriteLeft(b)
  BY <1>1 DEF WriteBytes
<1>2. CASE Len(s) \in 1..WriteLeft(b)
  <2> DEFINE n == b.size  p == b.rpos  q == b.wpos  k == Len(s)
             next == Wrap(n, q + k)
             buf == [i \in 0..(n - 1) |->
                       IF next < q
                       THEN IF i >= q THEN s[i - q + 1]
                            ELSE IF i < next THEN s[n - q + i + 1] ELSE b.buf[i]
                       ELSE IF i \in q..(q + k - 1) THEN s[i - q + 1] ELSE b.buf[i]]
             c == WriteBytes(b, s)
  <2>1. /\ n \in Nat \ {0} /\ p \in 0..(n - 1) /\ q \in 0..(n - 1)
        /\ k \in 1..(n - 1 - Way(n, p, q)) /\ k \in Nat /\ k \in 0..n
        /\ Way(n, p, q) \in 0..(n - 1) /\ ReadLeft(b) = Way(n, p, q)
        /\ b.buf \in [0..(n - 1) -> B]
    <3>1. /\ n \in Nat \ {0} /\ p \in 0..(n - 1) /\ q \in 0..(n - 1)
          /\ b.buf \in [0..(n - 1) -> B]
      BY Fields
    <3>2. Way(n, p, q) \in 0..(n - 1) /\ ReadLeft(b) = Way(n, p, q)
          /\ WriteLeft(b) = n - 1 - Way(n, p, q)
      BY Lefts
    <3>3. k \in 1..(n - 1 - Way(n, p, q))
      BY <1>2, <3>2
    <3> HIDE DEF n, p, q, k
    <3>4. k \in Nat /\ k \in 0..n
      BY <3>1, <3>2, <3>3
    <3>5. QED BY <3>1, <3>2, <3>3, <3>4
  <2>2. (q + k) % n = next /\ next \in 0..(n - 1)
    BY <2>1, Place
  <2>3. c = [size |-> n, buf |-> buf, rpos |-> p, wpos |-> next]
    <3>1. CASE next < q
      BY <1>2, <2>2, <3>1 DEF WriteBytes, StoreWrapped, IsRing
    <3>2. CASE ~(next < q)
      BY <1>2, <2>2, <3>2 DEF WriteBytes, Store, IsRing
    <3>3. QED BY <3>1, <3>2
  <2>4. /\ c.size = n /\ c.rpos = p /\ c.wpos = next /\ c.buf = buf
    BY <2>3
  <2> HIDE DEF c
  <2>5. ASSUME NEW i \in 0..(n - 1) PROVE buf[i] \in B
    <3>1. CASE next < q
      <4>1. i >= q => i - q + 1 \in 1..k
        BY <2>1, <3>1, SMTT(30) DEF Wrap
      <4>2. i < next => n - q + i + 1 \in 1..k
        BY <2>1, <2>2, <3>1, SMTT(30) DEF Wrap
      <4>3. QED BY <2>1, <3>1, <4>1, <4>2
    <3>2. CASE ~(next < q)
      <4>1. i \in q..(q + k - 1) => i - q + 1 \in 1..k
        BY <2>1
      <4>2. QED BY <2>1, <3>2, <4>1
    <3>3. QED BY <3>1, <3>2
  <2>6. IsRing(c, B)
    <3>1. buf \in [0..(n - 1) -> B]
      BY <2>5
    <3>2. QED BY <2>1, <2>2, <2>3, <2>4, <3>1 DEF IsRing
  <2>7. ASSUME NEW i \in 1..ReadLeft(b)
        PROVE  LET x == Wrap(n, p + (i - 1)) IN buf[x] = b.buf[x]
    <3> DEFINE x == Wrap(n, p + (i - 1))
    <3>1. i - 1 \in 0..(Way(n, p, q) - 1)
      BY <2>1
    <3>2. /\ next >= q => x \notin q..(q + k - 1)
          /\ next < q => x < q /\ x >= next
      BY <2>1, <3>1, OutOfTheWay
    <3>3. x \in 0..(n - 1)
      BY <2>1, <3>1, SMTT(30) DEF Wrap
    <3> HIDE DEF x
    <3>4. buf[x] = b.buf[x]
      BY <2>1, <2>2, <3>2, <3>3
    <3>5. QED BY <3>4 DEF x
  <2>8. ASSUME NEW j \in 1..k PROVE buf[Wrap(n, q + (j - 1))] = s[j]
    <3> DEFINE x == Wrap(n, q + (j - 1))
    <3>1. x \in 0..(n - 1)
      BY <2>1 DEF Wrap
    <3>2. CASE next < q
      <4>1. \/ x >= q /\ x - q + 1 = j
            \/ ~(x >= q) /\ x < next /\ n - q + x + 1 = j
        <5>1. k < n /\ j - 1 < k /\ j - 1 \in Nat
          BY <2>1
        <5>2. CASE q + (j - 1) < n
          BY <2>1, <5>1, <5>2 DEF Wrap
        <5>3. CASE ~(q + (j - 1) < n)
          BY <2>1, <3>2, <5>1, <5>3 DEF Wrap
        <5>4. QED BY <5>2, <5>3
      <4>2. QED BY <3>1, <3>2, <4>1
    <3>3. CASE ~(next < q)
      <4>1. x \in q..(q + k - 1) /\ x - q + 1 = j
        BY <2>1, <3>3, SMTT(30) DEF Wrap
      <4>2. QED BY <3>1, <3>3, <4>1
    <3>4. QED BY <3>2, <3>3
  <2> HIDE DEF n, p, q, k, next, buf
  <2>9. Contents(c) = Contents(b) \o s
    BY <1>2, <2>4, <2>6, <2>7, <2>8, Extend DEF n, p, q, k, next
  <2>10. QED BY <1>2, <2>6, <2>9 DEF c
<1>3. QED BY <1>1, <1>2

\* Bytes received at wcurrent() and taken in by seek_write are written as
\* write_bytes would write them.
LEMMA ReceiveIsWrite ==
    ASSUME NEW B, NEW b, IsRing(b, B), NEW s \in Seq(B),
           Len(s) <= ContinuousWriteLeft(b)
    PROVE  SeekWrite(Store(b, s), Len(s)) = WriteBytes(b, s)
<1> DEFINE n == b.size  q == b.wpos  k == Len(s)  c == Store(b, s)
<1>1. /\ n \in Nat \ {0} /\ q \in 0..(n - 1) /\ b.rpos \in 0..(n - 1) /\ k \in Nat
      /\ WriteLeft(b) \in 0..(n - 1)
  BY Fields, Lefts
<1>2. k <= WriteLeft(b) /\ q + k <= n
  <2>1. CASE q >= b.rpos
    BY <1>1, <2>1 DEF ContinuousWriteLeft, Lesser
  <2>2. CASE ~(q >= b.rpos)
    <3>1. WriteLeft(b) = n - 1 - (q + n - b.rpos)
      BY <1>1, <2>2, Lefts DEF Way
    <3>2. QED BY <1>1, <2>2, <3>1 DEF ContinuousWriteLeft
  <2>3. QED BY <2>1, <2>2
<1>3. /\ c.size = n /\ c.wpos = q /\ c.rpos = b.rpos
      /\ c.buf = [i \in 0..(n - 1) |->
                    IF i \in q..(q + k - 1) THEN s[i - q + 1] ELSE b.buf[i]]
      /\ c = [size |-> n, buf |-> c.buf, rpos |-> b.rpos, wpos |-> q]
  <2> DEFINE F == [i \in 0..(n - 1) |->
                    IF i \in q..(q + k - 1) THEN s[i - q + 1] ELSE b.buf[i]]
  <2>1. b = [size |-> n, buf |-> b.buf, rpos |-> b.rpos, wpos |-> q]
    BY DEF IsRing
  <2>2. c = [b EXCEPT !.buf = F]
    BY DEF Store
  <2> HIDE DEF F, c
  <2>3. c = [size |-> n, buf |-> F, rpos |-> b.rpos, wpos |-> q]
    BY <2>1, <2>2
  <2>4. QED BY <2>3 DEF F
<1>4. WriteLeft(c) = WriteLeft(b)
  BY <1>3 DEF WriteLeft
<1>5. CASE k \notin 1..WriteLeft(b)
  <2>1. k = 0
    BY <1>1, <1>2, <1>5
  <2>2. c.buf = b.buf
    <3>1. c.buf = [i \in 0..(n - 1) |-> b.buf[i]]
      BY <1>1, <1>3, <2>1
    <3>2. b.buf = [i \in 0..(n - 1) |-> b.buf[i]]
      BY Fields
    <3>3. QED BY <3>1, <3>2
  <2>3. c = b
    BY <1>3, <2>2 DEF IsRing
  <2>4. QED BY <1>5, <2>3 DEF SeekWrite, WriteBytes
<1>6. CASE k \in 1..WriteLeft(b)
  <2> DEFINE next == (q + k) % n
  <2>1. next = Wrap(n, q + k)
    <3>1. k \in 0..n
      BY <1>1, <1>2
    <3>2. QED BY <1>1, <3>1, Place
  <2>2. SeekWrite(c, k) = [size |-> n, buf |-> c.buf, rpos |-> b.rpos, wpos |-> next]
    BY <1>3, <1>4, <1>6 DEF SeekWrite
  <2>3. WriteBytes(b, s) = [size |-> n, buf |-> c.buf, rpos |-> b.rpos, wpos |-> next]
    <3>1. CASE next < q
      <4>1. q + k = n /\ next = 0
        BY <1>1, <1>2, <1>6, <2>1, <3>1 DEF Wrap
      <4> DEFINE w == StoreWrapped(b, s)
      <4> DEFINE F == [i \in 0..(n - 1) |-> IF i >= q THEN s[i - q + 1]
                                            ELSE IF i < next THEN s[n - q + i + 1]
                                            ELSE b.buf[i]]
      <4>0. w = [size |-> n, buf |-> F, rpos |-> b.rpos, wpos |-> q]
        <5>1. b = [size |-> n, buf |-> b.buf, rpos |-> b.rpos, wpos |-> q]
          BY DEF IsRing
        <5>2. w = [b EXCEPT !.buf = F]
          BY DEF StoreWrapped
        <5> HIDE DEF F, w
        <5>3. QED BY <5>1, <5>2
      <4>2. w.buf = F
        BY <4>0
      <4>3. w.buf = c.buf
        <5>1. \A i \in 0..(n - 1) : ~(i < 0) /\ (i >= q <=> i \in q..(n - 1))
          BY <1>1
        <5>2. q + k - 1 = n - 1
          <6> HIDE DEF next, w, n, q, k
          <6>1. QED BY <1>1, <4>1
        <5> HIDE DEF next, w
        <5>3. QED BY <1>3, <4>1, <4>2, <5>1, <5>2
      <4>4. w = [size |-> n, buf |-> w.buf, rpos |-> b.rpos, wpos |-> q]
        BY <4>0, <4>2
      <4>5. WriteBytes(b, s) = [w EXCEPT !.wpos = next]
        BY <1>6, <3>1 DEF WriteBytes
      <4> HIDE DEF w, next
      <4>6. QED BY <4>3, <4>4, <4>5
    <3>2. CASE ~(next < q)
      <4>1. WriteBytes(b, s) = [c EXCEPT !.wpos = next]
        BY <1>6, <3>2 DEF WriteBytes
      <4> HIDE DEF c, next
      <4>2. QED BY <1>3, <4>1
    <3>3. QED BY <3>1, <3>2
  <2>4. QED BY <2>2, <2>3
<1>7. QED BY <1>5, <1>6

-----------------------------------------------------------------------------
\* A new buffer is an empty ring.
LEMMA InitIsEmpty == Init => TypeOK /\ Contents(ring) = <<>>
<1> SUFFICES ASSUME Init PROVE TypeOK /\ Contents(ring) = <<>>
  OBVIOUS
<1> PICK memory \in [0..(Size - 1) -> Byte] : ring = Ring(Size, memory)
  BY DEF Init
<1>1. /\ ring = [size |-> Size, buf |-> memory, rpos |-> 0, wpos |-> 0]
      /\ Size \in Nat \ {0}
  BY BufferAssumption DEF Ring
<1>2. IsRing(ring, Byte) /\ ring.size = Size
  BY <1>1 DEF IsRing
<1>3. Len(Contents(ring)) = 0
  <2>1. ReadLeft(ring) = 0
    BY <1>1, <1>2, Lefts DEF Way
  <2>2. QED BY <1>2, <2>1, ContentsType
<1>4. Contents(ring) = <<>>
  BY <1>2, <1>3, ContentsType, EmptySeq
<1>5. QED BY <1>2, <1>4 DEF TypeOK, Init

-----------------------------------------------------------------------------
\* What every operation keeps, and the operation of the queue that it is.
Step(q, r) ==
    /\ IsRing(r, Byte) /\ r.size = Size
    /\ got' \in Seq(Byte) \cup {Null}
    /\ \/ /\ Contents(r) \in Seq(Byte) /\ Len(Contents(r)) <= Size - 1
          /\ Len(q) <= Len(Contents(r)) /\ SubSeq(Contents(r), 1, Len(q)) = q
          /\ got' = Null
       \/ \E n \in 0..Len(q) : /\ Contents(r) = SubSeq(q, n + 1, Len(q))
                               /\ got' \in {SubSeq(q, 1, n), Null}
       \/ Contents(r) = <<>> /\ got' = Null

\* A write appends to the queue, or is refused.
LEMMA WriteStep ==
    ASSUME TypeOK, NEW s \in Seq(Byte), ring' = WriteBytes(ring, s), got' = Null
    PROVE  Step(Contents(ring), ring')
<1> DEFINE q == Contents(ring)  t == Contents(ring')
<1>1. IsRing(ring, Byte) /\ ring.size = Size
  BY DEF TypeOK
<1>2. IsRing(ring', Byte)
  BY <1>1, WriteBytesAppends
<1>3. ring'.size = Size
  BY <1>1 DEF WriteBytes, Store, StoreWrapped
<1>4. /\ q \in Seq(Byte) /\ t \in Seq(Byte)
      /\ Len(t) = ReadLeft(ring') /\ ReadLeft(ring') \in 0..(Size - 1)
  BY <1>1, <1>2, <1>3, ContentsType, Lefts
<1>5. t = q \o s \/ t = q
  BY <1>1, WriteBytesAppends
<1> HIDE DEF q, t
<1>6. Len(q) <= Len(t) /\ SubSeq(t, 1, Len(q)) = q
  <2>1. CASE t = q
    BY <1>4, <2>1
  <2>2. CASE t = q \o s
    <3>1. SubSeq(q \o s, 1, Len(q)) = q
      BY <1>4
    <3>2. QED BY <1>4, <2>2, <3>1
  <2>3. QED BY <1>5, <2>1, <2>2
<1>7. QED BY <1>2, <1>3, <1>4, <1>6 DEF Step, q, t

\* A read takes the first k bytes from the queue, handing them out or not.
LEMMA ReadStep ==
    ASSUME TypeOK, NEW k \in 0..ReadLeft(ring),
           ring' = [ring EXCEPT !.rpos = (@ + k) % ring.size],
           got' \in {CopyOut(ring, k), Null}
    PROVE  Step(Contents(ring), ring')
<1> DEFINE q == Contents(ring)
<1>1. IsRing(ring, Byte) /\ ring.size = Size
  BY DEF TypeOK
<1>2. IsRing(ring', Byte) /\ Contents(ring') = SubSeq(q, k + 1, Len(q))
  BY <1>1, Advance
<1>3. q \in Seq(Byte) /\ Len(q) = ReadLeft(ring) /\ ring'.size = Size
  BY <1>1, ContentsType
<1>4. CopyOut(ring, k) = SubSeq(q, 1, k)
  BY <1>1, CopyOutIsPrefix
<1> HIDE DEF q
<1>5. k \in 0..Len(q) /\ SubSeq(q, 1, k) \in Seq(Byte)
  BY <1>3
<1>6. got' \in {SubSeq(q, 1, k), Null}
  BY <1>4
<1>7. QED BY <1>2, <1>3, <1>5, <1>6 DEF Step, q

\* A refused operation leaves the queue as it is.
LEMMA RefusedStep ==
    ASSUME TypeOK, ring' = ring, got' \in {<<>>, Null}
    PROVE  Step(Contents(ring), ring')
<1> DEFINE q == Contents(ring)
<1>1. q \in Seq(Byte) /\ IsRing(ring, Byte) /\ ring.size = Size
  BY ContentsType DEF TypeOK
<1> HIDE DEF q
<1>2. 0 \in 0..Len(q) /\ SubSeq(q, 0 + 1, Len(q)) = q /\ SubSeq(q, 1, 0) = <<>>
  BY <1>1
<1>3. \E n \in 0..Len(q) : q = SubSeq(q, n + 1, Len(q)) /\ got' \in {SubSeq(q, 1, n), Null}
  BY <1>2
<1>4. got' \in Seq(Byte) \cup {Null}
  BY EmptySeq
<1>5. QED BY <1>1, <1>3, <1>4 DEF Step, q

\* Every operation takes the queue a step, or leaves it as it is.
LEMMA NextStep == TypeOK /\ Next => Step(Contents(ring), ring')
<1> SUFFICES ASSUME TypeOK, Next PROVE Step(Contents(ring), ring')
  OBVIOUS
<1>0. IsRing(ring, Byte) /\ ReadLeft(ring) \in Nat
  BY Lefts DEF TypeOK
<1>1. ASSUME NEW s \in Seq(Byte), WriteBytesOf(s) \/ WriteWord(s) \/ Receive(s)
      PROVE  Step(Contents(ring), ring')
  <2>1. CASE WriteBytesOf(s) BY <2>1, WriteStep DEF WriteBytesOf
  <2>2. CASE WriteWord(s)    BY <2>2, WriteStep DEF WriteWord
  <2>3. CASE Receive(s)      BY <1>0, <2>3, WriteStep, ReceiveIsWrite DEF Receive
  <2>4. QED BY <1>1, <2>1, <2>2, <2>3
<1>2. ASSUME NEW n \in 0..Size, ReadBytesOf(n) PROVE Step(Contents(ring), ring')
  <2>1. ReadSize(ring, n) \in 0..ReadLeft(ring)
    BY <1>0, ReadBytesTakes
  <2>2. QED BY <1>2, <2>1, ReadStep DEF ReadBytesOf, ReadBytes
<1>3. ASSUME NEW n \in 0..Size, ReadString(n) PROVE Step(Contents(ring), ring')
  <2>1. CASE n \in 1..ReadLeft(ring)
    <3>1. n \in 0..ReadLeft(ring)
      BY <1>0, <2>1
    <3>2. QED BY <1>3, <2>1, <3>1, ReadStep DEF ReadString, SeekRead
  <2>2. CASE n \notin 1..ReadLeft(ring)
    <3>1. n = 0
      BY <1>0, <1>3, <2>2 DEF ReadString
    <3>2. CopyOut(ring, 0) = <<>>
      <4>1. 0 \in 0..ReadLeft(ring)
        BY <1>0
      <4>2. CopyOut(ring, 0) = SubSeq(Contents(ring), 1, 0)
        BY <1>0, <4>1, CopyOutIsPrefix
      <4>3. QED BY <1>0, <4>2, ContentsType
    <3>3. QED BY <1>3, <2>2, <3>1, <3>2, RefusedStep DEF ReadString, SeekRead
  <2>3. QED BY <2>1, <2>2
<1>4. ASSUME NEW n \in 0..Size, ReadWord(n) PROVE Step(Contents(ring), ring')
  <2>1. n \in 0..ReadLeft(ring) /\ n < ring.size
    BY <1>0, <1>4, Lefts, Fields DEF ReadWord
  <2>2. CopyOut(ring, n) = [i \in 1..n |-> ring.buf[(ring.rpos + i - 1) % ring.size]]
    <3> DEFINE q == Contents(ring)
    <3>1. q \in Seq(Byte) /\ Len(q) = ReadLeft(ring)
          /\ \A i \in 1..ReadLeft(ring) : q[i] = ring.buf[(ring.rpos + i - 1) % ring.size]
      BY <1>0, ContentsType DEF Contents
    <3>2. CopyOut(ring, n) = SubSeq(q, 1, n)
      BY <1>0, <2>1, CopyOutIsPrefix
    <3> HIDE DEF q
    <3>3. SubSeq(q, 1, n) = [i \in 1..n |-> q[i]]
      BY <1>0, <2>1, <3>1
    <3>4. \A i \in 1..n : q[i] = ring.buf[(ring.rpos + i - 1) % ring.size]
      BY <1>0, <2>1, <3>1
    <3>5. QED BY <3>2, <3>3, <3>4
  <2>3. QED BY <1>4, <2>1, <2>2, ReadStep DEF ReadWord
<1>5. ASSUME NEW n \in (-Size)..Size, Skip(n) PROVE Step(Contents(ring), ring')
  <2>1. CASE n \in 1..ReadLeft(ring)
    <3>1. n \in 0..ReadLeft(ring)
      BY <1>0, <2>1
    <3>2. QED BY <1>5, <2>1, <3>1, ReadStep DEF Skip, SeekRead
  <2>2. CASE n \notin 1..ReadLeft(ring)
    BY <1>5, <2>2, RefusedStep DEF Skip, SeekRead
  <2>3. QED BY <2>1, <2>2
<1>6. CASE Empty
  <2>1. /\ ring' = [size |-> ring.size, buf |-> ring.buf, rpos |-> 0, wpos |-> 0]
        /\ got' = Null
    BY <1>0, <1>6 DEF Empty, Reset, IsRing
  <2>2. IsRing(ring', Byte) /\ ring'.size = Size
    BY <1>0, <2>1 DEF IsRing, TypeOK
  <2>3. Len(Contents(ring')) = 0 /\ Contents(ring') \in Seq(Byte)
    <3>1. ReadLeft(ring') = 0
      BY <2>1, <2>2, Lefts DEF Way
    <3>2. QED BY <2>2, <3>1, ContentsType
  <2>4. Contents(ring') = <<>>
    BY <2>3, EmptySeq
  <2>5. QED BY <2>1, <2>2, <2>4 DEF Step
<1>7. \A s \in BoundedSeq(Byte, Size) : s \in Seq(Byte)
  BY DEF BoundedSeq, SeqOf
<1>8. QED BY <1>1, <1>2, <1>3, <1>4, <1>5, <1>6, <1>7 DEF Next

LEMMA TypeInductive == TypeOK /\ [Next]_vars => TypeOK'
<1>1. TypeOK /\ Next => TypeOK'
  BY NextStep DEF Step, TypeOK
<1>2. TypeOK /\ UNCHANGED vars => TypeOK'
  BY DEF TypeOK, vars
<1>3. QED BY <1>1, <1>2

\* The positions stay in the array, and the operations hand out bytes.
THEOREM TypeCorrect == Spec => []TypeOK
<1>1. QED BY InitIsEmpty, TypeInductive, PTL DEF Spec

\* The areas that are filled and drained without wrapping fit.
THEOREM AreasAlwaysFit == Spec => []AreasFit
<1>1. TypeOK => AreasFit
  <2> SUFFICES ASSUME TypeOK PROVE AreasFit
    OBVIOUS
  <2> DEFINE n == ring.size  p == ring.rpos  q == ring.wpos
             rl == ReadLeft(ring)  wl == WriteLeft(ring)
  <2>1. /\ n \in Nat \ {0} /\ p \in 0..(n - 1) /\ q \in 0..(n - 1) /\ n = Size
        /\ rl = Way(n, p, q) /\ wl = n - 1 - Way(n, p, q)
    BY Fields, Lefts DEF TypeOK
  <2>2. /\ ContinuousWriteLeft(ring) = IF q >= p THEN Lesser(n - q, wl) ELSE wl
        /\ ContinuousReadLeft(ring) = IF p > q THEN n - p ELSE rl
    BY DEF ContinuousWriteLeft, ContinuousReadLeft
  <2> HIDE DEF n, p, q, rl, wl
  <2>3. CASE q >= p
    BY <2>1, <2>2, <2>3 DEF AreasFit, Lesser, Way, n, p, q, rl, wl
  <2>4. CASE ~(q >= p)
    BY <2>1, <2>2, <2>4 DEF AreasFit, Way, n, p, q, rl, wl
  <2>5. QED BY <2>3, <2>4
<1>2. QED BY <1>1, TypeCorrect, PTL

\* class Buffer implements the queue: every byte written is read once, in order.
THEOREM IsAQueue == Spec => QueueSpec
<1>1. Init => Queue!Init
  BY InitIsEmpty DEF Init, Queue!Init
<1>2. TypeOK /\ [Next]_vars => [Queue!Next]_<<Contents(ring), got>>
  <2>1. TypeOK /\ Next => Queue!Next
    BY NextStep DEF Step, Queue!Next, Queue!Put, Queue!Take, Queue!Clear
  <2>2. UNCHANGED vars => UNCHANGED <<Contents(ring), got>>
    BY DEF vars
  <2>3. QED BY <2>1, <2>2
<1>3. QED BY <1>1, <1>2, TypeCorrect, PTL DEF Spec, QueueSpec, Queue!Spec
=============================================================================
