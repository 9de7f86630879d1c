-------------------------- MODULE StreamPathProofs --------------------------
(***************************************************************************)
(* For any number of viewers, any buffer sizes, any stream and any way in  *)
(* which it is cut into reads, frames and packets: each viewer receives an *)
(* unbroken part of the body, and nothing is lost on the way to it.        *)
(***************************************************************************)
EXTENDS StreamPath, SequenceTheorems, WellFoundedInduction, TLAPS

-----------------------------------------------------------------------------
(* The ring buffer.  Its lemmas are those of BufferProofs; they are about the *)
(* operators of RingBuffer only, so what Buffer is given does not matter.     *)
R == INSTANCE BufferProofs
       WITH Size <- 1, Byte <- {}, Null <- 0, Widths <- {}, ring <- 0, got <- 0

\* What % gives, and the way from p to q, as in BufferProofs.
Wrap(n, x) == IF x < n THEN x ELSE x - n
Way(n, p, q) == IF q >= p THEN q - p ELSE q + n - p

LEMMA Same ==
    ASSUME NEW b
    PROVE  /\ \A B : R!IsRing(b, B) <=> IsRing(b, B)
           /\ R!ReadLeft(b) = ReadLeft(b) /\ R!WriteLeft(b) = WriteLeft(b)
           /\ R!ContinuousWriteLeft(b) = ContinuousWriteLeft(b)
           /\ R!Contents(b) = Contents(b)
           /\ \A n : /\ R!SeekRead(b, n) = SeekRead(b, n)
                     /\ R!SeekWrite(b, n) = SeekWrite(b, n)
                     /\ R!ReadSize(b, n) = ReadSize(b, n)
                     /\ R!ReadBytes(b, n) = ReadBytes(b, n)
                     /\ R!CopyOut(b, n) = CopyOut(b, n)
           /\ \A s : /\ R!WriteBytes(b, s) = WriteBytes(b, s)
                     /\ R!Store(b, s) = Store(b, s)
  <1>1. \A B : R!IsRing(b, B) <=> IsRing(b, B)
    BY Zenon DEF R!IsRing, IsRing
  <1>2. R!ReadLeft(b) = ReadLeft(b) /\ R!WriteLeft(b) = WriteLeft(b)
    BY Zenon DEF R!ReadLeft, ReadLeft, R!WriteLeft, WriteLeft
  <1>3. R!ContinuousWriteLeft(b) = ContinuousWriteLeft(b)
    BY <1>2, Zenon DEF R!ContinuousWriteLeft, ContinuousWriteLeft, R!Lesser, Lesser
  <1>4. R!Contents(b) = Contents(b)
    BY Zenon DEF R!Contents, Contents, R!ReadLeft, ReadLeft
  <1>5. \A n : /\ R!SeekRead(b, n) = SeekRead(b, n)
               /\ R!SeekWrite(b, n) = SeekWrite(b, n)
               /\ R!ReadSize(b, n) = ReadSize(b, n)
               /\ R!CopyOut(b, n) = CopyOut(b, n)
    BY <1>2, Zenon DEF R!SeekRead, SeekRead, R!SeekWrite, SeekWrite, R!ReadSize, ReadSize, R!CopyOut, CopyOut, R!Lesser, Lesser
  <1>6. \A n : R!ReadBytes(b, n) = ReadBytes(b, n)
    BY <1>2, Zenon DEF R!ReadSize, ReadSize, R!ReadBytes, ReadBytes, R!Lesser, Lesser, R!ReadLeft, ReadLeft
  <1>7. \A s : R!Store(b, s) = Store(b, s)
    BY Zenon DEF R!Store, Store
  <1>8. \A s : R!WriteBytes(b, s) = WriteBytes(b, s)
    BY Zenon DEF R!Store, Store, R!StoreWrapped, StoreWrapped, R!WriteBytes, WriteBytes, R!WriteLeft, WriteLeft
  <1> QED BY <1>1, <1>2, <1>3, <1>4, <1>5, <1>6, <1>7, <1>8

LEMMA ReadBytesTakes ==
    ASSUME NEW B, NEW b, IsRing(b, B), NEW n \in Int
    PROVE  /\ ReadSize(b, n) \in 0..ReadLeft(b)
           /\ IsRing(ReadBytes(b, n), B)
           /\ CopyOut(b, ReadSize(b, n)) \o Contents(ReadBytes(b, n)) = Contents(b)
  <1>1. R!IsRing(b, B)
    BY Same
  <1>2. /\ R!ReadSize(b, n) \in 0..R!ReadLeft(b)
        /\ R!IsRing(R!ReadBytes(b, n), B)
        /\ R!CopyOut(b, R!ReadSize(b, n)) \o R!Contents(R!ReadBytes(b, n)) = R!Contents(b)
    BY <1>1, R!ReadBytesTakes
  <1>3. R!ReadSize(b, n) = ReadSize(b, n) /\ R!ReadLeft(b) = ReadLeft(b)
        /\ R!ReadBytes(b, n) = ReadBytes(b, n) /\ R!Contents(b) = Contents(b)
        /\ R!CopyOut(b, ReadSize(b, n)) = CopyOut(b, ReadSize(b, n))
    BY Same
  <1>4. /\ R!IsRing(ReadBytes(b, n), B) <=> IsRing(ReadBytes(b, n), B)
        /\ R!Contents(ReadBytes(b, n)) = Contents(ReadBytes(b, n))
    BY Same
  <1> QED BY <1>2, <1>3, <1>4

LEMMA WriteBytesAppends ==
    ASSUME NEW B, NEW b, IsRing(b, B), NEW s \in Seq(B)
    PROVE  /\ IsRing(WriteBytes(b, s), B)
           /\ Len(s) \in 1..WriteLeft(b) => Contents(WriteBytes(b, s)) = Contents(b) \o s
           /\ Len(s) \notin 1..WriteLeft(b) => WriteBytes(b, s) = b
  <1>1. R!IsRing(b, B)
    BY Same
  <1>2. /\ R!IsRing(R!WriteBytes(b, s), B)
        /\ Len(s) \in 1..R!WriteLeft(b) => R!Contents(R!WriteBytes(b, s)) = R!Contents(b) \o s
        /\ Len(s) \notin 1..R!WriteLeft(b) => R!WriteBytes(b, s) = b
    BY <1>1, R!WriteBytesAppends
  <1> QED BY <1>2, Same

LEMMA SameWay ==
    ASSUME NEW n
    PROVE  /\ \A x : R!Wrap(n, x) = Wrap(n, x)
           /\ \A p, q : R!Way(n, p, q) = Way(n, p, q)
BY DEF R!Wrap, Wrap, R!Way, Way

LEMMA Fields ==
    ASSUME NEW B, NEW b, IsRing(b, B)
    PROVE  /\ b.size \in Nat \ {0}
           /\ b.rpos \in 0..(b.size - 1)
           /\ b.wpos \in 0..(b.size - 1)
           /\ b.buf \in [0..(b.size - 1) -> B]
BY DEF IsRing

LEMMA Place ==
    ASSUME NEW n \in Nat \ {0}, NEW p \in 0..(n - 1), NEW k \in 0..n
    PROVE  /\ (p + k) % n = Wrap(n, p + k)
           /\ (p + k) % n \in 0..(n - 1)
  <1> PICK x \in 0..(2 * n - 1) : x = p + k
    OBVIOUS
  <1>1. CASE x < n
    BY <1>1 DEF Wrap
  <1>2. CASE x >= n
    <2>1. (x - n) % n = x - n /\ x % n = (x - n) % n
      BY <1>2
    <2> QED BY <1>2, <2>1 DEF Wrap
  <1> QED BY <1>1, <1>2

LEMMA Lefts ==
    ASSUME NEW B, NEW b, IsRing(b, B)
    PROVE  /\ ReadLeft(b) = Way(b.size, b.rpos, b.wpos)
           /\ WriteLeft(b) = b.size - 1 - ReadLeft(b)
           /\ ReadLeft(b) \in 0..(b.size - 1)
  <1>1. R!IsRing(b, B)
    BY Same
  <1>2. /\ R!ReadLeft(b) = R!Way(b.size, b.rpos, b.wpos)
        /\ R!WriteLeft(b) = b.size - 1 - R!ReadLeft(b)
        /\ R!ReadLeft(b) \in 0..(b.size - 1)
    BY <1>1, R!Lefts
  <1>3. R!ReadLeft(b) = ReadLeft(b) /\ R!WriteLeft(b) = WriteLeft(b)
    BY Same
  <1>4. R!Way(b.size, b.rpos, b.wpos) = Way(b.size, b.rpos, b.wpos)
    BY SameWay
  <1> QED BY <1>2, <1>3, <1>4

LEMMA ContentsType ==
    ASSUME NEW B, NEW b, IsRing(b, B)
    PROVE  /\ Contents(b) \in Seq(B)
           /\ Len(Contents(b)) = ReadLeft(b)
           /\ \A i \in 1..ReadLeft(b) :
                 Contents(b)[i] = b.buf[Wrap(b.size, b.rpos + (i - 1))]
  <1>1. R!IsRing(b, B)
    BY Same
  <1>2. /\ R!Contents(b) \in Seq(B)
        /\ Len(R!Contents(b)) = R!ReadLeft(b)
        /\ \A i \in 1..R!ReadLeft(b) :
              R!Contents(b)[i] = b.buf[R!Wrap(b.size, b.rpos + (i - 1))]
    BY <1>1, R!ContentsType
  <1>3. R!ReadLeft(b) = ReadLeft(b) /\ R!Contents(b) = Contents(b)
    BY Same
  <1>4. \A i : R!Wrap(b.size, b.rpos + (i - 1)) = Wrap(b.size, b.rpos + (i - 1))
    BY SameWay
  <1> QED BY <1>2, <1>3, <1>4

LEMMA CopyOutIsPrefix ==
    ASSUME NEW B, NEW b, IsRing(b, B), NEW n \in 0..ReadLeft(b)
    PROVE  CopyOut(b, n) = SubSeq(Contents(b), 1, n)
  <1>1. R!IsRing(b, B) /\ n \in 0..R!ReadLeft(b)
    BY Same
  <1>2. R!CopyOut(b, n) = SubSeq(R!Contents(b), 1, n)
    BY <1>1, R!CopyOutIsPrefix
  <1> QED BY <1>2, Same

LEMMA SeekReadDrops ==
    ASSUME NEW B, NEW b, IsRing(b, B), NEW n \in Int
    PROVE  /\ IsRing(SeekRead(b, n), B)
           /\ n \in 1..ReadLeft(b)
                => Contents(SeekRead(b, n)) = SubSeq(Contents(b), n + 1, Len(Contents(b)))
           /\ n \notin 1..ReadLeft(b) => SeekRead(b, n) = b
  <1>1. R!IsRing(b, B)
    BY Same
  <1>2. /\ R!IsRing(R!SeekRead(b, n), B)
        /\ n \in 1..R!ReadLeft(b) => R!Contents(R!SeekRead(b, n))
                                        = SubSeq(R!Contents(b), n + 1, Len(R!Contents(b)))
        /\ n \notin 1..R!ReadLeft(b) => R!SeekRead(b, n) = b
    BY <1>1, R!SeekReadDrops
  <1>3. /\ R!SeekRead(b, n) = SeekRead(b, n) /\ R!ReadLeft(b) = ReadLeft(b)
        /\ R!Contents(b) = Contents(b)
    BY Same
  <1>4. /\ R!IsRing(SeekRead(b, n), B) <=> IsRing(SeekRead(b, n), B)
        /\ R!Contents(SeekRead(b, n)) = Contents(SeekRead(b, n))
    BY Same
  <1> QED BY <1>2, <1>3, <1>4

LEMMA ReceiveIsWrite ==
    ASSUME NEW B, NEW b, IsRing(b, B), NEW s \in Seq(B),
           Len(s) <= ContinuousWriteLeft(b)
    PROVE  SeekWrite(Store(b, s), Len(s)) = WriteBytes(b, s)
  <1>1. R!IsRing(b, B) /\ Len(s) <= R!ContinuousWriteLeft(b)
    BY Same
  <1>2. R!SeekWrite(R!Store(b, s), Len(s)) = R!WriteBytes(b, s)
    BY <1>1, R!ReceiveIsWrite
  <1>3. R!Store(b, s) = Store(b, s) /\ R!WriteBytes(b, s) = WriteBytes(b, s)
    BY Same
  <1>4. R!SeekWrite(Store(b, s), Len(s)) = SeekWrite(Store(b, s), Len(s))
    BY Same
  <1> QED BY <1>2, <1>3, <1>4

-----------------------------------------------------------------------------
\* s is the run of numbers up to e.
RunTo(s, e) == \A i \in 1..Len(s) : s[i] = e - Len(s) + i

\* How many of the bytes that have arrived have left IOBuffer; of those, have
\* left libavformat; and of those, have been dispatched.
FromCache == arrived - ReadLeft(cache)
FromAvio == FromCache - Len(avio)
FromPackets == FromAvio - Len(FlattenSeq(packets))
FromQueue(v) == FromPackets - Len(FlattenSeq(queue[v]))
FromMux(v) == FromQueue(v) - Len(received[v])

\* What is in the input's part of the way are the bytes up to where the next
\* part begins; a read that was miscounted has lost some.
InputInv ==
    /\ RunTo(Contents(cache), arrived)
    /\ ~miscounted => /\ RunTo(avio, FromCache)
                      /\ RunTo(FlattenSeq(packets), FromAvio)
                      /\ input = "request" => Len(response) = FromCache
                      /\ input \in {"open", "body"} => FromPackets >= HeaderLen
                      /\ avio \o FlattenSeq(packets) # <<>> => FromPackets >= HeaderLen
    /\ input = "request" => packets = <<>> /\ avio = <<>>

\* The same for the viewers' parts.
ViewerInv(v) ==
    /\ out[v] = "off" => queue[v] = <<>> /\ received[v] = <<>>
    /\ input = "request" => queue[v] = <<>> /\ received[v] = <<>>
    /\ v \in Attached /\ ~miscounted /\ ~failed[v] =>
           /\ RunTo(FlattenSeq(queue[v]), FromPackets)
           /\ RunTo(received[v], FromQueue(v))
           /\ input \in {"open", "body"} => FromMux(v) >= HeaderLen
           /\ received[v] \o FlattenSeq(queue[v]) # <<>> => FromMux(v) >= HeaderLen
    /\ out[v] = "done" /\ ~miscounted /\ ~failed[v] =>
           IsRun(received[v]) /\ (received[v] # <<>> => received[v][1] > HeaderLen)

StatusInv(v) ==
    /\ received[v] # <<>> => status[v] = "200"
    /\ out[v] # "done" => status[v] # "404"

IInv ==
    /\ TypeOK
    /\ MuxIsDrained
    /\ InputInv
    /\ \A v \in Viewers : ViewerInv(v) /\ StatusInv(v)

-----------------------------------------------------------------------------
(* FlattenSeq, by induction on the length of the sequence.                   *)

LEMMA Associative ==
    ASSUME NEW S
    PROVE  \A a, b, c \in Seq(S) : (a \o b) \o c = a \o (b \o c)
  BY ConcatAssociative

(* Bytes that change places between two neighbours leave the whole as it is: *)
(* a, b and c in a row are a, d and e in a row when b and c are d and e.     *)
Joins(a, b, c) == a \o b = c

LEMMA JoinsAssociate ==
    ASSUME NEW S, NEW a \in Seq(S), NEW b \in Seq(S), NEW c \in Seq(S), NEW z
    PROVE  Joins(a \o b, c, z) <=> Joins(a, b \o c, z)
  <1> DEFINE p == (a \o b) \o c
             q == a \o (b \o c)
  <1>1. p = q
    BY Associative
  <1>2. Joins(a \o b, c, z) <=> p = z
    BY DEF Joins
  <1>3. Joins(a, b \o c, z) <=> q = z
    BY DEF Joins
  <1> HIDE DEF p, q
  <1> QED BY <1>1, <1>2, <1>3

LEMMA Regroup ==
    ASSUME NEW S, NEW a \in Seq(S), NEW b \in Seq(S), NEW c \in Seq(S),
           NEW d \in Seq(S), NEW e \in Seq(S), NEW z,
           b \o c = d \o e, Joins(a \o d, e, z)
    PROVE  Joins(a \o b, c, z)
  <1> DEFINE m == b \o c
  <1>1. m = d \o e
    OBVIOUS
  <1>2. Joins(a, d \o e, z)
    BY JoinsAssociate
  <1>3. Joins(a \o b, c, z) <=> Joins(a, m, z)
    BY JoinsAssociate
  <1> HIDE DEF m
  <1> QED BY <1>1, <1>2, <1>3, Zenon

LEMMA LessThan == \A i, j \in Nat : i < j => <<i, j>> \in OpToRel(<, Nat)
  BY DEF OpToRel

\* A set of numbers has a least one: induction, as the provers take it.
LEMMA LeastNumber ==
    ASSUME NEW T \in SUBSET Nat, T # {}
    PROVE  \E x \in T : \A y \in T : x <= y
  <1>1. \E x \in T : \A y \in T : ~(y < x)
    <2>1. \E x \in T : \A y \in T : ~(<<y, x>> \in OpToRel(<, Nat))
      BY WFMin, NatLessThanWellFounded
    <2> QED BY <2>1, LessThan, Zenon
  <1> QED BY <1>1

\* What the recursive function of FlattenSeq is, for the first n elements.
Flattens(f, s, n) ==
    f = [i \in 1..n |-> IF i = 1 THEN s[i] ELSE f[i - 1] \o s[i]]

LEMMA FlattenUnfolds ==
    ASSUME NEW S, NEW s \in Seq(Seq(S)), s # <<>>
    PROVE  FlattenSeq(s) = (CHOOSE f : Flattens(f, s, Len(s)))[Len(s)]
  <1>1. Len(s) # 0
    OBVIOUS
  <1> QED BY <1>1 DEF FlattenSeq, Flattens

LEMMA FlattenEmpty == FlattenSeq(<<>>) = <<>>
  BY DEF FlattenSeq

LEMMA FlattensExists ==
    ASSUME NEW s, NEW n \in Nat
    PROVE  \E f : Flattens(f, s, n)
  <1> DEFINE T == {m \in 0..n : ~ \E f : Flattens(f, s, m)}
  <1> SUFFICES ASSUME T # {} PROVE FALSE
    <2>1. n \in 0..n
      OBVIOUS
    <2> QED BY <2>1
  <1>1. PICK m \in T : \A y \in T : m <= y
    <2>1. T \in SUBSET Nat
      OBVIOUS
    <2> HIDE DEF T
    <2> QED BY <2>1, LeastNumber
  <1>2. CASE m = 0
    <2>1. Flattens([i \in 1..0 |-> 0], s, 0)
      BY DEF Flattens
    <2> QED BY <1>2, <2>1
  <1>3. CASE m # 0
    <2>1. m \in 1..n /\ m - 1 \in 0..n /\ ~(m <= m - 1)
      BY <1>3
    <2>2. m - 1 \notin T
      BY <1>1, <2>1
    <2>3. PICK f : Flattens(f, s, m - 1)
      BY <2>1, <2>2
    <2> DEFINE g == [i \in 1..m |-> IF i < m THEN f[i]
                                     ELSE IF i = 1 THEN s[i] ELSE f[i - 1] \o s[i]]
    <2>4. ASSUME NEW i \in 1..m
          PROVE  g[i] = IF i = 1 THEN s[i] ELSE g[i - 1] \o s[i]
      <3>1. i # 1 => i - 1 \in 1..m /\ i - 1 < m
        BY <2>1
      <3>2. CASE i < m
        <4>1. i \in 1..(m - 1)
          BY <2>1, <3>2
        <4>2. f[i] = IF i = 1 THEN s[i] ELSE f[i - 1] \o s[i]
          BY <2>3, <4>1 DEF Flattens
        <4> QED BY <3>1, <3>2, <4>2
      <3>3. CASE ~(i < m)
        BY <3>1, <3>3
      <3> QED BY <3>2, <3>3
    <2>5. Flattens(g, s, m)
      <3>1. g = [i \in 1..m |-> g[i]]
        OBVIOUS
      <3> HIDE DEF g
      <3> QED BY <2>4, <3>1 DEF Flattens
    <2> QED BY <2>5
  <1> QED BY <1>2, <1>3

\* Two of them agree as far as their sequences do.
LEMMA FlattensAgree ==
    ASSUME NEW s, NEW t, NEW m \in Nat, NEW n \in Nat, m <= n,
           NEW f, NEW g, Flattens(f, s, m), Flattens(g, t, n),
           \A i \in 1..m : s[i] = t[i]
    PROVE  \A i \in 1..m : f[i] = g[i]
  <1> DEFINE T == {i \in 1..m : f[i] # g[i]}
  <1> SUFFICES ASSUME T # {} PROVE FALSE
    OBVIOUS
  <1>1. PICK x \in T : \A y \in T : x <= y
    <2>1. T \in SUBSET Nat
      OBVIOUS
    <2> HIDE DEF T
    <2> QED BY <2>1, LeastNumber
  <1>2. x \in 1..m /\ x \in 1..n
    OBVIOUS
  <1>3. /\ f[x] = IF x = 1 THEN s[x] ELSE f[x - 1] \o s[x]
        /\ g[x] = IF x = 1 THEN t[x] ELSE g[x - 1] \o t[x]
    BY <1>2 DEF Flattens
  <1>4. x # 1 => f[x - 1] = g[x - 1]
    <2> SUFFICES ASSUME x # 1 PROVE f[x - 1] = g[x - 1]
      OBVIOUS
    <2>1. x - 1 \in 1..m /\ ~(x <= x - 1)
      BY <1>2
    <2>2. x - 1 \notin T
      BY <1>1, <2>1
    <2> QED BY <2>1, <2>2
  <1>5. f[x] = g[x]
    BY <1>2, <1>3, <1>4
  <1> QED BY <1>5

\* The first k elements of s and u are the same.
Agree(s, u, k) == \A i \in 1..k : s[i] = u[i]

\* They agree in particular on a sequence and on the same with an element more.
LEMMA FlattensLonger ==
    ASSUME NEW s, NEW u, NEW k, k \in 1..k, NEW f, NEW g,
           Flattens(f, s, k), Flattens(g, u, k + 1), Agree(s, u, k)
    PROVE  f[k] = g[k]
  <1> DEFINE p == k + 1
  <1>1. k \in Nat
    OBVIOUS
  <1>2. p \in Nat /\ k <= p /\ Flattens(g, u, p)
    BY <1>1
  <1> HIDE DEF p
  <1>3. \A i \in 1..k : f[i] = g[i]
    BY <1>1, <1>2, FlattensAgree DEF Agree
  <1> QED BY <1>1, <1>3

LEMMA FlattensType ==
    ASSUME NEW S, NEW s \in Seq(Seq(S)), NEW n \in 0..Len(s), NEW f, Flattens(f, s, n)
    PROVE  \A i \in 1..n : f[i] \in Seq(S)
  <1> DEFINE T == {i \in 1..n : f[i] \notin Seq(S)}
  <1> SUFFICES ASSUME T # {} PROVE FALSE
    OBVIOUS
  <1>1. PICK x \in T : \A y \in T : x <= y
    <2>1. T \in SUBSET Nat
      OBVIOUS
    <2> HIDE DEF T
    <2> QED BY <2>1, LeastNumber
  <1>2. x \in 1..n /\ x \in 1..Len(s)
    OBVIOUS
  <1>3. f[x] = IF x = 1 THEN s[x] ELSE f[x - 1] \o s[x]
    BY <1>2 DEF Flattens
  <1>4. s[x] \in Seq(S)
    BY <1>2
  <1>5. x # 1 => f[x - 1] \in Seq(S)
    <2> SUFFICES ASSUME x # 1 PROVE f[x - 1] \in Seq(S)
      OBVIOUS
    <2>1. x - 1 \in 1..n /\ ~(x <= x - 1)
      BY <1>2
    <2>2. x - 1 \notin T
      BY <1>1, <2>1
    <2> QED BY <2>1, <2>2
  <1>6. f[x] \in Seq(S)
    BY <1>3, <1>4, <1>5
  <1> QED BY <1>6

\* FlattenSeq by such a function.
LEMMA FlattenIs ==
    ASSUME NEW S, NEW s \in Seq(Seq(S)), s # <<>>, NEW f, Flattens(f, s, Len(s))
    PROVE  FlattenSeq(s) = f[Len(s)]
  <1> DEFINE n == Len(s)
             g == CHOOSE h : Flattens(h, s, n)
  <1>1. n \in Nat /\ n \in 1..n
    OBVIOUS
  <1>2. Flattens(g, s, n)
    OBVIOUS
  <1>3. FlattenSeq(s) = g[n]
    BY FlattenUnfolds
  <1> HIDE DEF g
  <1>4. \A i \in 1..n : f[i] = g[i]
    BY <1>1, <1>2, FlattensAgree
  <1> QED BY <1>1, <1>3, <1>4

\* It is a sequence of bytes,
LEMMA FlattenType ==
    ASSUME NEW S, NEW s \in Seq(Seq(S))
    PROVE  FlattenSeq(s) \in Seq(S)
  <1>1. CASE s = <<>>
    <2>1. FlattenSeq(s) = <<>>
      BY <1>1, FlattenEmpty, Zenon
    <2> QED BY <2>1
  <1>2. CASE s # <<>>
    <2>1. Len(s) \in Nat /\ Len(s) \in 1..Len(s) /\ Len(s) \in 0..Len(s)
      BY <1>2
    <2>2. PICK f : Flattens(f, s, Len(s))
      BY <2>1, FlattensExists
    <2> QED BY <1>2, <2>1, <2>2, FlattenIs, FlattensType
  <1> QED BY <1>1, <1>2

\* longer by what is appended to the sequence,
LEMMA FlattenAppend ==
    ASSUME NEW S, NEW s \in Seq(Seq(S)), NEW e \in Seq(S)
    PROVE  FlattenSeq(Append(s, e)) = FlattenSeq(s) \o e
  <1> DEFINE k == Len(s)
             u == Append(s, e)
  <1>1. /\ k \in Nat /\ u \in Seq(Seq(S)) /\ Len(u) = k + 1 /\ u # <<>>
        /\ u[k + 1] = e /\ \A i \in 1..k : u[i] = s[i]
    BY AppendProperties
  <1> HIDE DEF k, u
  <1>2. PICK g : Flattens(g, u, k + 1)
    <2>1. k + 1 \in Nat
      BY <1>1
    <2> QED BY <2>1, FlattensExists
  <1>3. FlattenSeq(u) = g[k + 1]
    BY <1>1, <1>2, FlattenIs
  <1>4. g[k + 1] = IF k + 1 = 1 THEN u[k + 1] ELSE g[k] \o u[k + 1]
    <2>1. k + 1 \in 1..(k + 1) /\ (k + 1) - 1 = k
      BY <1>1
    <2> QED BY <1>2, <2>1 DEF Flattens
  <1>5. CASE k = 0
    <2>1. s = <<>>
      BY <1>5 DEF k
    <2>2. FlattenSeq(s) = <<>>
      BY <2>1, FlattenEmpty, Zenon
    <2>3. <<>> \o e = e
      OBVIOUS
    <2> QED BY <1>1, <1>3, <1>4, <1>5, <2>2, <2>3 DEF u
  <1>6. CASE k # 0
    <2>1. s # <<>> /\ k \in 1..k
      BY <1>1, <1>6 DEF k
    <2>2. PICK f : Flattens(f, s, k)
      BY <1>1, FlattensExists
    <2>3. FlattenSeq(s) = f[k]
      BY <2>1, <2>2, FlattenIs DEF k
    <2>4. Agree(s, u, k)
      BY <1>1 DEF Agree
    <2>5. f[k] = g[k]
      BY <1>2, <2>1, <2>2, <2>4, FlattensLonger, Zenon
    <2> QED BY <1>1, <1>3, <1>4, <1>6, <2>3, <2>5 DEF u
  <1> QED BY <1>5, <1>6

\* and its head first.
LEMMA FlattenHead ==
    ASSUME NEW S, NEW s \in Seq(Seq(S)), s # <<>>
    PROVE  FlattenSeq(s) = Head(s) \o FlattenSeq(Tail(s))
  <1> DEFINE k == Len(s)
             u == Tail(s)
             e == Head(s)
  <1>1. /\ k \in Nat \ {0} /\ u \in Seq(Seq(S)) /\ Len(u) = k - 1 /\ k - 1 \in Nat
        /\ e \in Seq(S) /\ s[1] = e /\ \A i \in 1..(k - 1) : u[i] = s[i + 1]
    OBVIOUS
  <1>2. PICK f : Flattens(f, s, k)
    BY <1>1, FlattensExists
  <1>3. FlattenSeq(s) = f[k]
    BY <1>2, FlattenIs
  <1> HIDE DEF k, u, e
  <1>4. \A i \in 1..k : f[i] = IF i = 1 THEN s[i] ELSE f[i - 1] \o s[i]
    BY <1>2 DEF Flattens
  <1>5. CASE k = 1
    <2>1. u = <<>> /\ FlattenSeq(u) = <<>>
      BY <1>1, <1>5, FlattenEmpty
    <2>2. f[k] = e
      BY <1>1, <1>4, <1>5
    <2>3. e \o <<>> = e
      BY <1>1
    <2> QED BY <1>3, <2>1, <2>2, <2>3 DEF u, e
  <1>6. \A a, b \in Seq(S) : (e \o a) \o b = e \o (a \o b)
    <2>1. e \in Seq(S)
      BY <1>1
    <2> QED BY <2>1, ConcatAssociative, SMTT(30)
  <1>7. CASE k # 1
    <2>1. u # <<>> /\ k - 1 \in 1..(k - 1)
      BY <1>1, <1>7
    <2>2. PICK g : Flattens(g, u, k - 1)
      BY <1>1, FlattensExists
    <2>3. FlattenSeq(u) = g[k - 1]
      BY <1>1, <2>1, <2>2, FlattenIs
    <2>4. \A i \in 1..(k - 1) : g[i] \in Seq(S)
      <3>1. k - 1 \in 0..Len(u)
        BY <1>1
      <3> QED BY <1>1, <2>2, <3>1, FlattensType
    <2>5. \A i \in 1..(k - 1) : g[i] = IF i = 1 THEN u[i] ELSE g[i - 1] \o u[i]
      BY <2>2 DEF Flattens
    <2> DEFINE T == {i \in 1..(k - 1) : f[i + 1] # e \o g[i]}
    <2>6. T = {}
      <3> SUFFICES ASSUME T # {} PROVE FALSE
        OBVIOUS
      <3>1. PICK x \in T : \A y \in T : x <= y
        <4>1. T \in SUBSET Nat
          BY <1>1
        <4> HIDE DEF T
        <4> QED BY <4>1, LeastNumber
      <3>2. /\ x \in 1..(k - 1) /\ x + 1 \in 1..k /\ x + 1 # 1 /\ (x + 1) - 1 = x
            /\ x \in 1..k
        BY <1>1
      <3>3. f[x + 1] = f[x] \o s[x + 1] /\ s[x + 1] = u[x]
        BY <1>1, <1>4, <3>2
      <3>4. CASE x = 1
        <4>1. f[x] = e /\ g[x] = u[x]
          BY <1>1, <1>4, <2>5, <3>2, <3>4
        <4> QED BY <3>3, <4>1
      <3>5. CASE x # 1
        <4>1. x - 1 \in 1..(k - 1) /\ ~(x <= x - 1) /\ (x - 1) + 1 = x
          BY <1>1, <3>2, <3>5
        <4>2. f[x] = e \o g[x - 1]
          BY <3>1, <4>1
        <4>3. g[x] = g[x - 1] \o u[x]
          BY <2>5, <3>2, <3>5
        <4>4. u[x] \in Seq(S) /\ g[x - 1] \in Seq(S)
          <5>1. x \in 1..Len(u)
            BY <1>1, <3>2
          <5>2. u[x] \in Seq(S)
            BY <1>1, <5>1, ElementOfSeq
          <5> QED BY <2>4, <4>1, <5>2
        <4>5. (e \o g[x - 1]) \o u[x] = e \o (g[x - 1] \o u[x])
          <5> DEFINE a == g[x - 1]
                     b == u[x]
          <5>1. e \in Seq(S) /\ a \in Seq(S) /\ b \in Seq(S)
            BY <1>1, <4>4
          <5> QED BY <1>6, <5>1
        <4> QED BY <3>3, <4>2, <4>3, <4>5
      <3> QED BY <3>4, <3>5
    <2>7. f[(k - 1) + 1] = e \o g[k - 1] /\ (k - 1) + 1 = k
      <3>1. k - 1 \notin T
        BY <2>6
      <3>2. (k - 1) + 1 = k
        BY <1>1
      <3> QED BY <2>1, <3>1, <3>2
    <2> QED BY <1>3, <2>3, <2>7 DEF u, e
  <1> QED BY <1>5, <1>7

-----------------------------------------------------------------------------
(* Runs.                                                                     *)

\* Two sequences in a row are a run up to e if the second is, and the first is
\* one up to where it begins.
LEMMA RunConcat ==
    ASSUME NEW S, NEW s \in Seq(S), NEW t \in Seq(S), NEW e \in Int
    PROVE  RunTo(s \o t, e) <=> (RunTo(s, e - Len(t)) /\ RunTo(t, e))
  <1> DEFINE m == Len(s)
             n == Len(t)
             u == s \o t
  <1>1. /\ m \in Nat /\ n \in Nat /\ Len(u) = m + n
        /\ \A i \in 1..m : u[i] = s[i]
        /\ \A i \in 1..n : u[m + i] = t[i]
    BY ConcatProperties
  <1> HIDE DEF m, n, u
  <1>2. RunTo(u, e) <=> \A i \in 1..(m + n) : u[i] = e - (m + n) + i
    BY <1>1 DEF RunTo
  <1>3. RunTo(s, e - n) <=> \A i \in 1..m : s[i] = (e - n) - m + i
    BY DEF RunTo, m
  <1>4. RunTo(t, e) <=> \A i \in 1..n : t[i] = e - n + i
    BY DEF RunTo, n
  <1>5. ASSUME RunTo(u, e) PROVE RunTo(s, e - n) /\ RunTo(t, e)
    <2>1. ASSUME NEW i \in 1..m PROVE s[i] = (e - n) - m + i
      BY <1>1, <1>2, <1>5
    <2>2. ASSUME NEW i \in 1..n PROVE t[i] = e - n + i
      <3>1. m + i \in 1..(m + n)
        BY <1>1
      <3>2. u[m + i] = e - (m + n) + (m + i)
        BY <1>2, <1>5, <3>1
      <3> QED BY <1>1, <3>2
    <2> QED BY <1>3, <1>4, <2>1, <2>2
  <1>6. ASSUME RunTo(s, e - n), RunTo(t, e) PROVE RunTo(u, e)
    <2>1. ASSUME NEW i \in 1..(m + n) PROVE u[i] = e - (m + n) + i
      <3>1. CASE i <= m
        BY <1>1, <1>3, <1>6, <3>1
      <3>2. CASE i > m
        <4>1. i - m \in 1..n /\ m + (i - m) = i
          BY <1>1, <3>2
        <4>2. t[i - m] = e - n + (i - m) /\ u[i] = t[i - m]
          <5>1. u[m + (i - m)] = t[i - m]
            BY <1>1, <4>1
          <5> QED BY <1>4, <1>6, <4>1, <5>1
        <4> QED BY <1>1, <4>2
      <3> QED BY <1>1, <3>1, <3>2
    <2> QED BY <1>2, <2>1
  <1> QED BY <1>5, <1>6 DEF u, n

\* A run is one in the sense of the model, and it is known where it begins.
LEMMA RunIsRun ==
    ASSUME NEW S, NEW s \in Seq(S), NEW e \in Int, RunTo(s, e)
    PROVE  /\ IsRun(s)
           /\ s # <<>> => s[1] = e - Len(s) + 1 /\ Last(s) = e
  <1>1. ASSUME NEW i \in 1..(Len(s) - 1) PROVE s[i + 1] = s[i] + 1
    <2>1. i \in 1..Len(s) /\ i + 1 \in 1..Len(s) /\ Len(s) \in Nat
      OBVIOUS
    <2>2. s[i] = e - Len(s) + i /\ s[i + 1] = e - Len(s) + (i + 1)
      BY <2>1 DEF RunTo
    <2> QED BY <2>1, <2>2
  <1>2. s # <<>> => 1 \in 1..Len(s) /\ Len(s) \in 1..Len(s) /\ Len(s) \in Nat
    OBVIOUS
  <1>3. s # <<>> => s[1] = e - Len(s) + 1 /\ s[Len(s)] = e
    BY <1>2 DEF RunTo
  <1> QED BY <1>1, <1>3 DEF IsRun, Last

\* The empty sequence is a run up to anything.
LEMMA EmptyRun == \A e : RunTo(<<>>, e)
  BY DEF RunTo

\* A sequence is what it is cut into.
LEMMA Cut ==
    ASSUME NEW S, NEW s \in Seq(S), NEW n \in 0..Len(s)
    PROVE  /\ SubSeq(s, 1, n) \in Seq(S) /\ Len(SubSeq(s, 1, n)) = n
           /\ SubSeq(s, n + 1, Len(s)) \in Seq(S)
           /\ Len(SubSeq(s, n + 1, Len(s))) = Len(s) - n
           /\ SubSeq(s, 1, n) \o SubSeq(s, n + 1, Len(s)) = s
  <1>1. /\ SubSeq(s, 1, n) \in Seq(S) /\ Len(SubSeq(s, 1, n)) = n
        /\ SubSeq(s, n + 1, Len(s)) \in Seq(S)
        /\ Len(SubSeq(s, n + 1, Len(s))) = Len(s) - n
    OBVIOUS
  <1>2. SubSeq(s, 1, n) \o SubSeq(s, n + 1, Len(s)) = s
    <2>1. 1 \in 1..(Len(s) + 1) /\ n \in (1 - 1)..Len(s) /\ Len(s) \in n..Len(s)
      OBVIOUS
    <2>2. SubSeq(s, 1, n) \o SubSeq(s, n + 1, Len(s)) = SubSeq(s, 1, Len(s))
      BY <2>1, ConcatAdjacentSubSeq
    <2> QED BY <2>2, SubSeqFull
  <1> QED BY <1>1, <1>2

\* Bytes are handed on from the old and the new ones: what is left is a run, and
\* so is what is handed on.
LEMMA HandedOn ==
    ASSUME NEW S, NEW bytes \in Seq(S), NEW rest \in Seq(S), NEW old \in Seq(S),
           NEW new \in Seq(S), NEW e \in Int,
           bytes \o rest = old \o new, RunTo(old, e - Len(new)), RunTo(new, e)
    PROVE  RunTo(rest, e) /\ RunTo(bytes, e - Len(rest))
  <1>1. RunTo(old \o new, e)
    BY RunConcat
  <1> QED BY <1>1, RunConcat

LEMMA SameLength ==
    ASSUME NEW S, NEW a \in Seq(S), NEW b \in Seq(S), NEW c \in Seq(S), NEW d \in Seq(S),
           a \o b = c \o d
    PROVE  Len(a) + Len(b) = Len(c) + Len(d)
  <1>1. Len(a \o b) = Len(a) + Len(b) /\ Len(c \o d) = Len(c) + Len(d)
    OBVIOUS
  <1> QED BY <1>1

-----------------------------------------------------------------------------
(* The buffers.                                                              *)

\* What the operators on rings do, in terms of what they hold.
LEMMA ReadingTakes ==
    ASSUME NEW b, IsRing(b, Byte), NEW n \in Int
    PROVE  /\ IsRing(ReadBytes(b, n), Byte)
           /\ CopyOut(b, ReadSize(b, n)) \in Seq(Byte)
           /\ Contents(ReadBytes(b, n)) \in Seq(Byte)
           /\ Len(Contents(ReadBytes(b, n))) = ReadLeft(ReadBytes(b, n))
           /\ Len(CopyOut(b, ReadSize(b, n))) = ReadSize(b, n)
           /\ ReadSize(b, n) \in Nat /\ (n >= 0 => ReadSize(b, n) <= n)
           /\ (ReadSize(b, n) < n => Contents(ReadBytes(b, n)) = <<>>)
           /\ CopyOut(b, ReadSize(b, n)) \o Contents(ReadBytes(b, n)) = Contents(b)
  <1> DEFINE k == ReadSize(b, n)
  <1>1. /\ k \in 0..ReadLeft(b) /\ ReadLeft(b) \in Nat
        /\ IsRing(ReadBytes(b, n), Byte)
        /\ CopyOut(b, k) \o Contents(ReadBytes(b, n)) = Contents(b)
    BY ReadBytesTakes, Lefts
  <1>2. /\ Contents(b) \in Seq(Byte) /\ Len(Contents(b)) = ReadLeft(b)
        /\ Contents(ReadBytes(b, n)) \in Seq(Byte)
        /\ Len(Contents(ReadBytes(b, n))) = ReadLeft(ReadBytes(b, n))
    BY <1>1, ContentsType
  <1>3. CopyOut(b, k) = SubSeq(Contents(b), 1, k)
    BY <1>1, CopyOutIsPrefix
  <1>4. CopyOut(b, k) \in Seq(Byte) /\ Len(CopyOut(b, k)) = k
    BY <1>1, <1>2, <1>3, Cut
  <1>5. (n >= 0 => k <= n) /\ (k < n => k = ReadLeft(b))
    BY <1>1 DEF ReadSize, Lesser
  <1>6. ASSUME k < n PROVE Contents(ReadBytes(b, n)) = <<>>
    <2> DEFINE x == CopyOut(b, k)
               y == Contents(ReadBytes(b, n))
               z == Contents(b)
    <2>1. x \in Seq(Byte) /\ y \in Seq(Byte) /\ z \in Seq(Byte) /\ x \o y = z
          /\ Len(x) = Len(z)
      BY <1>1, <1>2, <1>4, <1>5, <1>6
    <2> HIDE DEF x, y, z
    <2>2. Len(x \o y) = Len(x) + Len(y)
      BY <2>1
    <2>3. Len(y) = 0
      BY <2>1, <2>2
    <2>4. y = <<>>
      BY <2>1, <2>3
    <2> QED BY <2>4 DEF y
  <1> QED BY <1>1, <1>2, <1>4, <1>5, <1>6

\* What can be written in one piece can be written.
LEMMA ContinuousIsLess ==
    ASSUME NEW b, IsRing(b, Byte)
    PROVE  ContinuousWriteLeft(b) <= WriteLeft(b) /\ WriteLeft(b) \in Nat
           /\ ContinuousWriteLeft(b) \in Int
  <1>1. WriteLeft(b) \in Nat /\ b.size \in Nat /\ b.wpos \in Int
    BY Lefts, Fields
  <1> QED BY <1>1 DEF ContinuousWriteLeft, Lesser

\* What is received into the buffer is appended.
LEMMA ReceivedIsAppended ==
    ASSUME NEW b, IsRing(b, Byte), NEW s \in Seq(Byte), Len(s) <= ContinuousWriteLeft(b)
    PROVE  /\ IsRing(SeekWrite(Store(b, s), Len(s)), Byte)
           /\ Contents(SeekWrite(Store(b, s), Len(s))) = Contents(b) \o s
  <1>1. SeekWrite(Store(b, s), Len(s)) = WriteBytes(b, s)
    BY ReceiveIsWrite
  <1>2. /\ IsRing(WriteBytes(b, s), Byte)
        /\ Len(s) \in 1..WriteLeft(b) => Contents(WriteBytes(b, s)) = Contents(b) \o s
        /\ Len(s) \notin 1..WriteLeft(b) => WriteBytes(b, s) = b
    BY WriteBytesAppends
  <1>3. CASE Len(s) \in 1..WriteLeft(b)
    BY <1>1, <1>2, <1>3
  <1>4. CASE Len(s) \notin 1..WriteLeft(b)
    <2>1. Len(s) = 0 /\ s = <<>>
      BY <1>4, ContinuousIsLess
    <2>2. Contents(b) \in Seq(Byte)
      BY ContentsType
    <2>3. Contents(b) \o s = Contents(b)
      BY <2>1, <2>2
    <2> QED BY <1>1, <1>2, <1>4, <2>3
  <1> QED BY <1>3, <1>4

\* The connection gives the next numbers.
LEMMA NextBytesRun ==
    ASSUME arrived \in Nat, NEW k \in Nat
    PROVE  /\ NextBytes(k) \in Seq(Byte) /\ Len(NextBytes(k)) = k
           /\ RunTo(NextBytes(k), arrived + k)
  <1> DEFINE s == NextBytes(k)
  <1>1. s = [i \in 1..k |-> arrived + i] /\ \A i \in 1..k : arrived + i \in Byte
    BY DEF NextBytes, Byte
  <1> HIDE DEF s
  <1>2. s \in Seq(Byte) /\ Len(s) = k /\ \A i \in 1..k : s[i] = arrived + i
    BY <1>1
  <1>3. RunTo(s, arrived + k)
    BY <1>2 DEF RunTo
  <1> QED BY <1>2, <1>3 DEF s

\* A read of at most n bytes from the buffer or the connection: what it gives
\* and what it leaves in the buffer are the next bytes, unless it is miscounted.
ReadIsSound(r, n) ==
    /\ IsRing(r.cache, Byte)
    /\ r.fresh \in Nat /\ arrived + r.fresh <= total
    /\ r.bytes \in Seq(Byte) /\ Len(r.bytes) <= n
    /\ r.lost \in BOOLEAN
    /\ RunTo(Contents(r.cache), arrived + r.fresh)
    /\ ~r.lost => /\ RunTo(r.bytes, arrived + r.fresh - ReadLeft(r.cache))
                  /\ Len(r.bytes) = arrived + r.fresh - ReadLeft(r.cache) - FromCache

\* It is enough that it moves bytes.
LEMMA MovingIsSound ==
    ASSUME IsRing(cache, Byte), arrived \in Nat, RunTo(Contents(cache), arrived),
           NEW n \in Nat, NEW k \in Nat, arrived + k <= total,
           NEW c, IsRing(c, Byte), NEW s \in Seq(Byte), Len(s) <= n,
           s \o Contents(c) = Contents(cache) \o NextBytes(k)
    PROVE  ReadIsSound([cache |-> c, fresh |-> k, bytes |-> s, lost |-> FALSE], n)
  <1> DEFINE old == Contents(cache)
             new == NextBytes(k)
             rest == Contents(c)
  <1>1. /\ old \in Seq(Byte) /\ Len(old) = ReadLeft(cache)
        /\ rest \in Seq(Byte) /\ Len(rest) = ReadLeft(c)
        /\ ReadLeft(cache) \in Nat /\ ReadLeft(c) \in Nat
    BY ContentsType, Lefts
  <1>2. new \in Seq(Byte) /\ Len(new) = k /\ RunTo(new, arrived + k)
    BY NextBytesRun
  <1> DEFINE e == arrived + k
  <1>3. s \o rest = old \o new /\ RunTo(old, e - Len(new)) /\ RunTo(new, e) /\ e \in Int
    <2>1. e - Len(new) = arrived /\ e \in Int
      BY <1>2
    <2> QED BY <1>2, <2>1
  <1> HIDE DEF old, new, rest, e
  <1>4. RunTo(rest, e) /\ RunTo(s, e - Len(rest))
    BY <1>1, <1>2, <1>3, HandedOn, Zenon
  <1>5. Len(s) = arrived + k - ReadLeft(c) - (arrived - ReadLeft(cache))
    <2>1. Len(s) + Len(rest) = Len(old) + Len(new)
      <3>1. s \o rest = old \o new /\ rest \in Seq(Byte) /\ old \in Seq(Byte) /\ new \in Seq(Byte)
        BY <1>1, <1>2, <1>3
      <3> QED BY <3>1, SameLength
    <2> QED BY <1>1, <1>2, <2>1
  <1> QED BY <1>1, <1>2, <1>4, <1>5 DEF ReadIsSound, FromCache, rest, e

\* What ConnRead returns.
LEMMA ConnReadType ==
    ASSUME arrived \in Nat, total \in Nat, NEW n \in Int, NEW k \in ConnRead(n)
    PROVE  /\ k \in Int /\ k >= -1 /\ k <= n
           /\ k >= 0 => arrived + k <= total
  BY DEF ConnRead, Lesser

LEMMA CachedReadIsSound ==
    ASSUME IsRing(cache, Byte), arrived \in Nat, total \in Nat, arrived <= total,
           RunTo(Contents(cache), arrived), NEW n \in Nat, NEW r \in CachedRead(n)
    PROVE  ReadIsSound(r, n)
  <1> DEFINE had == ReadSize(cache, n)
             rest == ReadBytes(cache, n)
             out1 == CopyOut(cache, had)
             old == Contents(cache)
             Filled(k) == SeekWrite(Store(rest, NextBytes(k)), k)
  <1>1. /\ IsRing(rest, Byte) /\ out1 \in Seq(Byte) /\ Contents(rest) \in Seq(Byte)
        /\ Len(Contents(rest)) = ReadLeft(rest) /\ Len(out1) = had
        /\ had \in Nat /\ had <= n /\ out1 \o Contents(rest) = old
    BY ReadingTakes
  <1>2. old \in Seq(Byte) /\ Len(old) = ReadLeft(cache) /\ ReadLeft(cache) \in Nat
    BY ContentsType, Lefts
  <1>3. NextBytes(0) = <<>> /\ old \o <<>> = old
    BY <1>2 DEF NextBytes
  <1>4. \/ had = n /\ r = [cache |-> rest, fresh |-> 0, bytes |-> out1, lost |-> FALSE]
        \/ \E k \in ConnRead(ContinuousWriteLeft(rest)) \ {-1} :
              r = [cache |-> ReadBytes(Filled(k), n - had), fresh |-> k, lost |-> FALSE,
                   bytes |-> out1 \o CopyOut(Filled(k), ReadSize(Filled(k), n - had))]
        \/ r = [cache |-> rest, fresh |-> 0, bytes |-> <<>>, lost |-> had > 0]
    BY DEF CachedRead
  <1> HIDE DEF had, rest, out1
  <1>5. CASE had = n /\ r = [cache |-> rest, fresh |-> 0, bytes |-> out1, lost |-> FALSE]
    <2>1. 0 \in Nat /\ arrived + 0 <= total /\ Len(out1) <= n
      BY <1>1
    <2>2. out1 \o Contents(rest) = Contents(cache) \o NextBytes(0)
      BY <1>1, <1>3
    <2>3. ReadIsSound([cache |-> rest, fresh |-> 0, bytes |-> out1, lost |-> FALSE], n)
      BY <1>1, <2>1, <2>2, MovingIsSound, Zenon
    <2> QED BY <1>5, <2>3
  <1>6. CASE \E k \in ConnRead(ContinuousWriteLeft(rest)) \ {-1} :
              r = [cache |-> ReadBytes(Filled(k), n - had), fresh |-> k, lost |-> FALSE,
                   bytes |-> out1 \o CopyOut(Filled(k), ReadSize(Filled(k), n - had))]
    <2>0. PICK k \in ConnRead(ContinuousWriteLeft(rest)) \ {-1} :
              r = [cache |-> ReadBytes(Filled(k), n - had), fresh |-> k, lost |-> FALSE,
                   bytes |-> out1 \o CopyOut(Filled(k), ReadSize(Filled(k), n - had))]
      BY <1>6
    <2> DEFINE f == Filled(k)
               j == n - had
               out2 == CopyOut(f, ReadSize(f, j))
               c == ReadBytes(f, j)
               new == NextBytes(k)
    <2>1. k \in Nat /\ k <= ContinuousWriteLeft(rest) /\ arrived + k <= total
      BY <1>1, ContinuousIsLess, ConnReadType
    <2>2. new \in Seq(Byte) /\ Len(new) = k
      BY <2>1, NextBytesRun
    <2>3. IsRing(f, Byte) /\ Contents(f) = Contents(rest) \o new
      BY <1>1, <2>1, <2>2, ReceivedIsAppended
    <2>4. j \in Nat
      BY <1>1
    <2> HIDE DEF f, j
    <2>5. /\ IsRing(c, Byte) /\ out2 \in Seq(Byte) /\ Contents(c) \in Seq(Byte)
          /\ Len(out2) <= j /\ out2 \o Contents(c) = Contents(f)
      <3>1. j \in Int /\ j >= 0
        BY <2>4
      <3> QED BY <2>3, <3>1, ReadingTakes
    <2>6. r = [cache |-> c, fresh |-> k, bytes |-> out1 \o out2, lost |-> FALSE]
      BY <2>0 DEF f, j
    <2> HIDE DEF c, out2, new
    <2>7. (out1 \o out2) \o Contents(c) = old \o new
      <3> DEFINE cc == Contents(c)
                 cr == Contents(rest)
                 z == old \o new
      <3>1. out2 \o cc = cr \o new
        BY <2>3, <2>5
      <3>2. out1 \in Seq(Byte) /\ out2 \in Seq(Byte) /\ cc \in Seq(Byte)
            /\ cr \in Seq(Byte) /\ new \in Seq(Byte)
        BY <1>1, <2>2, <2>5
      <3>3. out1 \o cr = old
        BY <1>1
      <3> HIDE DEF cc, cr, old
      <3>4. Joins(old, new, z)
        BY DEF Joins
      <3> HIDE DEF z
      <3>5. Joins(out1 \o cr, new, z)
        BY <3>3, <3>4, Zenon
      <3>6. Joins(out1 \o out2, cc, z)
        BY <3>1, <3>2, <3>5, Regroup, Zenon
      <3> QED BY <3>6 DEF Joins, cc, z
    <2>8. out1 \o out2 \in Seq(Byte) /\ Len(out1 \o out2) <= n
      <3>1. Len(out1 \o out2) = Len(out1) + Len(out2) /\ out1 \o out2 \in Seq(Byte)
        BY <1>1, <2>5, ConcatProperties, Zenon
      <3> QED BY <1>1, <2>5, <3>1 DEF j
    <2> QED BY <2>1, <2>5, <2>6, <2>7, <2>8, MovingIsSound DEF new
  <1>7. CASE r = [cache |-> rest, fresh |-> 0, bytes |-> <<>>, lost |-> had > 0]
    <2>1. CASE had > 0
      <3>1. RunTo(Contents(rest), arrived)
        <4> DEFINE x == Contents(rest)
        <4>1. x \in Seq(Byte) /\ RunTo(out1 \o x, arrived) /\ arrived \in Int
          BY <1>1
        <4> HIDE DEF x
        <4>2. RunTo(x, arrived)
          BY <1>1, <4>1, RunConcat
        <4> QED BY <4>2 DEF x
      <3>2. Len(<<>>) = 0 /\ <<>> \in Seq(Byte)
        OBVIOUS
      <3>3. r = [cache |-> rest, fresh |-> 0, bytes |-> <<>>, lost |-> TRUE]
        BY <1>7, <2>1
      <3>4. arrived + 0 = arrived /\ arrived + 0 <= total /\ 0 <= n
        OBVIOUS
      <3> QED BY <1>1, <3>1, <3>2, <3>3, <3>4 DEF ReadIsSound
    <2>2. CASE ~(had > 0)
      <3>1. had = 0 /\ out1 = <<>>
        BY <1>1, <2>2
      <3>2. <<>> \o Contents(rest) = old \o NextBytes(0) /\ Len(<<>>) = 0 /\ <<>> \in Seq(Byte)
        BY <1>1, <1>3, <3>1
      <3>3. r = [cache |-> rest, fresh |-> 0, bytes |-> <<>>, lost |-> FALSE]
        <4>1. (had > 0) = FALSE
          BY <2>2
        <4> QED BY <1>7, <4>1
      <3>4. 0 \in Nat /\ arrived + 0 <= total /\ Len(<<>>) <= n
        BY <3>2
      <3>5. ReadIsSound([cache |-> rest, fresh |-> 0, bytes |-> <<>>, lost |-> FALSE], n)
        BY <1>1, <3>2, <3>4, MovingIsSound, Zenon
      <3> QED BY <3>3, <3>5
    <2> QED BY <2>1, <2>2
  <1> QED BY <1>4, <1>5, <1>6, <1>7

LEMMA DirectReadIsSound ==
    ASSUME IsRing(cache, Byte), arrived \in Nat, total \in Nat, arrived <= total,
           RunTo(Contents(cache), arrived), NEW n \in Nat, NEW r \in DirectRead(n)
    PROVE  ReadIsSound(r, n)
  <1> DEFINE had == ReadSize(cache, n)
             rest == ReadBytes(cache, n)
             copied == CopyOut(cache, had)
             old == Contents(cache)
             cr == Contents(rest)
  <1>1. /\ IsRing(rest, Byte) /\ copied \in Seq(Byte) /\ cr \in Seq(Byte)
        /\ Len(cr) = ReadLeft(rest) /\ Len(copied) = had
        /\ had \in Nat /\ had <= n /\ copied \o cr = old /\ (had < n => cr = <<>>)
    BY ReadingTakes
  <1>2. old \in Seq(Byte) /\ Len(old) = ReadLeft(cache) /\ ReadLeft(cache) \in Nat
    BY ContentsType, Lefts
  <1> PICK k \in ConnRead(n - had) :
        r = [cache |-> rest, fresh |-> Len(NextBytes(k)),
             bytes |-> SubSeq(copied \o NextBytes(k), 1, had + k),
             lost |-> k = -1 /\ had > 0]
    BY DEF DirectRead
  <1> DEFINE new == NextBytes(k)
             s == SubSeq(copied \o new, 1, had + k)
  <1> HIDE DEF had, rest, copied
  <1>3. /\ k \in Int /\ k >= -1 /\ k <= n - had
        /\ k >= 0 => arrived + k <= total
    <2>1. n - had \in Int
      BY <1>1
    <2> QED BY <2>1, ConnReadType
  <1>4. CASE k >= 0
    <2>1. k \in Nat /\ new \in Seq(Byte) /\ Len(new) = k /\ (k = 0 => new = <<>>)
      <3>1. k \in Nat
        BY <1>3, <1>4
      <3>2. new \in Seq(Byte) /\ Len(new) = k
        BY <3>1, NextBytesRun
      <3> QED BY <3>1, <3>2
    <2> HIDE DEF new
    <2>2. s = copied \o new
      <3>1. copied \o new \in Seq(Byte) /\ Len(copied \o new) = Len(copied) + Len(new)
        BY <1>1, <2>1, ConcatProperties, Zenon
      <3>2. Len(copied \o new) = had + k
        BY <1>1, <2>1, <3>1
      <3> QED BY <3>1, <3>2, SubSeqFull
    <2> HIDE DEF s, cr, old
    <2>3. s \o cr = old \o new
      <3>1. CASE k = 0
        <4>1. copied \o new = copied /\ old \o new = old
          BY <1>1, <1>2, <2>1, <3>1
        <4> QED BY <1>1, <2>2, <4>1
      <3>2. CASE k # 0
        <4>1. cr = <<>>
          BY <1>1, <1>3, <2>1, <3>2
        <4>2. copied = old
          <5>1. copied \o <<>> = copied
            BY <1>1
          <5> QED BY <1>1, <4>1, <5>1
        <4>3. s \in Seq(Byte)
          BY <1>1, <2>1, <2>2
        <4>4. s \o <<>> = s
          BY <4>3
        <4> QED BY <2>2, <4>1, <4>2, <4>4
      <3> QED BY <3>1, <3>2
    <2>4. s \in Seq(Byte) /\ Len(s) <= n
      <3>1. s \in Seq(Byte) /\ Len(s) = Len(copied) + Len(new)
        BY <1>1, <2>1, <2>2, ConcatProperties, Zenon
      <3>2. Len(s) <= n
        BY <1>1, <1>3, <2>1, <3>1
      <3> QED BY <3>1, <3>2
    <2>5. r = [cache |-> rest, fresh |-> k, bytes |-> s, lost |-> FALSE]
      <3>1. (k = -1 /\ had > 0) = FALSE
        BY <2>1
      <3> QED BY <2>1, <3>1 DEF s, new
    <2>6. ReadIsSound([cache |-> rest, fresh |-> k, bytes |-> s, lost |-> FALSE], n)
      <3>1. arrived + k <= total
        BY <1>3, <2>1
      <3> QED BY <1>1, <2>1, <2>3, <2>4, <3>1, MovingIsSound, Zenon DEF new, old, cr
    <2> QED BY <2>5, <2>6
  <1>5. CASE ~(k >= 0)
    <2>1. k = -1
      BY <1>3, <1>5
    <2>2. new = <<>> /\ Len(new) = 0 /\ copied \o new = copied
      BY <1>1, <2>1 DEF NextBytes
    <2>3. s = SubSeq(copied, 1, had - 1) /\ r.bytes = s /\ r.fresh = 0 /\ r.cache = rest
      BY <1>1, <2>1, <2>2
    <2>4. CASE had > 0
      <3>1. s \in Seq(Byte) /\ Len(s) <= n
        <4> DEFINE j == had - 1
        <4>1. j \in 0..Len(copied) /\ j <= n
          BY <1>1, <2>4
        <4>2. s = SubSeq(copied, 1, j)
          BY <2>3
        <4> HIDE DEF j, s
        <4>3. s \in Seq(Byte) /\ Len(s) = j
          BY <1>1, <4>1, <4>2, Cut, Zenon
        <4> QED BY <4>1, <4>3
      <3>2. r.lost = TRUE
        BY <2>1, <2>4
      <3>3. RunTo(cr, arrived)
        <4>1. cr \in Seq(Byte) /\ RunTo(copied \o cr, arrived) /\ arrived \in Int
          BY <1>1
        <4> HIDE DEF cr
        <4> QED BY <1>1, <4>1, RunConcat
      <3>4. arrived + 0 = arrived /\ arrived + 0 <= total
        OBVIOUS
      <3> QED BY <1>1, <2>3, <3>1, <3>2, <3>3, <3>4 DEF ReadIsSound
    <2>5. CASE ~(had > 0)
      <3>1. had = 0 /\ copied = <<>>
        BY <1>1, <2>5
      <3>2. NextBytes(0) = <<>> /\ old \o <<>> = old
        BY <1>2 DEF NextBytes
      <3>3. s = <<>>
        BY <2>3, <3>1
      <3>4. <<>> \o Contents(rest) = Contents(cache) \o NextBytes(0) /\ Len(<<>>) <= n
            /\ <<>> \in Seq(Byte) /\ 0 \in Nat /\ arrived + 0 <= total
        BY <1>1, <3>1, <3>2
      <3>5. r = [cache |-> rest, fresh |-> 0, bytes |-> <<>>, lost |-> FALSE]
        <4>1. (k = -1 /\ had > 0) = FALSE
          BY <2>5
        <4> QED BY <2>2, <3>3, <4>1
      <3>6. ReadIsSound([cache |-> rest, fresh |-> 0, bytes |-> <<>>, lost |-> FALSE], n)
        BY <1>1, <3>4, MovingIsSound, Zenon
      <3> QED BY <3>5, <3>6
    <2> QED BY <2>4, <2>5
  <1> QED BY <1>4, <1>5

\* What is read at rcurrent() is the beginning of the contents, as far as the
\* end of the buffer.
LEMMA MemoryIsPrefix ==
    ASSUME NEW b, IsRing(b, Byte), NEW n \in 0..ReadLeft(b), b.rpos + n <= b.size
    PROVE  Memory(b, n) = SubSeq(Contents(b), 1, n)
  <1> DEFINE s == Contents(b)
             t == Memory(b, n)
             u == SubSeq(s, 1, n)
  <1>1. /\ s \in Seq(Byte) /\ Len(s) = ReadLeft(b) /\ ReadLeft(b) \in Nat
        /\ b.size \in Nat \ {0} /\ b.rpos \in 0..(b.size - 1)
    BY ContentsType, Lefts, Fields
  <1>2. ASSUME NEW i \in 1..n PROVE t[i] = s[i]
    <2>1. t[i] = b.buf[b.rpos + i - 1]
      BY <1>1 DEF Memory
    <2>2. s[i] = b.buf[Wrap(b.size, b.rpos + (i - 1))]
      BY <1>1, ContentsType
    <2>3. Wrap(b.size, b.rpos + (i - 1)) = b.rpos + i - 1
      BY <1>1 DEF Wrap
    <2> QED BY <2>1, <2>2, <2>3
  <1>3. t = [i \in 1..n |-> t[i]]
    BY DEF Memory
  <1> HIDE DEF s, t
  <1>4. u \in Seq(Byte) /\ Len(u) = n /\ \A i \in 1..n : u[i] = s[i] /\ s[i] \in Byte
    BY <1>1
  <1>5. t \in Seq(Byte) /\ Len(t) = n
    <2>1. \A i \in 1..n : t[i] \in Byte
      BY <1>2, <1>4
    <2>2. n \in Nat
      BY <1>1
    <2> QED BY <1>3, <2>1, <2>2
  <1>6. t = u
    BY <1>2, <1>4, <1>5, SeqEqual
  <1> QED BY <1>6 DEF s, t

LEMMA MemoryType ==
    ASSUME NEW b, IsRing(b, Byte), NEW n \in Nat
    PROVE  Memory(b, n) \in Seq(Byte)
  <1>1. ASSUME NEW i \in 1..n PROVE Memory(b, n)[i] \in Byte
    <2>1. Garbage \in Byte
      BY DEF Garbage, Byte
    <2>2. b.rpos + i <= b.size => b.buf[b.rpos + i - 1] \in Byte
      <3>1. b.rpos + i <= b.size => b.rpos + i - 1 \in 0..(b.size - 1)
        BY Fields
      <3> QED BY <3>1, Fields
    <2> QED BY <2>1, <2>2 DEF Memory
  <1> DEFINE t == Memory(b, n)
  <1>2. t = [i \in 1..n |-> t[i]]
    BY DEF Memory
  <1>3. \A i \in 1..n : t[i] \in Byte
    BY <1>1
  <1> HIDE DEF t
  <1>4. t \in Seq(Byte)
    BY <1>2, <1>3
  <1> QED BY <1>4 DEF t

LEMMA ConnWriteType ==
    ASSUME NEW s \in Seq(Byte), NEW w \in ConnWrite(s)
    PROVE  /\ w.sent \in Seq(Byte) /\ w.ok \in BOOLEAN
           /\ w.ok => w.sent = s
           /\ s = <<>> => w = [sent |-> <<>>, ok |-> TRUE]
  <1>1. CASE w = [sent |-> s, ok |-> TRUE]
    BY <1>1
  <1>2. CASE w \in {[sent |-> SubSeq(s, 1, k), ok |-> FALSE] : k \in 0..(Len(s) - 1)}
    <2> PICK k \in 0..(Len(s) - 1) : w = [sent |-> SubSeq(s, 1, k), ok |-> FALSE]
      BY <1>2
    <2>1. k \in 0..Len(s) /\ s # <<>>
      OBVIOUS
    <2>2. SubSeq(s, 1, k) \in Seq(Byte)
      BY <2>1, Cut
    <2> QED BY <2>1, <2>2
  <1> QED BY <1>1, <1>2 DEF ConnWrite

LEMMA ResetIsEmpty ==
    ASSUME NEW b, IsRing(b, Byte)
    PROVE  IsRing(Reset(b), Byte) /\ ReadLeft(Reset(b)) = 0
  <1>1. IsRing(Reset(b), Byte) /\ Reset(b).rpos = 0 /\ Reset(b).wpos = 0
    <2> DEFINE n == b.size  m == b.buf  p == b.rpos  q == b.wpos  c == Reset(b)
    <2>1. b = [size |-> n, buf |-> m, rpos |-> p, wpos |-> q]
      BY DEF IsRing
    <2>2. n \in Nat \ {0} /\ m \in [0..(n - 1) -> Byte]
      BY Fields
    <2>3. c = [b EXCEPT !.rpos = 0, !.wpos = 0]
      BY DEF Reset
    <2> HIDE DEF n, m, p, q, c
    <2>4. c = [size |-> n, buf |-> m, rpos |-> 0, wpos |-> 0]
      BY <2>1, <2>3
    <2>5. c.size = n /\ c.buf = m /\ c.rpos = 0 /\ c.wpos = 0
      BY <2>4
    <2>6. IsRing(c, Byte)
      BY <2>2, <2>4, <2>5 DEF IsRing
    <2> QED BY <2>5, <2>6 DEF c
  <1>2. ReadLeft(Reset(b)) = Way(Reset(b).size, 0, 0) /\ Reset(b).size \in Nat
    BY <1>1, Lefts, Fields
  <1> QED BY <1>1, <1>2 DEF Way

\* A flush leaves the buffer empty, and has sent what it held unless a write
\* failed.
LEMMA FlushSends ==
    ASSUME NEW b, IsRing(b, Byte), NEW f \in Flush(b)
    PROVE  /\ IsRing(f.ring, Byte) /\ ReadLeft(f.ring) = 0
           /\ f.sent \in Seq(Byte) /\ f.ok \in BOOLEAN
           /\ f.ok => f.sent = Contents(b)
           /\ ReadLeft(b) = 0 => f = [ring |-> b, sent |-> <<>>, ok |-> TRUE]
  <1> DEFINE c == ContinuousReadLeft(b)
             all == Contents(b)
  <1>1. /\ all \in Seq(Byte) /\ Len(all) = ReadLeft(b) /\ ReadLeft(b) \in Nat
        /\ b.size \in Nat \ {0} /\ b.rpos \in 0..(b.size - 1) /\ b.wpos \in 0..(b.size - 1)
        /\ ReadLeft(b) = Way(b.size, b.rpos, b.wpos)
    BY ContentsType, Lefts, Fields
  <1>2. /\ c \in 0..ReadLeft(b) /\ b.rpos + c <= b.size
        /\ c # ReadLeft(b) => c = b.size - b.rpos
        /\ c = 0 => ReadLeft(b) = 0
    BY <1>1 DEF ContinuousReadLeft, Way
  <1>3. PICK w \in ConnWrite(Memory(b, c)) :
          LET rest == IF w.ok THEN SeekRead(b, c) ELSE b IN
          f \in IF ReadLeft(rest) = 0
                THEN {[ring |-> rest, sent |-> w.sent, ok |-> w.ok]}
                ELSE {[ring |-> Reset(rest), sent |-> w.sent \o x.sent, ok |-> w.ok /\ x.ok]
                         : x \in ConnWrite(Memory(rest, ReadLeft(rest)))}
    BY DEF Flush
  <1> DEFINE rest == IF w.ok THEN SeekRead(b, c) ELSE b
             first == Memory(b, c)
  <1>4. first = SubSeq(all, 1, c)
    BY <1>2, MemoryIsPrefix
  <1>5. /\ first \in Seq(Byte) /\ w.sent \in Seq(Byte) /\ w.ok \in BOOLEAN
        /\ w.ok => w.sent = first
        /\ first = <<>> => w = [sent |-> <<>>, ok |-> TRUE]
    <2>1. first \in Seq(Byte)
      <3> HIDE DEF c, all
      <3> QED BY <1>1, <1>2, <1>4, Cut
    <2> HIDE DEF first
    <2> QED BY <1>3, <2>1, ConnWriteType DEF first
  <1> HIDE DEF c
  <1>6. /\ IsRing(rest, Byte)
        /\ w.ok => /\ Contents(rest) = SubSeq(all, c + 1, Len(all))
                   /\ ReadLeft(rest) = ReadLeft(b) - c
    <2>1. CASE ~w.ok
      BY <2>1
    <2>2. CASE w.ok /\ c = 0
      <3>1. ReadLeft(b) = 0 /\ rest = b
        BY <1>2, <2>2 DEF SeekRead
      <3>2. SubSeq(all, c + 1, Len(all)) = all /\ ReadLeft(b) - c = ReadLeft(b)
        BY <1>1, <2>2, SubSeqFull
      <3> QED BY <3>1, <3>2
    <2>3. CASE w.ok /\ c # 0
      <3>1. c \in Int /\ c \in 1..ReadLeft(b)
        BY <1>1, <1>2, <2>3
      <3>2. IsRing(rest, Byte) /\ Contents(rest) = SubSeq(all, c + 1, Len(all))
        BY <2>3, <3>1, SeekReadDrops
      <3>3. Len(Contents(rest)) = ReadLeft(b) - c
        <4> HIDE DEF all, rest
        <4> QED BY <1>1, <1>2, <3>2, Cut
      <3>4. ReadLeft(rest) = Len(Contents(rest))
        <4> HIDE DEF all, rest
        <4> QED BY <3>2, ContentsType
      <3> QED BY <3>2, <3>3, <3>4
    <2> QED BY <1>5, <2>1, <2>2, <2>3
  <1>7. w.ok /\ ReadLeft(rest) # 0 => rest.rpos = 0
    <2> SUFFICES ASSUME w.ok, ReadLeft(rest) # 0 PROVE rest.rpos = 0
      OBVIOUS
    <2>1. c = b.size - b.rpos /\ c \in 1..ReadLeft(b)
      BY <1>1, <1>2, <1>6
    <2>2. rest.rpos = (b.rpos + c) % b.size
      BY <2>1 DEF SeekRead, IsRing
    <2>3. (b.rpos + c) % b.size = 0
      <3>1. c \in 0..b.size /\ b.rpos + c = b.size
        BY <1>1, <2>1
      <3>2. (b.rpos + c) % b.size = Wrap(b.size, b.rpos + c)
        BY <1>1, <3>1, Place
      <3> QED BY <1>1, <3>1, <3>2 DEF Wrap
    <2> QED BY <2>2, <2>3
  <1> HIDE DEF rest, first, all
  <1>8. CASE ReadLeft(rest) = 0
    <2>1. f = [ring |-> rest, sent |-> w.sent, ok |-> w.ok]
      BY <1>3, <1>8 DEF rest, c
    <2>2. ASSUME w.ok PROVE w.sent = all
      <3>1. c = Len(all)
        BY <1>1, <1>2, <1>6, <1>8, <2>2
      <3>2. SubSeq(all, 1, Len(all)) = all
        BY <1>1, SubSeqFull
      <3> QED BY <1>4, <1>5, <2>2, <3>1, <3>2
    <2>3. ASSUME ReadLeft(b) = 0 PROVE f = [ring |-> b, sent |-> <<>>, ok |-> TRUE]
      <3>1. c = 0
        BY <1>2, <2>3
      <3>2. first = <<>>
        BY <1>4, <3>1
      <3>3. w = [sent |-> <<>>, ok |-> TRUE]
        BY <1>5, <3>2
      <3>4. rest = b
        BY <1>1, <2>3, <3>1 DEF rest, SeekRead
      <3> QED BY <2>1, <3>3, <3>4
    <2> QED BY <1>5, <1>6, <1>8, <2>1, <2>2, <2>3 DEF all
  <1>9. CASE ReadLeft(rest) # 0
    <2> DEFINE n == ReadLeft(rest)
               second == Memory(rest, n)
    <2>1. PICK x \in ConnWrite(second) :
             f = [ring |-> Reset(rest), sent |-> w.sent \o x.sent, ok |-> w.ok /\ x.ok]
      BY <1>3, <1>9 DEF rest, c
    <2>2. /\ n \in Nat /\ n \in 0..n /\ rest.size \in Nat \ {0} /\ n <= rest.size
          /\ Contents(rest) \in Seq(Byte) /\ Len(Contents(rest)) = n
      BY <1>6, ContentsType, Lefts, Fields
    <2>3. second \in Seq(Byte)
      BY <1>6, <2>2, MemoryType
    <2>4. x.sent \in Seq(Byte) /\ x.ok \in BOOLEAN /\ (x.ok => x.sent = second)
      <3> HIDE DEF second
      <3> QED BY <2>1, <2>3, ConnWriteType
    <2>5. ASSUME w.ok PROVE second = Contents(rest)
      <3>1. rest.rpos + n <= rest.size
        BY <1>7, <1>9, <2>2, <2>5
      <3>2. second = SubSeq(Contents(rest), 1, n)
        BY <1>6, <2>2, <3>1, MemoryIsPrefix
      <3>3. SubSeq(Contents(rest), 1, Len(Contents(rest))) = Contents(rest)
        BY <2>2, SubSeqFull
      <3> QED BY <2>2, <3>2, <3>3
    <2> HIDE DEF second, n
    <2>6. f.sent \in Seq(Byte) /\ f.ok \in BOOLEAN
      BY <1>5, <2>1, <2>4
    <2>7. ASSUME f.ok PROVE f.sent = all
      <3>1. w.ok /\ x.ok
        BY <1>5, <2>1, <2>4, <2>7
      <3>2. f.sent = SubSeq(all, 1, c) \o SubSeq(all, c + 1, Len(all))
        BY <1>4, <1>5, <1>6, <2>1, <2>4, <2>5, <3>1
      <3>3. c \in 0..Len(all)
        BY <1>1, <1>2
      <3> QED BY <1>1, <3>2, <3>3, Cut
    <2>8. IsRing(Reset(rest), Byte) /\ ReadLeft(Reset(rest)) = 0
      BY <1>6, ResetIsEmpty
    <2>9. ReadLeft(b) # 0
      <3> SUFFICES ASSUME ReadLeft(b) = 0 PROVE FALSE
        OBVIOUS
      <3>1. c = 0
        BY <1>2
      <3>2. rest = b
        BY <3>1 DEF rest, SeekRead
      <3> QED BY <1>9, <3>2
    <2> QED BY <2>1, <2>6, <2>7, <2>8, <2>9 DEF all
  <1> QED BY <1>8, <1>9

\* RawMux with an empty buffer: it sends the packet, unless a write fails, or
\* refuses it, and its buffer is empty again.
HandledWell(h, p) ==
    /\ IsRing(h.ring, Byte) /\ ReadLeft(h.ring) = 0
    /\ h.sent \in Seq(Byte) /\ h.ok \in BOOLEAN /\ h.fits \in BOOLEAN
    /\ h.fits /\ h.ok => h.sent = p
    /\ ~h.fits => h.sent = <<>> /\ h.ok

LEMMA HandleOutputSends ==
    ASSUME NEW b, IsRing(b, Byte), ReadLeft(b) = 0, NEW p \in Seq(Byte),
           NEW h \in HandleOutput(b, p)
    PROVE  HandledWell(h, p)
  <1> DEFINE none == [ring |-> b, sent |-> <<>>, ok |-> TRUE]
             first == IF WriteLeft(b) >= Len(p) THEN {none} ELSE Flush(b)
             c == WriteBytes(b, p)
  <1>1. PICK f \in first :
          h \in IF WriteLeft(f.ring) < Len(p)
                THEN {[ring |-> f.ring, sent |-> f.sent, ok |-> f.ok, fits |-> FALSE]}
                ELSE {[ring |-> g.ring, sent |-> f.sent \o g.sent, ok |-> f.ok /\ g.ok,
                       fits |-> TRUE] : g \in Flush(WriteBytes(f.ring, p))}
    BY DEF HandleOutput
  <1>2. f = none
    BY <1>1, FlushSends
  <1>3. f.ring = b /\ f.sent = <<>> /\ f.ok = TRUE
    BY <1>2
  <1>4. CASE WriteLeft(b) < Len(p)
    <2>1. h = [ring |-> b, sent |-> <<>>, ok |-> TRUE, fits |-> FALSE]
      BY <1>1, <1>3, <1>4
    <2> QED BY <2>1 DEF HandledWell
  <1>5. CASE ~(WriteLeft(b) < Len(p))
    <2> HIDE DEF c, first, none
    <2>1. PICK g \in Flush(c) : h = [ring |-> g.ring, sent |-> <<>> \o g.sent,
                                      ok |-> TRUE /\ g.ok, fits |-> TRUE]
      BY <1>1, <1>3, <1>5 DEF c
    <2>2. IsRing(c, Byte) /\ Contents(c) = p
      <3>1. Contents(b) \in Seq(Byte) /\ Len(Contents(b)) = 0 /\ WriteLeft(b) \in Nat
        BY ContentsType, Lefts, Fields
      <3>2. Contents(b) = <<>> /\ <<>> \o p = p
        BY <3>1
      <3>3. CASE Len(p) \in 1..WriteLeft(b)
        BY <3>2, <3>3, WriteBytesAppends DEF c
      <3>4. CASE Len(p) \notin 1..WriteLeft(b)
        <4>1. p = <<>>
          BY <1>5, <3>1, <3>4
        <4> QED BY <3>2, <3>4, <4>1, WriteBytesAppends DEF c
      <3> QED BY <3>3, <3>4
    <2>3. /\ IsRing(g.ring, Byte) /\ ReadLeft(g.ring) = 0
          /\ g.sent \in Seq(Byte) /\ g.ok \in BOOLEAN
          /\ g.ok => g.sent = p
      BY <2>1, <2>2, FlushSends
    <2>4. <<>> \o g.sent = g.sent
      BY <2>3
    <2>5. h = [ring |-> g.ring, sent |-> g.sent, ok |-> g.ok, fits |-> TRUE]
      BY <2>1, <2>3, <2>4
    <2> QED BY <2>3, <2>5 DEF HandledWell
  <1> QED BY <1>4, <1>5

-----------------------------------------------------------------------------
(* The inductive invariant.                                                  *)

\* What the counts of the invariant are made of.
LEMMA Sizes ==
    ASSUME TypeOK
    PROVE  /\ arrived \in Nat /\ total \in Nat /\ arrived <= total
           /\ Contents(cache) \in Seq(Byte) /\ Len(Contents(cache)) = ReadLeft(cache)
           /\ ReadLeft(cache) \in Nat
           /\ FlattenSeq(packets) \in Seq(Byte) /\ avio \in Seq(Byte)
           /\ FromCache \in Int /\ FromAvio \in Int /\ FromPackets \in Int
           /\ \A v \in Viewers : /\ FlattenSeq(queue[v]) \in Seq(Byte)
                                 /\ received[v] \in Seq(Byte)
                                 /\ FromQueue(v) \in Int /\ FromMux(v) \in Int
  <1>1. arrived \in Nat /\ total \in Nat /\ arrived <= total
    BY SizesAssumption DEF TypeOK
  <1>2. /\ Contents(cache) \in Seq(Byte) /\ Len(Contents(cache)) = ReadLeft(cache)
        /\ ReadLeft(cache) \in Nat
    BY ContentsType, Lefts DEF TypeOK
  <1>3. FlattenSeq(packets) \in Seq(Byte) /\ avio \in Seq(Byte)
    BY FlattenType DEF TypeOK
  <1>4. FromCache \in Int /\ FromAvio \in Int /\ FromPackets \in Int
    BY <1>1, <1>2, <1>3, LenProperties DEF FromCache, FromAvio, FromPackets
  <1>5. ASSUME NEW v \in Viewers
        PROVE  /\ FlattenSeq(queue[v]) \in Seq(Byte) /\ received[v] \in Seq(Byte)
               /\ FromQueue(v) \in Int /\ FromMux(v) \in Int
    <2>1. queue[v] \in Seq(Seq(Byte)) /\ received[v] \in Seq(Byte)
      BY DEF TypeOK
    <2>2. FlattenSeq(queue[v]) \in Seq(Byte)
      BY <2>1, FlattenType
    <2>3. FromQueue(v) \in Int /\ FromMux(v) \in Int
      BY <1>4, <2>1, <2>2, LenProperties DEF FromQueue, FromMux
    <2> QED BY <2>1, <2>2, <2>3
  <1> QED BY <1>1, <1>2, <1>3, <1>4, <1>5

\* What the input does leaves the viewers alone, as long as it does not begin
\* and what it has handed out stays where it is.
LEMMA ViewersLeftAlone ==
    ASSUME IInv, UNCHANGED outputVars, miscounted => miscounted',
           ~miscounted' => FromPackets' = FromPackets,
           input' = "request" => input = "request",
           input' \in {"open", "body"} => input \in {"open", "body"}
    PROVE  MuxIsDrained' /\ \A v \in Viewers : ViewerInv(v)' /\ StatusInv(v)'
  <1>1. MuxIsDrained'
    BY DEF IInv, MuxIsDrained, outputVars
  <1>2. ASSUME NEW v \in Viewers PROVE ViewerInv(v)' /\ StatusInv(v)'
    <2>1. ViewerInv(v) /\ StatusInv(v)
      BY DEF IInv
    <2>2. /\ out' = out /\ queue' = queue /\ status' = status /\ received' = received
          /\ failed' = failed /\ Attached' = Attached
      BY DEF outputVars, Attached
    <2>3. StatusInv(v)'
      BY <2>1, <2>2 DEF StatusInv
    <2>4. ~miscounted' => FromQueue(v)' = FromQueue(v) /\ FromMux(v)' = FromMux(v)
      BY <2>2 DEF FromQueue, FromMux
    <2>5. ViewerInv(v)'
      BY <2>1, <2>2, <2>4 DEF ViewerInv
    <2> QED BY <2>3, <2>5
  <1> QED BY <1>1, <1>2

\* The same for the input's part, when only a viewer's changes.
LEMMA InputLeftAlone ==
    ASSUME IInv, UNCHANGED <<inputVars, packets, miscounted>>
    PROVE  InputInv' /\ FromPackets' = FromPackets
  <1>1. FromPackets' = FromPackets /\ FromAvio' = FromAvio /\ FromCache' = FromCache
    BY DEF FromPackets, FromAvio, FromCache, inputVars
  <1>2. InputInv'
    BY <1>1 DEF IInv, InputInv, inputVars
  <1> QED BY <1>1, <1>2

\* The types of what a read changes.
LEMMA ReadKeepsTypes ==
    ASSUME TypeOK, NEW n \in Nat, NEW r, ReadIsSound(r, n), HasRead(r),
           response' \in Seq(Byte), avio' \in Seq(Byte), packets' = packets,
           input' \in {"request", "open", "body", "done", "crashed"}, tries' \in 1..2
    PROVE  TypeOK'
  <1>1. /\ cache' = r.cache /\ arrived' = arrived + r.fresh
        /\ miscounted' = (miscounted \/ r.lost)
        /\ UNCHANGED <<total, length, loop, outputVars>>
    BY DEF HasRead
  <1>2. IsRing(cache', Byte) /\ arrived' \in 0..total' /\ miscounted' \in BOOLEAN
    <2>1. IsRing(cache', Byte)
      BY <1>1 DEF ReadIsSound
    <2>2. arrived \in Nat /\ total \in Nat /\ r.fresh \in Nat /\ arrived + r.fresh <= total
      BY Sizes DEF ReadIsSound
    <2>3. miscounted \in BOOLEAN /\ r.lost \in BOOLEAN
      BY DEF ReadIsSound, TypeOK
    <2> QED BY <1>1, <2>1, <2>2, <2>3
  <1>3. \A v \in Viewers : IsRing(mux'[v], Byte)
    BY <1>1 DEF TypeOK, outputVars
  <1> QED BY <1>1, <1>2, <1>3 DEF TypeOK, outputVars

\* What a read does to the counts.
LEMMA ReadMoves ==
    ASSUME IInv, NEW n \in Nat, NEW r, ReadIsSound(r, n), HasRead(r)
    PROVE  /\ miscounted => miscounted'
           /\ RunTo(Contents(cache'), arrived')
           /\ r.bytes \in Seq(Byte) /\ Len(r.bytes) <= n
           /\ ~miscounted' => /\ ~miscounted /\ RunTo(r.bytes, FromCache')
                              /\ FromCache' = FromCache + Len(r.bytes)
  <1>1. /\ cache' = r.cache /\ arrived' = arrived + r.fresh
        /\ miscounted' = (miscounted \/ r.lost)
    BY DEF HasRead
  <1>2. TypeOK /\ miscounted \in BOOLEAN
    BY DEF IInv, TypeOK
  <1>3. FromCache \in Int /\ arrived \in Nat
    BY <1>2, Sizes
  <1>4. ReadLeft(r.cache) \in Nat /\ r.fresh \in Nat /\ r.bytes \in Seq(Byte) /\ Len(r.bytes) <= n
        /\ RunTo(Contents(r.cache), arrived + r.fresh) /\ r.lost \in BOOLEAN
    BY Lefts, Fields DEF ReadIsSound
  <1>5. FromCache' = arrived + r.fresh - ReadLeft(r.cache)
    BY <1>1, <1>3, <1>4 DEF FromCache
  <1>6. ~r.lost => /\ RunTo(r.bytes, FromCache')
                   /\ Len(r.bytes) = FromCache' - FromCache
    <2> DEFINE e == arrived + r.fresh - ReadLeft(r.cache)
    <2>1. ~r.lost => /\ RunTo(r.bytes, arrived + r.fresh - ReadLeft(r.cache))
                     /\ Len(r.bytes) = arrived + r.fresh - ReadLeft(r.cache) - FromCache
      BY Zenon DEF ReadIsSound
    <2>2. ~r.lost => RunTo(r.bytes, e)
      BY <2>1, Zenon
    <2>3. ~r.lost => Len(r.bytes) = e - FromCache
      BY <1>3, <1>4, <2>1
    <2>4. FromCache' = e
      BY <1>5
    <2> HIDE DEF e
    <2> QED BY <2>2, <2>3, <2>4
  <1>7. ~r.lost => FromCache' = FromCache + Len(r.bytes)
    <2> DEFINE n1 == FromCache
               n2 == FromCache'
               m == Len(r.bytes)
    <2>1. m \in Nat /\ n1 \in Int /\ n2 \in Int
      BY <1>3, <1>4, <1>5, LenProperties
    <2>2. ~r.lost => m = n2 - n1
      BY <1>6
    <2> HIDE DEF n1, n2, m
    <2>3. ~r.lost => n2 = n1 + m
      BY <2>1, <2>2
    <2> QED BY <2>3 DEF n1, n2, m
  <1> QED BY <1>1, <1>2, <1>4, <1>6, <1>7

-----------------------------------------------------------------------------
(* The input's steps.                                                        *)

LEMMA RequestReadsKeeps ==
    ASSUME IInv, RequestReads
    PROVE  IInv'
  <1>1. TypeOK /\ InputInv /\ input = "request" /\ packets = <<>> /\ avio = <<>>
        /\ miscounted \in BOOLEAN /\ MuxIsDrained
    BY DEF IInv, RequestReads, InputInv, TypeOK
  <1>2. PICK r \in CachedRead(1) :
          /\ HasRead(r)
          /\ IF r.bytes # <<>> THEN TakeByte(r.bytes[1])
             ELSE input' = "done" /\ response' = <<>>
    BY DEF RequestReads
  <1>3. UNCHANGED <<avio, tries, packets>> /\ 1 \in Nat
    BY DEF RequestReads
  <1>4. ReadIsSound(r, 1)
    <2>1. IsRing(cache, Byte) /\ RunTo(Contents(cache), arrived)
      BY <1>1 DEF TypeOK, InputInv
    <2> QED BY <1>1, <1>3, <2>1, Sizes, CachedReadIsSound
  <1>5. /\ RunTo(Contents(cache'), arrived')
        /\ r.bytes \in Seq(Byte) /\ Len(r.bytes) <= 1
        /\ ~miscounted' => ~miscounted /\ FromCache' = FromCache + Len(r.bytes)
    BY <1>2, <1>3, <1>4, ReadMoves
  <1>6. response \in Seq(Byte) /\ FromCache \in Int
    BY <1>1, Sizes DEF TypeOK
  <1>7. /\ response' \in Seq(Byte) /\ input' \in {"request", "open", "done"}
        /\ input' = "request" => Len(response') = Len(response) + Len(r.bytes)
        /\ input' = "open" => Len(response) + Len(r.bytes) >= HeaderLen
    <2>1. CASE r.bytes = <<>>
      BY <1>2, <2>1
    <2>2. CASE r.bytes # <<>>
      <3>1. Len(r.bytes) = 1 /\ r.bytes[1] \in Byte
        <4> DEFINE b == r.bytes
        <4>1. b \in Seq(Byte) /\ Len(b) <= 1 /\ b # <<>>
          BY <1>5, <2>2
        <4> HIDE DEF b
        <4>2. Len(b) = 1
          <5> DEFINE k == Len(b)
          <5>1. k \in Nat \ {0} /\ k <= 1
            BY <4>1, EmptySeq, Zenon
          <5> HIDE DEF k
          <5>2. k = 1
            BY <5>1
          <5> QED BY <5>2 DEF k
        <4>3. 1 \in 1..Len(b)
          BY <4>2
        <4>4. b[1] \in Byte
          BY <4>1, <4>3, ElementOfSeq, Zenon
        <4> QED BY <4>2, <4>4 DEF b
      <3> DEFINE s == Append(response, r.bytes[1])
                 need == IF length = Null THEN HeaderLen ELSE HeaderLen + length
      <3>2. s \in Seq(Byte) /\ Len(s) = Len(response) + 1
        BY <1>6, <3>1, AppendProperties
      <3>3. need >= HeaderLen
        <4>1. HeaderLen \in Nat /\ (length # Null => length \in Nat)
          BY <1>1, SizesAssumption DEF TypeOK
        <4> QED BY <4>1
      <3>4. IF Len(s) < ResponseSize /\ Len(s) # need
            THEN response' = s /\ UNCHANGED input
            ELSE /\ response' = <<>>
                 /\ input' \in IF Len(s) < ResponseSize THEN {"open", "done"} ELSE {"done"}
        BY <1>2, <2>2 DEF TakeByte
      <3> HIDE DEF s, need
      <3>5. CASE Len(s) < ResponseSize /\ Len(s) # need
        <4>1. response' = s /\ input' = "request"
          BY <1>1, <3>4, <3>5
        <4> QED BY <3>1, <3>2, <4>1
      <3>6. CASE ~(Len(s) < ResponseSize /\ Len(s) # need)
        <4>1. response' = <<>> /\ input' \in {"open", "done"}
              /\ (input' = "open" => Len(s) < ResponseSize)
          BY <3>4, <3>6
        <4>2. input' = "open" => Len(s) = need
          BY <3>6, <4>1
        <4> QED BY <3>1, <3>2, <3>3, <4>1, <4>2
      <3> QED BY <3>5, <3>6
    <2> QED BY <2>1, <2>2
  <1>8. TypeOK'
    <2>1. avio' \in Seq(Byte) /\ tries' \in 1..2
      BY <1>1, <1>3 DEF TypeOK
    <2> QED BY <1>1, <1>2, <1>3, <1>4, <1>7, <2>1, ReadKeepsTypes
  <1>9. FromAvio' = FromCache' - 0 /\ FromPackets' = FromCache' - 0 - 0
    <2>1. avio' = <<>> /\ FlattenSeq(packets') = <<>> /\ Len(<<>>) = 0
      BY <1>1, <1>3, FlattenEmpty
    <2> QED BY <2>1, Sizes, <1>8 DEF FromAvio, FromPackets
  <1>10. ~miscounted' => /\ input' = "request" => Len(response') = FromCache'
                         /\ input' = "open" => FromPackets' >= HeaderLen
    <2> SUFFICES ASSUME ~miscounted'
                 PROVE  /\ input' = "request" => Len(response') = FromCache'
                        /\ input' = "open" => FromPackets' >= HeaderLen
      OBVIOUS
    <2>1. Len(response) = FromCache /\ FromCache' = FromCache + Len(r.bytes)
      BY <1>1, <1>5 DEF InputInv
    <2>2. FromPackets' = FromCache'
      BY <1>5, <1>6, <1>9, <2>1
    <2> QED BY <1>7, <2>1, <2>2
  <1>11. InputInv'
    <2>1. avio' = <<>> /\ packets' = <<>> /\ FlattenSeq(packets') = <<>> /\ <<>> \o <<>> = <<>>
      BY <1>1, <1>3, FlattenEmpty
    <2>2. RunTo(avio', FromCache') /\ RunTo(FlattenSeq(packets'), FromAvio')
          /\ avio' \o FlattenSeq(packets') = <<>>
      BY <2>1, EmptyRun
    <2>3. input' # "body"
      BY <1>7
    <2> QED BY <1>5, <1>10, <2>1, <2>2, <2>3 DEF InputInv
  <1>12. UNCHANGED outputVars
    BY <1>2 DEF HasRead
  <1>13. MuxIsDrained'
    BY <1>1, <1>12 DEF MuxIsDrained, outputVars
  <1>14. ASSUME NEW v \in Viewers PROVE ViewerInv(v)' /\ StatusInv(v)'
    <2>1. ViewerInv(v) /\ StatusInv(v)
      BY DEF IInv
    <2>2. queue[v] = <<>> /\ received[v] = <<>>
      BY <1>1, <2>1 DEF ViewerInv
    <2>3. queue' = queue /\ received' = received /\ status' = status /\ out' = out
      BY <1>12 DEF outputVars
    <2>4. StatusInv(v)'
      BY <2>1, <2>3 DEF StatusInv
    <2>5. /\ FlattenSeq(queue'[v]) = <<>> /\ received'[v] = <<>> /\ queue'[v] = <<>>
          /\ <<>> \o <<>> = <<>> /\ Len(<<>>) = 0
      BY <2>2, <2>3, FlattenEmpty
    <2>6. ~miscounted' => FromMux(v)' = FromPackets'
      <3>1. ~miscounted' => FromCache' \in Int
        BY <1>5, <1>6, LenProperties
      <3>2. ~miscounted' => FromPackets' \in Int
        BY <1>9, <3>1
      <3>3. FromMux(v)' = FromPackets' - Len(FlattenSeq(queue'[v])) - Len(received'[v])
        BY DEF FromMux, FromQueue
      <3> QED BY <2>5, <3>2, <3>3
    <2>7. IsRun(<<>>)
      BY DEF IsRun
    <2>8. ~miscounted' /\ input' \in {"open", "body"} => FromMux(v)' >= HeaderLen
      BY <1>7, <1>10, <2>6
    <2> QED BY <2>4, <2>5, <2>7, <2>8, EmptyRun DEF ViewerInv
  <1> QED BY <1>8, <1>11, <1>13, <1>14 DEF IInv

\* Bytes read into libavformat stay behind those it has handed out.
LEMMA ReadIntoAvio ==
    ASSUME IInv, NEW n \in Nat, NEW r, ReadIsSound(r, n), HasRead(r),
           avio' = avio \o r.bytes, UNCHANGED <<packets, response>>,
           input \in {"open", "body"}, input' \in {"open", "body", "done"}, tries' \in 1..2
    PROVE  IInv'
  <1>1. TypeOK /\ InputInv
    BY DEF IInv
  <1>2. /\ miscounted => miscounted'
        /\ RunTo(Contents(cache'), arrived')
        /\ r.bytes \in Seq(Byte)
        /\ ~miscounted' => /\ ~miscounted /\ RunTo(r.bytes, FromCache')
                           /\ FromCache' = FromCache + Len(r.bytes)
    BY ReadMoves
  <1>3. /\ avio \in Seq(Byte) /\ FromCache \in Int /\ Len(r.bytes) \in Nat
        /\ Len(avio) \in Nat /\ FlattenSeq(packets) \in Seq(Byte)
    BY <1>1, <1>2, Sizes, LenProperties
  <1>4. avio' \in Seq(Byte) /\ Len(avio') = Len(avio) + Len(r.bytes)
    BY <1>2, <1>3, ConcatProperties, Zenon
  <1>5. TypeOK'
    <2>1. response' \in Seq(Byte)
      BY <1>1 DEF TypeOK
    <2> QED BY <1>1, <1>4, <2>1, ReadKeepsTypes
  <1>6. ~miscounted' => FromAvio' = FromAvio /\ FromPackets' = FromPackets
    <2> SUFFICES ASSUME ~miscounted' PROVE FromAvio' = FromAvio /\ FromPackets' = FromPackets
      OBVIOUS
    <2>1. FromCache' = FromCache + Len(r.bytes)
      BY <1>2
    <2>2. FromAvio' = FromAvio
      BY <1>3, <1>4, <2>1 DEF FromAvio
    <2> QED BY <2>2 DEF FromPackets
  <1>7. ~miscounted' => RunTo(avio', FromCache')
    <2> SUFFICES ASSUME ~miscounted' PROVE RunTo(avio', FromCache')
      OBVIOUS
    <2>1. RunTo(avio, FromCache) /\ RunTo(r.bytes, FromCache')
      BY <1>1, <1>2 DEF InputInv
    <2>2. FromCache' \in Int /\ FromCache' - Len(r.bytes) = FromCache
      BY <1>2, <1>3
    <2> DEFINE e == FromCache'
               b == r.bytes
    <2>3. RunTo(avio, e - Len(b)) /\ RunTo(b, e) /\ b \in Seq(Byte) /\ e \in Int
      BY <1>2, <2>1, <2>2
    <2> HIDE DEF e, b
    <2>4. RunTo(avio \o b, e)
      BY <1>3, <2>3, RunConcat, Zenon
    <2> QED BY <2>4 DEF e, b
  <1>8. InputInv'
    <2>1. ~miscounted' => RunTo(FlattenSeq(packets'), FromAvio') /\ FromPackets' >= HeaderLen
      BY <1>1, <1>2, <1>6 DEF InputInv
    <2> QED BY <1>2, <1>7, <2>1 DEF InputInv
  <1>9. MuxIsDrained' /\ \A v \in Viewers : ViewerInv(v)' /\ StatusInv(v)'
    <2>1. UNCHANGED outputVars
      BY DEF HasRead
    <2> QED BY <1>2, <1>6, <2>1, ViewersLeftAlone
  <1> QED BY <1>5, <1>8, <1>9 DEF IInv

LEMMA OpenReadsKeeps ==
    ASSUME IInv, OpenReads
    PROVE  IInv'
  <1>1. TypeOK /\ InputInv
    BY DEF IInv
  <1>2. input = "open" /\ UNCHANGED <<response, input, tries, packets>>
    BY DEF OpenReads
  <1> PICK n \in 1..(AvioSize - Len(avio)) :
        \E r \in CachedRead(n) : HasRead(r) /\ avio' = avio \o r.bytes
    BY DEF OpenReads
  <1>3. PICK r \in CachedRead(n) : HasRead(r) /\ avio' = avio \o r.bytes
    OBVIOUS
  <1>4. n \in Nat
    OBVIOUS
  <1>5. IsRing(cache, Byte) /\ RunTo(Contents(cache), arrived) /\ tries' \in 1..2
    BY <1>1, <1>2 DEF TypeOK, InputInv
  <1>6. ReadIsSound(r, n)
    BY <1>1, <1>4, <1>5, Sizes, CachedReadIsSound
  <1> QED BY <1>2, <1>3, <1>4, <1>5, <1>6, ReadIntoAvio

LEMMA FrameReadsKeeps ==
    ASSUME IInv, FrameReads
    PROVE  IInv'
  <1>1. TypeOK /\ InputInv
    BY DEF IInv
  <1>2. input = "body" /\ UNCHANGED <<response, packets>>
    BY DEF FrameReads
  <1> DEFINE Read(r) ==
          /\ HasRead(r)
          /\ avio' = avio \o r.bytes
          /\ IF r.bytes # <<>> THEN UNCHANGED <<input, tries>>
             ELSE /\ tries' = 2
                  /\ input' = IF tries = 2 \/ loop = "off" THEN "done" ELSE input
  <1> PICK n \in 1..(AvioSize - Len(avio)) : \E r \in DirectRead(n) : Read(r)
    BY DEF FrameReads
  <1>3. PICK r \in DirectRead(n) : Read(r)
    OBVIOUS
  <1>4. n \in Nat
    OBVIOUS
  <1>5. IsRing(cache, Byte) /\ RunTo(Contents(cache), arrived) /\ tries \in 1..2
    BY <1>1 DEF TypeOK, InputInv
  <1>6. ReadIsSound(r, n)
    BY <1>1, <1>4, <1>5, Sizes, DirectReadIsSound
  <1>7. input' \in {"open", "body", "done"} /\ tries' \in 1..2
    BY <1>2, <1>3, <1>5
  <1> QED BY <1>2, <1>3, <1>4, <1>6, <1>7, ReadIntoAvio

LEMMA OpenEndsKeeps ==
    ASSUME IInv, OpenSucceeds \/ OpenFails
    PROVE  IInv'
  <1>1. /\ input = "open" /\ input' \in {"body", "crashed"}
        /\ UNCHANGED <<total, length, arrived, cache, response, avio, tries, packets, loop,
                       outputVars, miscounted>>
    BY DEF OpenSucceeds, OpenFails
  <1>2. TypeOK /\ InputInv
    BY DEF IInv
  <1>3. TypeOK'
    <2>1. \A v \in Viewers : IsRing(mux'[v], Byte)
      BY <1>1, <1>2 DEF TypeOK, outputVars
    <2> QED BY <1>1, <1>2, <2>1 DEF TypeOK, outputVars
  <1>4. FromCache' = FromCache /\ FromAvio' = FromAvio /\ FromPackets' = FromPackets
    BY <1>1 DEF FromCache, FromAvio, FromPackets
  <1>5. InputInv'
    BY <1>1, <1>2, <1>4 DEF InputInv
  <1>6. MuxIsDrained' /\ \A v \in Viewers : ViewerInv(v)' /\ StatusInv(v)'
    BY <1>1, <1>4, ViewersLeftAlone
  <1> QED BY <1>3, <1>5, <1>6 DEF IInv

\* A frame takes the first bytes from libavformat to the end of the packets.
LEMMA FrameIsReadKeeps ==
    ASSUME IInv, FrameIsRead
    PROVE  IInv'
  <1>1. TypeOK /\ InputInv /\ input = "body" /\ input' \in {"body", "done"}
    BY DEF IInv, FrameIsRead
  <1>2. UNCHANGED <<total, length, arrived, cache, response, tries, loop, outputVars,
                    miscounted>>
    BY DEF FrameIsRead
  <1>3. PICK n \in 1..Len(avio) : /\ packets' = Append(packets, SubSeq(avio, 1, n))
                                  /\ avio' = SubSeq(avio, n + 1, Len(avio))
    BY DEF FrameIsRead
  <1> DEFINE x == SubSeq(avio, 1, n)
             f == FlattenSeq(packets)
  <1>4. avio \in Seq(Byte) /\ n \in 0..Len(avio) /\ packets \in Seq(Seq(Byte))
        /\ FromCache \in Int /\ f \in Seq(Byte)
    BY <1>1, Sizes DEF TypeOK
  <1>5. /\ x \in Seq(Byte) /\ Len(x) = n
        /\ avio' \in Seq(Byte) /\ Len(avio') = Len(avio) - n
        /\ x \o avio' = avio
    BY <1>3, <1>4, Cut
  <1>6. packets' \in Seq(Seq(Byte)) /\ FlattenSeq(packets') = f \o x
    <2> HIDE DEF x
    <2>1. packets' \in Seq(Seq(Byte))
      BY <1>3, <1>4, <1>5, AppendProperties DEF x
    <2>2. FlattenSeq(Append(packets, x)) = f \o x
      BY <1>4, <1>5, FlattenAppend
    <2> QED BY <1>3, <2>1, <2>2 DEF x
  <1> HIDE DEF x, f
  <1>7. TypeOK'
    <2>1. \A v \in Viewers : IsRing(mux'[v], Byte)
      BY <1>1, <1>2 DEF TypeOK, outputVars
    <2> QED BY <1>1, <1>2, <1>5, <1>6, <2>1 DEF TypeOK, outputVars
  <1>8. FromCache' = FromCache /\ FromAvio' = FromAvio + n /\ FromPackets' = FromPackets
        /\ FromAvio \in Int /\ n \in Nat
    <2>1. FromCache' = FromCache
      BY <1>2 DEF FromCache
    <2>2. FromAvio' = FromAvio + n /\ FromAvio \in Int /\ n \in Nat
      BY <1>4, <1>5, <2>1, LenProperties DEF FromAvio
    <2>3. Len(f \o x) = Len(f) + Len(x) /\ Len(f) \in Nat
      BY <1>4, <1>5, ConcatProperties, LenProperties, Zenon
    <2>4. Len(FlattenSeq(packets')) = Len(f) + n
      BY <1>5, <1>6, <2>3
    <2>5. FromPackets' = FromAvio' - Len(FlattenSeq(packets'))
          /\ FromPackets = FromAvio - Len(f)
      BY DEF FromPackets, f
    <2> QED BY <2>1, <2>2, <2>3, <2>4, <2>5
  <1>9. ~miscounted => RunTo(avio', FromCache) /\ RunTo(f \o x, FromAvio + n)
    <2> SUFFICES ASSUME ~miscounted PROVE RunTo(avio', FromCache) /\ RunTo(f \o x, FromAvio + n)
      OBVIOUS
    <2>1. RunTo(avio, FromCache) /\ RunTo(f, FromAvio)
      BY <1>1 DEF InputInv, f
    <2>2. RunTo(avio', FromCache) /\ RunTo(x, FromCache - Len(avio'))
      <3> DEFINE y == avio'
      <3>1. RunTo(x \o y, FromCache) /\ y \in Seq(Byte)
        BY <1>5, <2>1
      <3> HIDE DEF y
      <3>2. RunTo(y, FromCache) /\ RunTo(x, FromCache - Len(y))
        BY <1>4, <1>5, <3>1, RunConcat
      <3> QED BY <3>2 DEF y
    <2> DEFINE e == FromAvio + n
    <2>3. e \in Int /\ e - Len(x) = FromAvio /\ FromCache - Len(avio') = e
      BY <1>4, <1>5, <1>8, LenProperties DEF FromAvio
    <2> HIDE DEF e
    <2>4. RunTo(x, e) /\ RunTo(f, e - Len(x))
      BY <2>1, <2>2, <2>3
    <2>5. RunTo(f \o x, e)
      BY <1>4, <1>5, <2>3, <2>4, RunConcat, Zenon
    <2> QED BY <2>2, <2>5 DEF e
  <1>10. InputInv'
    BY <1>1, <1>2, <1>6, <1>8, <1>9 DEF InputInv
  <1>11. MuxIsDrained' /\ \A v \in Viewers : ViewerInv(v)' /\ StatusInv(v)'
    BY <1>1, <1>2, <1>8, ViewersLeftAlone
  <1> QED BY <1>7, <1>10, <1>11 DEF IInv

-----------------------------------------------------------------------------
(* The channel's coroutine.                                                  *)

\* A viewer whose own variables stay keeps its invariant.
LEMMA ViewerLeftAlone ==
    ASSUME IInv, UNCHANGED <<inputVars, packets, miscounted>>, NEW v \in Viewers,
           out'[v] = out[v], queue'[v] = queue[v], status'[v] = status[v],
           received'[v] = received[v], failed'[v] = failed[v]
    PROVE  ViewerInv(v)' /\ StatusInv(v)'
  <1>1. ViewerInv(v) /\ StatusInv(v)
    BY DEF IInv
  <1>2. FromPackets' = FromPackets /\ input' = input /\ miscounted' = miscounted
    BY InputLeftAlone DEF inputVars
  <1>3. FromQueue(v)' = FromQueue(v) /\ FromMux(v)' = FromMux(v)
    BY <1>2 DEF FromQueue, FromMux
  <1>4. v \in Attached' <=> v \in Attached
    BY DEF Attached
  <1>5. StatusInv(v)'
    BY <1>1 DEF StatusInv
  <1>6. ViewerInv(v)'
    BY <1>1, <1>2, <1>3, <1>4 DEF ViewerInv
  <1> QED BY <1>5, <1>6

\* A dispatched packet goes from the head of the input's queue to the end of the
\* queue of each running output.
LEMMA DispatchKeeps ==
    ASSUME IInv, Dispatch, packets # <<>>, loop' \in {"top", "wait", "off"},
           UNCHANGED <<inputVars, out, stop, status, mux, received, failed, miscounted>>
    PROVE  IInv'
  <1> DEFINE p == Head(packets)
             rest == FlattenSeq(packets')
             f == FlattenSeq(packets)
  <1>1. TypeOK /\ InputInv /\ miscounted \in BOOLEAN
    BY DEF IInv, TypeOK
  <1>2. /\ packets \in Seq(Seq(Byte)) /\ packets' = Tail(packets) /\ p \in Seq(Byte)
        /\ packets' \in Seq(Seq(Byte)) /\ f = p \o rest
        /\ f \in Seq(Byte) /\ rest \in Seq(Byte)
    <2>1. packets \in Seq(Seq(Byte)) /\ packets' = Tail(packets)
      BY <1>1 DEF TypeOK, Dispatch
    <2>2. p \in Seq(Byte) /\ Tail(packets) \in Seq(Seq(Byte))
      BY <2>1, HeadTailProperties
    <2>3. f = p \o FlattenSeq(Tail(packets))
      BY <2>1, FlattenHead
    <2>4. f \in Seq(Byte) /\ FlattenSeq(Tail(packets)) \in Seq(Byte)
      BY <2>1, <2>2, FlattenType
    <2> QED BY <2>1, <2>2, <2>3, <2>4
  <1>3. ASSUME NEW v \in Viewers
        PROVE  /\ queue'[v] \in Seq(Seq(Byte))
               /\ v \notin Attached => queue'[v] = queue[v]
               /\ v \in Attached => FlattenSeq(queue'[v]) = FlattenSeq(queue[v]) \o p
    <2>1. queue'[v] = IF v \in Attached THEN Append(queue[v], p) ELSE queue[v]
      BY DEF Dispatch
    <2>2. queue[v] \in Seq(Seq(Byte))
      BY <1>1 DEF TypeOK
    <2> HIDE DEF p
    <2>3. Append(queue[v], p) \in Seq(Seq(Byte))
      BY <1>2, <2>2, AppendProperties
    <2>4. FlattenSeq(Append(queue[v], p)) = FlattenSeq(queue[v]) \o p
      BY <1>2, <2>2, FlattenAppend
    <2> QED BY <2>1, <2>2, <2>3, <2>4
  <1>4. TypeOK'
    <2>1. queue' \in [Viewers -> Seq(Seq(Byte))]
      BY <1>3 DEF Dispatch
    <2>2. \A v \in Viewers : IsRing(mux'[v], Byte)
      BY <1>1 DEF TypeOK
    <2> QED BY <1>1, <1>2, <2>1, <2>2 DEF TypeOK, inputVars
  <1> HIDE DEF p, rest, f
  <1>5. /\ Len(p) \in Nat /\ Len(rest) \in Nat /\ Len(f) = Len(p) + Len(rest)
        /\ FromAvio \in Int /\ FromPackets \in Int
    <2>1. Len(p \o rest) = Len(p) + Len(rest)
      BY <1>2, ConcatProperties, Zenon
    <2> QED BY <1>1, <1>2, <2>1, Sizes, LenProperties
  <1>6. /\ FromCache' = FromCache /\ FromAvio' = FromAvio
        /\ FromPackets' = FromPackets + Len(p) /\ FromPackets' = FromAvio - Len(rest)
    <2>1. FromCache' = FromCache
      BY DEF FromCache, inputVars
    <2>2. FromAvio' = FromAvio
      BY <2>1 DEF FromAvio, inputVars
    <2>3. FromPackets = FromAvio - Len(f)
      BY DEF FromPackets, f
    <2>4. FromPackets' = FromAvio - Len(rest)
      BY <2>2 DEF FromPackets, rest
    <2> QED BY <1>5, <2>1, <2>2, <2>3, <2>4
  <1>7. ~miscounted => RunTo(rest, FromAvio) /\ RunTo(p, FromPackets')
    <2> SUFFICES ASSUME ~miscounted PROVE RunTo(rest, FromAvio) /\ RunTo(p, FromPackets')
      OBVIOUS
    <2>1. RunTo(p \o rest, FromAvio)
      BY <1>1, <1>2 DEF InputInv, f
    <2> QED BY <1>2, <1>5, <1>6, <2>1, RunConcat
  <1>8. input # "request" /\ input' = input /\ avio' = avio
    BY <1>1 DEF InputInv, inputVars
  <1>9. ~miscounted => (f # <<>> => FromPackets >= HeaderLen) /\ HeaderLen \in Nat
                       /\ (avio \o f # <<>> => FromPackets >= HeaderLen)
                       /\ (input \in {"open", "body"} => FromPackets >= HeaderLen)
    <2>1. f # <<>> => avio \o f # <<>>
      <3>1. avio \in Seq(Byte)
        BY <1>1 DEF TypeOK
      <3> QED BY <1>2, <3>1
    <2> QED BY <1>1, <2>1, SizesAssumption DEF InputInv, f
  <1>10. InputInv'
    <2>1. avio \o rest # <<>> => avio \o f # <<>>
      <3>1. avio \in Seq(Byte)
        BY <1>1 DEF TypeOK
      <3>2. rest # <<>> => f # <<>>
        BY <1>2
      <3> QED BY <1>2, <3>1, <3>2
    <2>2. ~miscounted => /\ (avio \o rest # <<>> => FromPackets' >= HeaderLen)
                         /\ (input \in {"open", "body"} => FromPackets' >= HeaderLen)
      BY <1>5, <1>6, <1>9, <2>1
    <2> QED BY <1>1, <1>6, <1>7, <1>8, <2>2 DEF InputInv, inputVars, rest
  <1>11. MuxIsDrained'
    BY DEF IInv, MuxIsDrained
  <1>12. ASSUME NEW v \in Viewers PROVE ViewerInv(v)' /\ StatusInv(v)'
    <2> DEFINE q == FlattenSeq(queue[v])
               r == received[v]
    <2>1. ViewerInv(v) /\ StatusInv(v)
      BY DEF IInv
    <2>2. StatusInv(v)'
      BY <2>1 DEF StatusInv
    <2>3. v \in Attached' <=> v \in Attached
      BY DEF Attached
    <2>4. q \in Seq(Byte) /\ r \in Seq(Byte) /\ FromQueue(v) \in Int /\ FromMux(v) \in Int
      BY <1>1, Sizes
    <2>5. CASE v \notin Attached
      <3>1. queue'[v] = queue[v]
        BY <1>3, <2>5
      <3> QED BY <1>8, <2>1, <2>2, <2>3, <2>5, <3>1 DEF ViewerInv
    <2>6. CASE v \in Attached
      <3>1. FlattenSeq(queue'[v]) = q \o p
        BY <1>3, <2>6
      <3> HIDE DEF q
      <3>2. Len(q \o p) = Len(q) + Len(p) /\ Len(q) \in Nat
        BY <1>2, <2>4, ConcatProperties, LenProperties, Zenon
      <3>3. FromQueue(v)' = FromQueue(v)
        <4>1. FromQueue(v) = FromPackets - Len(q)
          BY DEF FromQueue, q
        <4>2. FromQueue(v)' = FromPackets' - Len(q \o p)
          BY <3>1 DEF FromQueue
        <4> QED BY <1>5, <1>6, <3>2, <4>1, <4>2
      <3>4. FromMux(v)' = FromMux(v)
        BY <3>3 DEF FromMux
      <3>5. ~miscounted /\ ~failed[v] => RunTo(q \o p, FromPackets')
        <4> SUFFICES ASSUME ~miscounted, ~failed[v] PROVE RunTo(q \o p, FromPackets')
          OBVIOUS
        <4> DEFINE e == FromPackets'
        <4>1. RunTo(q, FromPackets)
          BY <2>1, <2>6 DEF ViewerInv, q
        <4>2. e \in Int /\ e - Len(p) = FromPackets
          BY <1>5, <1>6
        <4>3. RunTo(p, e)
          BY <1>7
        <4> HIDE DEF e
        <4>4. RunTo(q, e - Len(p))
          BY <4>1, <4>2
        <4>5. RunTo(q \o p, e)
          BY <1>2, <2>4, <4>2, <4>3, <4>4, RunConcat, Zenon
        <4> QED BY <4>5 DEF e
      <3>6. out[v] # "off" /\ out[v] # "done" /\ out'[v] = out[v]
        BY <2>6 DEF Attached
      <3>7. ~miscounted /\ ~failed[v] =>
               /\ RunTo(r, FromQueue(v)')
               /\ input \in {"open", "body"} => FromMux(v)' >= HeaderLen
               /\ r \o q # <<>> => FromMux(v)' >= HeaderLen
        BY <2>1, <2>6, <3>3, <3>4 DEF ViewerInv, q
      <3>8. ~miscounted /\ ~failed[v] /\ r \o (q \o p) # <<>> => FromMux(v)' >= HeaderLen
        <4> SUFFICES ASSUME ~miscounted, ~failed[v], r \o (q \o p) # <<>>
                     PROVE  FromMux(v)' >= HeaderLen
          OBVIOUS
        <4>1. CASE r \o q # <<>>
          BY <3>7, <4>1
        <4>2. CASE r \o q = <<>>
          <5>1. r = <<>> /\ q = <<>>
            BY <2>4, <4>2
          <5>2. p # <<>>
            BY <1>2, <5>1
          <5>3. f # <<>>
            BY <1>2, <5>2
          <5>4. FromPackets >= HeaderLen /\ HeaderLen \in Nat
            BY <1>9, <5>3
          <5>5. FromMux(v) = FromPackets - 0 - 0
            <6>1. FromMux(v) = FromPackets - Len(q) - Len(r)
              BY DEF FromMux, FromQueue, q
            <6>2. Len(q) = 0 /\ Len(r) = 0
              BY <5>1
            <6> QED BY <6>1, <6>2
          <5> QED BY <1>5, <3>4, <5>4, <5>5
        <4> QED BY <4>1, <4>2
      <3>9. ViewerInv(v)'
        BY <1>8, <2>3, <3>1, <3>5, <3>6, <3>7, <3>8 DEF ViewerInv
      <3> QED BY <2>2, <3>9
    <2> QED BY <2>5, <2>6
  <1> QED BY <1>4, <1>10, <1>11, <1>12 DEF IInv

LEMMA LoopStepKeeps ==
    ASSUME IInv, LoopStep
    PROVE  IInv'
  <1>1. TypeOK
    BY DEF IInv
  <1>2. CASE /\ packets # <<>> /\ Dispatch /\ loop' \in {"top", "wait", "off"}
             /\ UNCHANGED <<inputVars, out, stop, status, mux, received, failed, miscounted>>
    BY <1>2, DispatchKeeps
  <1>3. CASE /\ loop' \in {"wait", "off"} /\ stop' \in [Viewers -> BOOLEAN]
             /\ UNCHANGED <<inputVars, packets, out, queue, status, mux, received, failed,
                            miscounted>>
    <2>1. TypeOK'
      <3>1. \A v \in Viewers : IsRing(mux'[v], Byte)
        BY <1>1, <1>3 DEF TypeOK
      <3> QED BY <1>1, <1>3, <3>1 DEF TypeOK, inputVars
    <2>2. InputInv' /\ MuxIsDrained'
      BY <1>3, InputLeftAlone DEF IInv, MuxIsDrained
    <2>3. \A v \in Viewers : ViewerInv(v)' /\ StatusInv(v)'
      BY <1>3, ViewerLeftAlone
    <2> QED BY <2>1, <2>2, <2>3 DEF IInv
  <1>4. CASE LoopFetches
    BY <1>1, <1>2, <1>3, <1>4 DEF LoopFetches, TypeOK
  <1>5. CASE LoopWakes
    BY <1>2, <1>5 DEF LoopWakes
  <1>6. CASE LoopEnds
    <2>1. \A v \in Viewers : (stop[v] \/ v \in Attached) \in BOOLEAN
      BY <1>1 DEF TypeOK
    <2> QED BY <1>3, <1>6, <2>1 DEF LoopEnds
  <1> QED BY <1>4, <1>5, <1>6 DEF LoopStep

-----------------------------------------------------------------------------
(* An output.                                                                *)

\* What a running viewer has received and what is queued for it, a run after
\* the header.
LEMMA ViewerHasARun ==
    ASSUME IInv, NEW v \in Attached, ~miscounted, ~failed[v]
    PROVE  /\ RunTo(received[v] \o FlattenSeq(queue[v]), FromPackets)
           /\ received[v] \o FlattenSeq(queue[v]) # <<>>
                 => (received[v] \o FlattenSeq(queue[v]))[1] > HeaderLen
           /\ IsRun(received[v])
           /\ received[v] # <<>> => received[v][1] > HeaderLen
  <1> DEFINE q == FlattenSeq(queue[v])
             r == received[v]
             u == r \o q
  <1>1. v \in Viewers /\ TypeOK
    BY DEF Attached, IInv
  <1>2. /\ RunTo(q, FromPackets) /\ RunTo(r, FromQueue(v))
        /\ u # <<>> => FromMux(v) >= HeaderLen
    BY <1>1 DEF IInv, ViewerInv
  <1>3. /\ q \in Seq(Byte) /\ r \in Seq(Byte)
        /\ FromPackets \in Int /\ FromQueue(v) \in Int /\ FromMux(v) \in Int
        /\ HeaderLen \in Nat
    BY <1>1, Sizes, SizesAssumption
  <1>4. /\ FromQueue(v) = FromPackets - Len(q) /\ FromMux(v) = FromQueue(v) - Len(r)
        /\ Len(q) \in Nat /\ Len(r) \in Nat
    BY <1>3, LenProperties DEF FromQueue, FromMux
  <1> HIDE DEF q, r
  <1>5. u \in Seq(Byte) /\ Len(u) = Len(r) + Len(q)
    BY <1>3, ConcatProperties, Zenon
  <1>6. RunTo(u, FromPackets)
    <2>1. RunTo(r, FromPackets - Len(q))
      BY <1>2, <1>4
    <2> QED BY <1>2, <1>3, <2>1, RunConcat, Zenon
  <1>7. u # <<>> => u[1] > HeaderLen
    <2>1. u # <<>> => u[1] = FromPackets - Len(u) + 1
      <3> HIDE DEF u
      <3> QED BY <1>3, <1>5, <1>6, RunIsRun, Zenon
    <2> DEFINE x == u[1]
               n == Len(u)
    <2>2. n = Len(r) + Len(q) /\ (u # <<>> => x = FromPackets - n + 1)
      BY <1>5, <2>1
    <2> HIDE DEF x, n
    <2>3. u # <<>> => x > HeaderLen
      BY <1>2, <1>3, <1>4, <2>2
    <2> QED BY <2>3 DEF x
  <1>8. IsRun(r) /\ (r # <<>> => r[1] = FromQueue(v) - Len(r) + 1)
    BY <1>2, <1>3, RunIsRun, Zenon
  <1>9. r # <<>> => r[1] > HeaderLen
    <2>1. r # <<>> => u # <<>>
      BY <1>3
    <2> DEFINE x == r[1]
    <2>2. r # <<>> => x = FromQueue(v) - Len(r) + 1
      BY <1>8
    <2> HIDE DEF x, u
    <2>3. r # <<>> => x > HeaderLen
      BY <1>2, <1>3, <1>4, <2>1, <2>2
    <2> QED BY <2>3 DEF x
  <1> QED BY <1>6, <1>7, <1>8, <1>9 DEF q, r

LEMMA OutputSendsKeeps ==
    ASSUME IInv, NEW v \in Viewers, OutputSends(v)
    PROVE  IInv'
  <1> DEFINE p == Head(queue[v])
             q == FlattenSeq(queue[v])
             rest == FlattenSeq(queue'[v])
             r == received[v]
  <1>1. /\ TypeOK /\ InputInv /\ ViewerInv(v) /\ StatusInv(v) /\ ReadLeft(mux[v]) = 0
        /\ miscounted \in BOOLEAN /\ failed[v] \in BOOLEAN
    BY DEF IInv, MuxIsDrained, TypeOK
  <1>2. /\ v \in Attached /\ out[v] \notin {"off", "done"} /\ queue[v] # <<>>
        /\ queue' = [queue EXCEPT ![v] = Tail(@)]
        /\ status' = [status EXCEPT ![v] = IF @ = "none" THEN "200" ELSE @]
        /\ UNCHANGED <<inputVars, packets, loop, stop, miscounted>>
    BY DEF OutputSends, Attached
  <1>3. PICK h \in HandleOutput(mux[v], p) :
          /\ mux' = [mux EXCEPT ![v] = h.ring]
          /\ received' = [received EXCEPT ![v] = @ \o h.sent]
          /\ failed' = [failed EXCEPT ![v] = @ \/ ~h.ok]
          /\ out' = [out EXCEPT ![v] = IF h.fits THEN "top" ELSE "done"]
    BY DEF OutputSends
  <1>4. /\ queue[v] \in Seq(Seq(Byte)) /\ queue'[v] = Tail(queue[v]) /\ p \in Seq(Byte)
        /\ queue'[v] \in Seq(Seq(Byte)) /\ q = p \o rest
        /\ q \in Seq(Byte) /\ rest \in Seq(Byte) /\ r \in Seq(Byte)
    <2>1. queue[v] \in Seq(Seq(Byte)) /\ queue'[v] = Tail(queue[v]) /\ r \in Seq(Byte)
      BY <1>1, <1>2 DEF TypeOK
    <2>2. p \in Seq(Byte) /\ Tail(queue[v]) \in Seq(Seq(Byte))
      BY <1>2, <2>1, HeadTailProperties
    <2>3. q = p \o FlattenSeq(Tail(queue[v]))
      BY <1>2, <2>1, FlattenHead
    <2>4. q \in Seq(Byte) /\ FlattenSeq(Tail(queue[v])) \in Seq(Byte)
      BY <2>1, <2>2, FlattenType
    <2> QED BY <2>1, <2>2, <2>3, <2>4
  <1> HIDE DEF p, q, rest, r
  <1>5. HandledWell(h, p)
    <2>1. IsRing(mux[v], Byte)
      BY <1>1 DEF TypeOK
    <2> QED BY <1>1, <1>3, <1>4, <2>1, HandleOutputSends
  <1>6. /\ mux'[v] = h.ring /\ received'[v] = r \o h.sent
        /\ failed'[v] = (failed[v] \/ ~h.ok)
        /\ out'[v] = IF h.fits THEN "top" ELSE "done"
        /\ status'[v] = IF status[v] = "none" THEN "200" ELSE status[v]
    <2>1. mux'[v] = h.ring
      <3>1. v \in DOMAIN mux
        BY <1>1 DEF TypeOK
      <3> QED BY <1>3, <3>1
    <2>2. /\ received'[v] = r \o h.sent
          /\ failed'[v] = (failed[v] \/ ~h.ok)
          /\ out'[v] = IF h.fits THEN "top" ELSE "done"
          /\ status'[v] = IF status[v] = "none" THEN "200" ELSE status[v]
      BY <1>1, <1>2, <1>3 DEF TypeOK, r
    <2> QED BY <2>1, <2>2
  <1>7. \A w \in Viewers \ {v} :
           /\ mux'[w] = mux[w] /\ received'[w] = received[w] /\ failed'[w] = failed[w]
           /\ out'[w] = out[w] /\ queue'[w] = queue[w] /\ status'[w] = status[w]
    BY <1>1, <1>2, <1>3 DEF TypeOK
  <1>8. /\ h.sent \in Seq(Byte) /\ h.ok \in BOOLEAN /\ h.fits \in BOOLEAN
        /\ IsRing(h.ring, Byte) /\ ReadLeft(h.ring) = 0
        /\ (h.fits /\ h.ok => h.sent = p) /\ (~h.fits => h.sent = <<>> /\ h.ok)
    BY <1>5 DEF HandledWell
  <1>9. r \o h.sent \in Seq(Byte)
    BY <1>4, <1>8, ConcatProperties, Zenon
  <1>10. TypeOK'
    <2>1. queue' \in [Viewers -> Seq(Seq(Byte))] /\ received' \in [Viewers -> Seq(Byte)]
      <3>1. ASSUME NEW w \in Viewers
            PROVE  queue'[w] \in Seq(Seq(Byte)) /\ received'[w] \in Seq(Byte)
        <4>1. queue[w] \in Seq(Seq(Byte)) /\ received[w] \in Seq(Byte)
          BY <1>1 DEF TypeOK
        <4>2. CASE w = v
          BY <1>4, <1>6, <1>9, <4>2
        <4>3. CASE w # v
          BY <1>7, <4>1, <4>3
        <4> QED BY <4>2, <4>3
      <3>2. queue' = [w \in Viewers |-> queue'[w]] /\ received' = [w \in Viewers |-> received'[w]]
        BY <1>1, <1>2, <1>3 DEF TypeOK
      <3> QED BY <3>1, <3>2
    <2>2. /\ status' \in [Viewers -> {"none", "200", "404"}]
          /\ failed' \in [Viewers -> BOOLEAN]
          /\ out' \in [Viewers -> {"off", "top", "wait", "done"}]
      BY <1>1, <1>2, <1>3, <1>8 DEF TypeOK
    <2>3. DOMAIN mux' = Viewers /\ \A w \in Viewers : IsRing(mux'[w], Byte)
      <3>1. \A w \in Viewers : IsRing(mux'[w], Byte)
        BY <1>1, <1>6, <1>7, <1>8 DEF TypeOK
      <3>2. DOMAIN mux' = Viewers
        BY <1>1, <1>3 DEF TypeOK
      <3> QED BY <3>1, <3>2
    <2> QED BY <1>1, <1>2, <2>1, <2>2, <2>3 DEF TypeOK, inputVars
  <1>11. InputInv' /\ FromPackets' = FromPackets
    BY <1>2, InputLeftAlone
  <1>12. MuxIsDrained'
    BY <1>6, <1>7, <1>8 DEF IInv, MuxIsDrained
  <1>13. ASSUME NEW w \in Viewers \ {v} PROVE ViewerInv(w)' /\ StatusInv(w)'
    BY <1>2, <1>7, ViewerLeftAlone
  <1>14. StatusInv(v)'
    <2>1. status[v] \in {"none", "200"}
      BY <1>1, <1>2 DEF StatusInv, TypeOK
    <2>2. status'[v] = "200"
      BY <1>6, <2>1
    <2> QED BY <2>2 DEF StatusInv
  <1>15. ViewerInv(v)'
    <2>1. input # "request" /\ input' = input /\ miscounted' = miscounted /\ out'[v] # "off"
      BY <1>1, <1>2, <1>6 DEF ViewerInv, inputVars
    <2>2. CASE miscounted \/ failed'[v]
      BY <2>1, <2>2 DEF ViewerInv
    <2>3. CASE ~miscounted /\ ~failed'[v] /\ ~h.fits
      <3>1. ~failed[v]
        BY <1>6, <2>3
      <3>2. IsRun(r) /\ (r # <<>> => r[1] > HeaderLen)
        BY <1>2, <2>3, <3>1, ViewerHasARun DEF r
      <3>3. received'[v] = r
        <4>1. r \o <<>> = r
          BY <1>4
        <4> QED BY <1>6, <1>8, <2>3, <4>1
      <3>4. out'[v] = "done" /\ v \notin Attached'
        BY <1>6, <2>3 DEF Attached
      <3> QED BY <2>1, <3>2, <3>3, <3>4 DEF ViewerInv
    <2>4. CASE ~miscounted /\ ~failed'[v] /\ h.fits
      <3>1. h.ok /\ ~failed[v]
        BY <1>6, <1>8, <2>4
      <3>2. received'[v] = r \o p /\ out'[v] = "top"
        BY <1>6, <1>8, <2>4, <3>1
      <3>3. /\ RunTo(q, FromPackets) /\ RunTo(r, FromQueue(v))
            /\ input \in {"open", "body"} => FromMux(v) >= HeaderLen
            /\ r \o q # <<>> => FromMux(v) >= HeaderLen
        BY <1>1, <1>2, <2>4, <3>1 DEF ViewerInv, q, r
      <3>4. /\ Len(p) \in Nat /\ Len(rest) \in Nat /\ Len(r) \in Nat
            /\ Len(q) = Len(p) + Len(rest) /\ Len(r \o p) = Len(r) + Len(p)
        <4>1. Len(p \o rest) = Len(p) + Len(rest) /\ Len(r \o p) = Len(r) + Len(p)
          BY <1>4, ConcatProperties, Zenon
        <4> QED BY <1>4, <4>1, LenProperties
      <3>5. FromPackets \in Int /\ FromQueue(v) = FromPackets - Len(q)
            /\ FromMux(v) = FromQueue(v) - Len(r)
        BY <1>1, Sizes DEF FromQueue, FromMux, q, r
      <3>6. FromQueue(v)' = FromPackets - Len(rest) /\ FromMux(v)' = FromQueue(v)' - Len(r \o p)
        BY <1>11, <3>2 DEF FromQueue, FromMux, rest
      <3>7. FromMux(v)' = FromMux(v) /\ FromQueue(v)' \in Int
            /\ FromQueue(v)' - Len(p) = FromQueue(v)
        BY <3>4, <3>5, <3>6
      <3>8. RunTo(rest, FromPackets) /\ RunTo(p, FromPackets - Len(rest))
        BY <1>4, <3>3, <3>5, RunConcat
      <3>9. RunTo(r \o p, FromQueue(v)')
        <4> DEFINE e == FromQueue(v)'
        <4>1. RunTo(r, e - Len(p)) /\ RunTo(p, e) /\ e \in Int
          BY <3>3, <3>6, <3>7, <3>8
        <4> HIDE DEF e
        <4>2. RunTo(r \o p, e)
          BY <1>4, <4>1, RunConcat, Zenon
        <4> QED BY <4>2 DEF e
      <3>10. (r \o p) \o rest # <<>> => FromMux(v)' >= HeaderLen
        <4>1. (r \o p) \o rest = r \o q
          <5>1. (r \o p) \o rest = r \o (p \o rest)
            BY <1>4, Associative, SMTT(30)
          <5> QED BY <1>4, <5>1
        <4> QED BY <3>3, <3>7, <4>1
      <3>11. /\ FromPackets' = FromPackets
             /\ RunTo(FlattenSeq(queue'[v]), FromPackets)
             /\ RunTo(received'[v], FromQueue(v)')
             /\ input \in {"open", "body"} => FromMux(v)' >= HeaderLen
             /\ received'[v] \o FlattenSeq(queue'[v]) # <<>> => FromMux(v)' >= HeaderLen
        BY <1>11, <3>2, <3>3, <3>7, <3>8, <3>9, <3>10 DEF rest
      <3> QED BY <2>1, <3>2, <3>11 DEF ViewerInv
    <2> QED BY <1>1, <1>8, <2>2, <2>3, <2>4
  <1> QED BY <1>10, <1>11, <1>12, <1>13, <1>14, <1>15 DEF IInv

\* An output that joins finds nothing in its queue.
LEMMA OutputJoinsKeeps ==
    ASSUME IInv, NEW v \in Viewers, OutputJoins(v)
    PROVE  IInv'
  <1>1. /\ TypeOK /\ InputInv /\ ViewerInv(v) /\ StatusInv(v)
    BY DEF IInv
  <1>2. /\ out[v] = "off" /\ out' = [out EXCEPT ![v] = "top"]
        /\ UNCHANGED <<inputVars, packets, loop, queue, stop, status, mux, received,
                       failed, miscounted>>
    BY DEF OutputJoins
  <1>3. TypeOK'
    <2>1. out' \in [Viewers -> {"off", "top", "wait", "done"}]
      BY <1>1, <1>2 DEF TypeOK
    <2>2. \A w \in Viewers : IsRing(mux'[w], Byte)
      BY <1>1, <1>2 DEF TypeOK
    <2> QED BY <1>1, <1>2, <2>1, <2>2 DEF TypeOK, inputVars
  <1>4. InputInv' /\ FromPackets' = FromPackets /\ MuxIsDrained'
    BY <1>2, InputLeftAlone DEF IInv, MuxIsDrained
  <1>5. ASSUME NEW w \in Viewers \ {v} PROVE ViewerInv(w)' /\ StatusInv(w)'
    BY <1>1, <1>2, ViewerLeftAlone DEF TypeOK
  <1>6. out'[v] = "top"
    BY <1>1, <1>2 DEF TypeOK
  <1>7. StatusInv(v)'
    BY <1>1, <1>2, <1>6 DEF StatusInv
  <1>8. ViewerInv(v)'
    <2>1. queue[v] = <<>> /\ received[v] = <<>>
      BY <1>1, <1>2 DEF ViewerInv
    <2>2. /\ FlattenSeq(queue'[v]) = <<>> /\ received'[v] = <<>> /\ queue'[v] = <<>>
          /\ <<>> \o <<>> = <<>> /\ Len(<<>>) = 0
      BY <1>2, <2>1, FlattenEmpty
    <2>3. FromMux(v)' = FromPackets
      <3>1. FromMux(v)' = FromPackets - Len(FlattenSeq(queue'[v])) - Len(received'[v])
        BY <1>4 DEF FromMux, FromQueue
      <3>2. FromPackets \in Int
        BY <1>1, Sizes
      <3> QED BY <2>2, <3>1, <3>2
    <2>4. ~miscounted /\ input \in {"open", "body"} => FromMux(v)' >= HeaderLen
      BY <1>1, <2>3 DEF InputInv
    <2>5. input' = input /\ miscounted' = miscounted
      BY <1>2 DEF inputVars
    <2> QED BY <1>6, <2>2, <2>4, <2>5, EmptyRun DEF ViewerInv
  <1> QED BY <1>3, <1>4, <1>5, <1>7, <1>8 DEF IInv

\* An output that waits goes on as it was; one that ends keeps what it has sent.
LEMMA OutputEndsKeeps ==
    ASSUME IInv, NEW v \in Viewers, OutputWaits(v) \/ OutputStopped(v) \/ OutputTimesOut(v)
    PROVE  IInv'
  <1>1. /\ TypeOK /\ InputInv /\ ViewerInv(v) /\ StatusInv(v)
    BY DEF IInv
  <1>2. PICK o \in {"wait", "done"} :
          /\ out' = [out EXCEPT ![v] = o]
          /\ out[v] \in {"top", "wait"}
          /\ \/ status' = status
             \/ o = "done" /\ status' = [status EXCEPT ![v] = IF @ = "none" THEN "404" ELSE @]
          /\ UNCHANGED <<inputVars, packets, loop, queue, stop, mux, received, failed,
                         miscounted>>
    BY DEF OutputWaits, OutputStopped, OutputTimesOut
  <1>3. TypeOK'
    <2>1. /\ out' \in [Viewers -> {"off", "top", "wait", "done"}]
          /\ status' \in [Viewers -> {"none", "200", "404"}]
      BY <1>1, <1>2 DEF TypeOK
    <2>2. \A w \in Viewers : IsRing(mux'[w], Byte)
      BY <1>1, <1>2 DEF TypeOK
    <2> QED BY <1>1, <1>2, <2>1, <2>2 DEF TypeOK, inputVars
  <1>4. InputInv' /\ FromPackets' = FromPackets /\ MuxIsDrained'
    BY <1>2, InputLeftAlone DEF IInv, MuxIsDrained
  <1>5. ASSUME NEW w \in Viewers \ {v} PROVE ViewerInv(w)' /\ StatusInv(w)'
    <2>1. out'[w] = out[w] /\ status'[w] = status[w]
      BY <1>1, <1>2 DEF TypeOK
    <2> QED BY <1>2, <2>1, ViewerLeftAlone
  <1>6. /\ out'[v] = o /\ v \in Attached
        /\ status'[v] = status[v] \/ (o = "done" /\ (status[v] # "none" => status'[v] = status[v]))
    BY <1>1, <1>2 DEF TypeOK, Attached
  <1>7. StatusInv(v)'
    BY <1>1, <1>2, <1>6 DEF StatusInv
  <1>8. ViewerInv(v)'
    <2>1. input' = input /\ miscounted' = miscounted /\ failed' = failed
          /\ queue' = queue /\ received' = received
      BY <1>2 DEF inputVars
    <2>2. CASE o = "wait"
      <3>1. v \in Attached' /\ out'[v] = "wait" /\ out[v] # "done"
        BY <1>2, <1>6, <2>2 DEF Attached
      <3>2. FromQueue(v)' = FromQueue(v) /\ FromMux(v)' = FromMux(v)
        BY <1>4, <2>1 DEF FromQueue, FromMux
      <3> QED BY <1>1, <1>4, <1>6, <2>1, <3>1, <3>2 DEF ViewerInv
    <2>3. CASE o = "done"
      <3>1. v \notin Attached' /\ out'[v] = "done"
        BY <1>6, <2>3 DEF Attached
      <3>2. ~miscounted /\ ~failed[v]
              => IsRun(received[v]) /\ (received[v] # <<>> => received[v][1] > HeaderLen)
        BY <1>6, ViewerHasARun
      <3>3. input = "request" => queue[v] = <<>> /\ received[v] = <<>>
        BY <1>1 DEF ViewerInv
      <3> QED BY <2>1, <3>1, <3>2, <3>3 DEF ViewerInv
    <2> QED BY <1>2, <2>2, <2>3
  <1> QED BY <1>3, <1>4, <1>5, <1>7, <1>8 DEF IInv

-----------------------------------------------------------------------------
(* The theorems.                                                             *)

\* A new buffer is an empty ring.
LEMMA NewRing ==
    ASSUME NEW n \in Nat, n >= 2
    PROVE  /\ IsRing(Ring(n, Zeros(n)), Byte)
           /\ ReadLeft(Ring(n, Zeros(n))) = 0
           /\ Contents(Ring(n, Zeros(n))) = <<>>
  <1> DEFINE b == Ring(n, Zeros(n))
  <1>1. b = [size |-> n, buf |-> Zeros(n), rpos |-> 0, wpos |-> 0]
    BY DEF Ring
  <1>2. Zeros(n) \in [0..(n - 1) -> Byte]
    BY DEF Zeros, Garbage, Byte
  <1> HIDE DEF b
  <1>3. IsRing(b, Byte)
    BY <1>1, <1>2 DEF IsRing
  <1>4. ReadLeft(b) = 0
    BY <1>1, <1>3, Lefts DEF Way
  <1>5. Contents(b) = <<>>
    BY <1>3, <1>4, ContentsType, EmptySeq
  <1> QED BY <1>3, <1>4, <1>5 DEF b

LEMMA InitHolds == Init => IInv
  <1> SUFFICES ASSUME Init PROVE IInv
    OBVIOUS
  <1>1. IsRing(cache, Byte) /\ Contents(cache) = <<>> /\ ReadLeft(cache) = 0
    BY SizesAssumption, NewRing DEF Init
  <1>2. \A v \in Viewers : IsRing(mux[v], Byte) /\ ReadLeft(mux[v]) = 0
    BY SizesAssumption, NewRing DEF Init
  <1>3. TypeOK
    <2>1. 0 \in 0..total
      BY SizesAssumption DEF Init
    <2>2. /\ <<>> \in Seq(Byte) /\ <<>> \in Seq(Seq(Byte))
      OBVIOUS
    <2>3. DOMAIN mux = Viewers /\ tries \in 1..2
      BY DEF Init
    <2>4. /\ queue \in [Viewers -> Seq(Seq(Byte))] /\ received \in [Viewers -> Seq(Byte)]
          /\ response \in Seq(Byte) /\ avio \in Seq(Byte) /\ packets \in Seq(Seq(Byte))
      BY <2>2 DEF Init
    <2>5. /\ length \in Lengths /\ total \in Totals /\ arrived \in 0..total
          /\ input \in {"request", "open", "body", "done", "crashed"}
          /\ loop \in {"top", "wait", "off"} /\ miscounted \in BOOLEAN
      BY <2>1 DEF Init
    <2>6. /\ out \in [Viewers -> {"off", "top", "wait", "done"}]
          /\ stop \in [Viewers -> BOOLEAN] /\ failed \in [Viewers -> BOOLEAN]
          /\ status \in [Viewers -> {"none", "200", "404"}]
      BY DEF Init
    <2> QED BY <1>1, <1>2, <2>3, <2>4, <2>5, <2>6, Zenon DEF TypeOK
  <1>4. MuxIsDrained
    BY <1>2 DEF MuxIsDrained
  <1>5. InputInv
    <2>1. /\ avio = <<>> /\ packets = <<>> /\ FlattenSeq(packets) = <<>> /\ response = <<>>
          /\ <<>> \o <<>> = <<>> /\ Len(<<>>) = 0 /\ input = "request" /\ arrived = 0
      BY FlattenEmpty DEF Init
    <2>2. FromCache = 0
      BY <1>1, <2>1 DEF FromCache
    <2> QED BY <1>1, <2>1, <2>2, EmptyRun DEF InputInv
  <1>6. ASSUME NEW v \in Viewers PROVE ViewerInv(v) /\ StatusInv(v)
    BY DEF Init, ViewerInv, StatusInv, Attached
  <1> QED BY <1>3, <1>4, <1>5, <1>6 DEF IInv

LEMMA StutterKeeps ==
    ASSUME IInv, UNCHANGED vars
    PROVE  IInv'
  <1>1. TypeOK'
    <2>1. TypeOK
      BY DEF IInv
    <2>2. DOMAIN mux' = Viewers /\ \A v \in Viewers : IsRing(mux'[v], Byte)
      BY <2>1 DEF TypeOK, vars, outputVars
    <2> QED BY <2>1, <2>2 DEF TypeOK, vars, inputVars, outputVars
  <1>2. InputInv' /\ MuxIsDrained'
    BY InputLeftAlone DEF IInv, MuxIsDrained, vars, outputVars
  <1>3. \A v \in Viewers : ViewerInv(v)' /\ StatusInv(v)'
    BY ViewerLeftAlone DEF vars, outputVars
  <1> QED BY <1>1, <1>2, <1>3 DEF IInv

LEMMA NextKeeps == IInv /\ [Next]_vars => IInv'
  <1> SUFFICES ASSUME IInv, [Next]_vars PROVE IInv'
    OBVIOUS
  <1>1. CASE RequestReads                 BY <1>1, RequestReadsKeeps
  <1>2. CASE OpenReads                    BY <1>2, OpenReadsKeeps
  <1>3. CASE OpenSucceeds \/ OpenFails    BY <1>3, OpenEndsKeeps
  <1>4. CASE FrameReads                   BY <1>4, FrameReadsKeeps
  <1>5. CASE FrameIsRead                  BY <1>5, FrameIsReadKeeps
  <1>6. CASE LoopStep                     BY <1>6, LoopStepKeeps
  <1>7. CASE \E v \in Viewers : OutputStep(v)
    <2> PICK v \in Viewers : OutputStep(v)
      BY <1>7
    <2>1. CASE OutputJoins(v)             BY <2>1, OutputJoinsKeeps
    <2>2. CASE OutputSends(v)             BY <2>2, OutputSendsKeeps
    <2>3. CASE OutputWaits(v) \/ OutputStopped(v) \/ OutputTimesOut(v)
      BY <2>3, OutputEndsKeeps
    <2> QED BY <2>1, <2>2, <2>3 DEF OutputStep
  <1>8. CASE UNCHANGED vars               BY <1>8, StutterKeeps
  <1> QED
    BY <1>1, <1>2, <1>3, <1>4, <1>5, <1>6, <1>7, <1>8 DEF Next, InputStep

LEMMA InvariantHolds == Spec => []IInv
  BY InitHolds, NextKeeps, PTL DEF Spec

\* The buffers stay rings, the queues sequences of packets and the states of
\* input, loop and outputs those the code has; never more arrives than is sent.
THEOREM TypeCorrect == Spec => []TypeOK
  BY InvariantHolds, PTL DEF IInv

\* RawMux has nothing left in its buffer when handle_output returns, although
\* flush_write ignores failed writes: it never gives up on a live viewer for
\* what an earlier packet left behind.
THEOREM MuxStaysDrained == Spec => []MuxIsDrained
  BY InvariantHolds, PTL DEF IInv

\* What HttpClient, BaseDeMux, dispatch and RawMux hand a viewer is an unbroken
\* part of the body, and a viewer told 404 gets none of it.
THEOREM RunsForAllViewers == Spec => []ViewersGetARun
  <1>1. ASSUME IInv PROVE ViewersGetARun
    <2> SUFFICES ASSUME NEW v \in Viewers
                 PROVE  LET all == received[v] \o (IF v \in Attached THEN FlattenSeq(queue[v])
                                                   ELSE <<>>) IN
                        /\ (~failed[v] /\ ~miscounted)
                              => (IsRun(all) /\ (all # <<>> => all[1] > HeaderLen))
                        /\ received[v] # <<>> => status[v] = "200"
      BY DEF ViewersGetARun
    <2>1. TypeOK /\ ViewerInv(v) /\ StatusInv(v)
      BY <1>1 DEF IInv
    <2>2. received[v] # <<>> => status[v] = "200"
      BY <2>1 DEF StatusInv
    <2>3. CASE v \in Attached
      <3> DEFINE u == received[v] \o FlattenSeq(queue[v])
      <3>1. u \in Seq(Byte) /\ FromPackets \in Int
        <4>1. received[v] \in Seq(Byte) /\ FlattenSeq(queue[v]) \in Seq(Byte)
              /\ FromPackets \in Int
          BY <2>1, Sizes
        <4> QED BY <4>1, ConcatProperties, Zenon
      <3>2. ~failed[v] /\ ~miscounted
              => RunTo(u, FromPackets) /\ (u # <<>> => u[1] > HeaderLen)
        BY <1>1, <2>3, ViewerHasARun
      <3> HIDE DEF u
      <3>3. ~failed[v] /\ ~miscounted => IsRun(u) /\ (u # <<>> => u[1] > HeaderLen)
        BY <3>1, <3>2, RunIsRun
      <3> QED BY <2>2, <2>3, <3>3 DEF u
    <2>4. CASE v \notin Attached
      <3>1. received[v] \in Seq(Byte) /\ out[v] \in {"off", "done"}
        BY <2>1, <2>4 DEF TypeOK, Attached
      <3>2. received[v] \o <<>> = received[v]
        BY <3>1
      <3>3. ~failed[v] /\ ~miscounted
              => IsRun(received[v]) /\ (received[v] # <<>> => received[v][1] > HeaderLen)
        <4>1. IsRun(<<>>)
          BY DEF IsRun
        <4> QED BY <2>1, <3>1, <4>1 DEF ViewerInv
      <3> QED BY <2>2, <2>4, <3>2, <3>3
    <2> QED BY <2>3, <2>4
  <1> QED BY <1>1, InvariantHolds, PTL

\* No buffer from the origin's connection to the viewer's drops or overtakes
\* another: IOBuffer, libavformat, both packet queues and RawMux hold together
\* every byte that has arrived since the viewer joined, in order.
THEOREM NothingIsLost == Spec => []NothingLostOnTheWay
  <1>1. ASSUME IInv PROVE NothingLostOnTheWay
    <2> SUFFICES ASSUME NEW v \in Attached, input \in {"open", "body"},
                        ~failed[v], ~miscounted
                 PROVE  LET way == received[v] \o FlattenSeq(queue[v]) \o FlattenSeq(packets)
                                     \o avio \o Contents(cache)
                        IN  way # <<>> => IsRun(way) /\ Last(way) = arrived
      BY DEF NothingLostOnTheWay
    <2> DEFINE a == received[v] \o FlattenSeq(queue[v])
               b == FlattenSeq(packets)
               c == avio
               d == Contents(cache)
               e == arrived
               way == ((a \o b) \o c) \o d
    <2>1. TypeOK /\ InputInv /\ v \in Viewers
      BY <1>1 DEF IInv, Attached
    <2>2. a \in Seq(Byte)
      <3>1. received[v] \in Seq(Byte) /\ FlattenSeq(queue[v]) \in Seq(Byte)
        BY <2>1, Sizes
      <3> QED BY <3>1, ConcatProperties, Zenon
    <2>3. /\ b \in Seq(Byte) /\ c \in Seq(Byte) /\ d \in Seq(Byte)
          /\ FromCache \in Int /\ FromAvio \in Int /\ e \in Int
      BY <2>1, Sizes
    <2>4. FromPackets = FromAvio - Len(b) /\ FromAvio = FromCache - Len(c)
          /\ FromCache = e - Len(d)
      <3>1. FromCache = e - ReadLeft(cache) /\ Len(d) = ReadLeft(cache)
        BY <2>1, Sizes DEF FromCache
      <3> QED BY <3>1 DEF FromPackets, FromAvio
    <2>5. /\ RunTo(a, FromPackets) /\ RunTo(b, FromAvio) /\ RunTo(c, FromCache)
          /\ RunTo(d, e)
      BY <1>1, <2>1, ViewerHasARun DEF InputInv
    <2> HIDE DEF a, b, c, d, e
    <2>6. RunTo(a \o b, FromAvio) /\ a \o b \in Seq(Byte)
      BY <2>2, <2>3, <2>4, <2>5, RunConcat, ConcatProperties, Zenon
    <2>7. RunTo((a \o b) \o c, FromCache) /\ (a \o b) \o c \in Seq(Byte)
      BY <2>3, <2>4, <2>5, <2>6, RunConcat, ConcatProperties, Zenon
    <2>8. RunTo(way, e) /\ way \in Seq(Byte)
      BY <2>3, <2>4, <2>5, <2>7, RunConcat, ConcatProperties, Zenon
    <2> HIDE DEF way
    <2>9. way # <<>> => IsRun(way) /\ Last(way) = e
      BY <2>3, <2>8, RunIsRun
    <2> QED BY <2>9 DEF way, a, b, c, d, e
  <1> QED BY <1>1, InvariantHolds, PTL
=============================================================================
