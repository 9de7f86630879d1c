-------------------------- MODULE HttpRequestProofs -------------------------
(* What a connection handler understands of a request, for every request     *)
(* that keeps to the grammar of HTTP and every way it arrives: the parser is *)
(* the inverse of what the client writes.  First the operators on texts.     *)
EXTENDS HttpRequest, FiniteSetTheorems, SequenceTheorems,
        WellFoundedInduction, TLAPS

LEMMA LessThan == \A i, j \in Nat : i < j => <<i, j>> \in OpToRel(<, Nat)
  BY DEF OpToRel

\* Induction on numbers in the form of a least counterexample.
LEMMA LeastNumber ==
    ASSUME NEW T \in SUBSET Nat, T # {}
    PROVE  \E x \in T : \A y \in T : x <= y
  <1>1. \E x \in T : \A y \in T : ~(<<y, x>> \in OpToRel(<, Nat))
    BY WFMin, NatLessThanWellFounded
  <1>2. \E x \in T : \A y \in T : ~(y < x)
    BY <1>1, LessThan, Zenon
  <1> QED BY <1>2

LEMMA MinIs ==
    ASSUME NEW T \in SUBSET Int, NEW m \in T, \A y \in T : m <= y
    PROVE  Min(T) = m
  <1>1. \E x \in T : \A y \in T : x <= y
    OBVIOUS
  <1>2. Min(T) \in T /\ \A y \in T : Min(T) <= y
    BY <1>1 DEF Min
  <1>3. Min(T) \in Int /\ m \in Int /\ Min(T) <= m /\ m <= Min(T)
    BY <1>2
  <1> QED BY <1>3

LEMMA MaxIs ==
    ASSUME NEW T \in SUBSET Int, NEW m \in T, \A y \in T : y <= m
    PROVE  Max(T) = m
  <1>1. \E x \in T : \A y \in T : x >= y
    OBVIOUS
  <1>2. Max(T) \in T /\ \A y \in T : Max(T) >= y
    BY <1>1 DEF Max
  <1>3. Max(T) \in Int /\ m \in Int /\ Max(T) <= m /\ m <= Max(T)
    BY <1>2
  <1> QED BY <1>3

\* Places of one word, and of two in a row.
LEMMA OneWord ==
    ASSUME NEW W, NEW data \in Seq(W), NEW i \in 1 .. Len(data), NEW t
    PROVE  SubSeq(data, i, i) = <<t>> <=> data[i] = t
  <1>1. /\ SubSeq(data, i, i) \in Seq(W) /\ Len(SubSeq(data, i, i)) = 1
        /\ SubSeq(data, i, i)[1] = data[i]
    OBVIOUS
  <1>2. data[i] \in W
    OBVIOUS
  <1>3. ASSUME data[i] = t PROVE SubSeq(data, i, i) = <<t>>
    <2>1. <<t>> \in Seq(W) /\ Len(<<t>>) = 1 /\ <<t>>[1] = t
      BY <1>2, <1>3
    <2> DEFINE p == SubSeq(data, i, i)
               q == <<t>>
    <2>2. p \in Seq(W) /\ q \in Seq(W) /\ Len(p) = Len(q) /\ \A j \in 1 .. Len(p) : p[j] = q[j]
      BY <1>1, <1>3, <2>1
    <2> HIDE DEF p, q
    <2>3. p = q
      BY <2>2, SeqEqual
    <2> QED BY <2>3 DEF p, q
  <1>4. ASSUME SubSeq(data, i, i) = <<t>> PROVE data[i] = t
    BY <1>1, <1>4
  <1> QED BY <1>3, <1>4

LEMMA TwoWords ==
    ASSUME NEW W, NEW data \in Seq(W), NEW t, NEW u
    PROVE  \A i \in 1 .. Len(data) - 1 :
              SubSeq(data, i, i + 1) = <<t, u>> <=> (data[i] = t /\ data[i + 1] = u)
  <1> TAKE i \in 1 .. Len(data) - 1
  <1>1. /\ SubSeq(data, i, i + 1) \in Seq(W) /\ Len(SubSeq(data, i, i + 1)) = 2
        /\ SubSeq(data, i, i + 1)[1] = data[i]
        /\ SubSeq(data, i, i + 1)[2] = data[i + 1]
    <2>1. i \in Int /\ i + 1 \in Int /\ i <= i + 1 /\ \A j \in i .. i + 1 : data[j] \in W
      OBVIOUS
    <2>2. /\ SubSeq(data, i, i + 1) \in Seq(W)
          /\ Len(SubSeq(data, i, i + 1)) = (i + 1) - i + 1
          /\ \A j \in 1 .. (i + 1) - i + 1 : SubSeq(data, i, i + 1)[j] = data[i + j - 1]
      BY <2>1, SubSeqProperties
    <2>3. 1 \in 1 .. (i + 1) - i + 1 /\ 2 \in 1 .. (i + 1) - i + 1
          /\ i + 1 - 1 = i /\ i + 2 - 1 = i + 1 /\ (i + 1) - i + 1 = 2
      OBVIOUS
    <2> QED BY <2>2, <2>3
  <1>2. data[i] \in W /\ data[i + 1] \in W
    OBVIOUS
  <1>3. ASSUME data[i] = t, data[i + 1] = u PROVE SubSeq(data, i, i + 1) = <<t, u>>
    <2>1. <<t, u>> \in Seq(W) /\ Len(<<t, u>>) = 2 /\ <<t, u>>[1] = t /\ <<t, u>>[2] = u
      BY <1>2, <1>3
    <2> DEFINE p == SubSeq(data, i, i + 1)
               q == <<t, u>>
    <2>2. p \in Seq(W) /\ q \in Seq(W) /\ Len(p) = Len(q) /\ \A j \in 1 .. Len(p) : p[j] = q[j]
      BY <1>1, <1>3, <2>1
    <2> HIDE DEF p, q
    <2>3. p = q
      BY <2>2, SeqEqual
    <2> QED BY <2>3 DEF p, q
  <1>4. ASSUME SubSeq(data, i, i + 1) = <<t, u>> PROVE data[i] = t /\ data[i + 1] = u
    <2>1. <<t, u>>[1] = t /\ <<t, u>>[2] = u
      OBVIOUS
    <2> QED BY <1>1, <1>4, <2>1, Zenon
  <1> QED BY <1>3, <1>4

\* find returns the first place of a word, or of two words in a row.
LEMMA FindWord ==
    ASSUME NEW W, NEW data \in Seq(W), NEW t, NEW from \in Nat, from > 0,
           NEW at \in from .. Len(data), data[at] = t,
           \A j \in from .. at - 1 : data[j] # t
    PROVE  find(data, <<t>>, from) = at
  <1> DEFINE S == {i \in from .. Len(data) - Len(<<t>>) + 1 :
                     SubSeq(data, i, i + Len(<<t>>) - 1) = <<t>>}
  <1>1. \A i \in from .. Len(data) : SubSeq(data, i, i) = <<t>> <=> data[i] = t
    BY OneWord
  <1>2. Len(<<t>>) = 1
    OBVIOUS
  <1>3. S = {i \in from .. Len(data) : data[i] = t}
    BY <1>1, <1>2
  <1> HIDE DEF S
  <1>4. Min(S) = at
    <2>1. S \in SUBSET Int /\ at \in S /\ \A y \in S : at <= y
      BY <1>3
    <2> QED BY <2>1, MinIs
  <1>5. S # {}
    BY <1>3
  <1> QED BY <1>4, <1>5 DEF find, S

LEMMA FindNoWord ==
    ASSUME NEW W, NEW data \in Seq(W), NEW t, NEW from \in Nat, from > 0,
           \A j \in from .. Len(data) : data[j] # t
    PROVE  find(data, <<t>>, from) = npos
  <1> DEFINE S == {i \in from .. Len(data) - Len(<<t>>) + 1 :
                     SubSeq(data, i, i + Len(<<t>>) - 1) = <<t>>}
  <1>1. \A i \in from .. Len(data) : SubSeq(data, i, i) = <<t>> <=> data[i] = t
    BY OneWord
  <1>2. Len(<<t>>) = 1
    OBVIOUS
  <1>3. S = {}
    BY <1>1, <1>2
  <1> QED BY <1>3 DEF find

LEMMA FindTwo ==
    ASSUME NEW W, NEW data \in Seq(W), NEW t, NEW u, NEW from \in Nat, from > 0,
           NEW at \in from .. Len(data) - 1
    PROVE  /\ data[at] = t /\ data[at + 1] = u
           /\ \A j \in from .. at - 1 : ~(data[j] = t /\ data[j + 1] = u)
           => find(data, <<t, u>>, from) = at
  <1> DEFINE S == {i \in from .. Len(data) - Len(<<t, u>>) + 1 :
                     SubSeq(data, i, i + Len(<<t, u>>) - 1) = <<t, u>>}
  <1>1. \A i \in 1 .. Len(data) - 1 :
            SubSeq(data, i, i + 1) = <<t, u>> <=> (data[i] = t /\ data[i + 1] = u)
    BY ONLY TwoWords, data \in Seq(W)
  <1> HAVE /\ data[at] = t /\ data[at + 1] = u
           /\ \A j \in from .. at - 1 : ~(data[j] = t /\ data[j + 1] = u)
  <1>2. Len(<<t, u>>) = 2
    OBVIOUS
  <1>3. S = {i \in from .. Len(data) - 1 : data[i] = t /\ data[i + 1] = u}
    BY <1>1, <1>2
  <1> HIDE DEF S
  <1>4. Min(S) = at
    <2>1. S \in SUBSET Int /\ at \in S /\ \A y \in S : at <= y
      BY <1>3
    <2> QED BY <2>1, MinIs
  <1>5. S # {}
    BY <1>3
  <1> QED BY <1>4, <1>5 DEF find, S

\* A blank line that is found is there.
LEMMA BlankLineIsThere ==
    ASSUME NEW W, NEW data \in Seq(W), HeadIsComplete(data)
    PROVE  \E i \in 1 .. Len(data) - 1 : data[i] = "crlf" /\ data[i + 1] = "crlf"
  <1> DEFINE S == {i \in 1 .. Len(data) - Len(BlankLine) + 1 :
                     SubSeq(data, i, i + Len(BlankLine) - 1) = BlankLine}
  <1>1. S # {}
    BY DEF HeadIsComplete, find
  <1>2. Len(BlankLine) = 2
    BY DEF BlankLine
  <1>3. \A i \in 1 .. Len(data) - 1 : SubSeq(data, i, i + 1) = BlankLine
            <=> data[i] = "crlf" /\ data[i + 1] = "crlf"
    BY TwoWords DEF BlankLine
  <1> QED BY <1>1, <1>2, <1>3 DEF BlankLine

LEMMA HasMeans ==
    ASSUME NEW W, NEW data \in Seq(W), NEW t
    PROVE  Has(data, t) <=> \E j \in 1 .. Len(data) : data[j] = t
  <1>1. ASSUME NEW j \in 1 .. Len(data), data[j] = t
        PROVE  Has(data, t)
    <2> DEFINE T == {i \in 1 .. Len(data) : data[i] = t}
    <2>1. T \in SUBSET Nat /\ T # {}
      BY <1>1
    <2> HIDE DEF T
    <2>2. PICK x \in T : \A y \in T : x <= y
      BY <2>1, LeastNumber
    <2>3. x \in 1 .. Len(data) /\ data[x] = t /\ \A i \in 1 .. x - 1 : data[i] # t
      BY <2>2 DEF T
    <2>4. find(data, <<t>>, 1) = x
      BY <2>3, FindWord
    <2> QED BY <2>3, <2>4 DEF Has, npos
  <1>2. (\A j \in 1 .. Len(data) : data[j] # t) => ~Has(data, t)
    BY FindNoWord DEF Has
  <1> QED BY <1>1, <1>2

\* substr between two positions, and to the end.
LEMMA SubstrIs ==
    ASSUME NEW W, NEW data \in Seq(W), NEW from \in Nat, from > 0, NEW to \in Nat,
           from <= to, to <= Len(data) + 1
    PROVE  substr(data, from, to - from) = SubSeq(data, from, to - 1)
BY DEF substr

LEMMA LastIs ==
    ASSUME NEW W, NEW data \in Seq(W), NEW t, NEW at \in 1 .. Len(data),
           data[at] = t, \A j \in at + 1 .. Len(data) : data[j] # t
    PROVE  find_last_of(data, t) = at
  <1> DEFINE I == {i \in 1 .. Len(data) : data[i] = t}
  <1>1. I \in SUBSET Int /\ at \in I /\ \A y \in I : y <= at
    OBVIOUS
  <1> HIDE DEF I
  <1>2. Max(I) = at /\ I # {}
    BY <1>1, MaxIs
  <1> QED BY <1>2 DEF find_last_of, SelectLastInSeq, I

-----------------------------------------------------------------------------
(* FlattenSeq: where the parts are in the whole.                             *)

\* The first n of the parts in s fill flat: the k-th ends at o[k].
Runs(W, o, s, flat, n) ==
    /\ o \in [0 .. n -> Nat] /\ o[0] = 0
    /\ \A k \in 1 .. n : o[k] = o[k - 1] + Len(s[k])
    /\ \A k, l \in 0 .. n : k <= l => o[k] <= o[l]
    /\ flat \in Seq(W) /\ Len(flat) = o[n]
    /\ \A k \in 1 .. n : \A j \in 1 .. Len(s[k]) : flat[o[k - 1] + j] = s[k][j]
    /\ \A i \in 1 .. Len(flat) : \E k \in 1 .. n : o[k - 1] < i /\ i <= o[k]

LEMMA RunsBegin == ASSUME NEW W, NEW s PROVE Runs(W, [k \in 0 .. 0 |-> 0], s, <<>>, 0)
  BY DEF Runs

LEMMA RunsExtend ==
    ASSUME NEW W, NEW s \in Seq(Seq(W)), NEW n \in Nat, n < Len(s),
           NEW o, NEW flat, Runs(W, o, s, flat, n)
    PROVE  \E p : Runs(W, p, s, flat \o s[n + 1], n + 1)
  <1> DEFINE m == n + 1
             last == s[m]
             all == flat \o last
             p == [k \in 0 .. m |-> IF k <= n THEN o[k] ELSE o[n] + Len(last)]
  <1>1. /\ o \in [0 .. n -> Nat] /\ o[0] = 0
        /\ flat \in Seq(W) /\ Len(flat) = o[n] /\ o[n] \in Nat
        /\ \A k, l \in 0 .. n : k <= l => o[k] <= o[l]
    BY DEF Runs
  <1>2. last \in Seq(W) /\ Len(last) \in Nat /\ m \in 1 .. Len(s) /\ m \in Nat
    OBVIOUS
  <1>3. /\ all \in Seq(W) /\ Len(all) = o[n] + Len(last)
        /\ \A i \in 1 .. o[n] : all[i] = flat[i]
        /\ \A j \in 1 .. Len(last) : all[o[n] + j] = last[j]
    <2> HIDE DEF last
    <2>1. /\ all \in Seq(W) /\ Len(all) = o[n] + Len(last)
          /\ \A i \in 1 .. o[n] + Len(last) :
                all[i] = IF i <= o[n] THEN flat[i] ELSE last[i - o[n]]
      <3>1. flat \in Seq(W) /\ last \in Seq(W)
        BY <1>1, <1>2
      <3>2. /\ flat \o last \in Seq(W) /\ Len(flat \o last) = Len(flat) + Len(last)
            /\ \A i \in 1 .. Len(flat) + Len(last) :
                  (flat \o last)[i] = IF i <= Len(flat) THEN flat[i] ELSE last[i - Len(flat)]
        BY ONLY <3>1, ConcatProperties
      <3> QED BY <1>1, <3>2
    <2> HIDE DEF all
    <2>2. \A j \in 1 .. Len(last) : /\ o[n] + j \in 1 .. o[n] + Len(last)
                                   /\ ~(o[n] + j <= o[n]) /\ o[n] + j - o[n] = j
      BY <1>1, <1>2
    <2> QED BY <1>1, <1>2, <2>1, <2>2, SMTT(30)
  <1>4. /\ p \in [0 .. m -> Nat]
        /\ \A k \in 0 .. n : p[k] = o[k]
        /\ p[m] = o[n] + Len(last)
    BY <1>1, <1>2
  <1> HIDE DEF p, all, last
  <1>5. p[0] = 0 /\ Len(all) = p[m]
    BY <1>1, <1>3, <1>4
  <1>6. \A k \in 1 .. m : p[k] = p[k - 1] + Len(s[k])
    <2> TAKE k \in 1 .. m
    <2>1. CASE k = m
      BY <1>4, <2>1 DEF last
    <2>2. CASE k # m
      <3>1. k \in 1 .. n /\ k - 1 \in 0 .. n
        BY <2>2
      <3> QED BY <1>4, <3>1 DEF Runs
    <2> QED BY <2>1, <2>2
  <1>7. \A k, l \in 0 .. m : k <= l => p[k] <= p[l]
    <2> SUFFICES ASSUME NEW k \in 0 .. m, NEW l \in 0 .. m, k <= l PROVE p[k] <= p[l]
      OBVIOUS
    <2>1. CASE l # m
      <3>1. k \in 0 .. n /\ l \in 0 .. n
        BY <2>1
      <3> QED BY <1>1, <1>4, <3>1
    <2>2. CASE l = m /\ k # m
      <3>1. k \in 0 .. n /\ n \in 0 .. n /\ k <= n
        BY <2>2
      <3>2. o[k] <= o[n] /\ o[k] \in Nat
        BY <1>1, <3>1
      <3> QED BY <1>1, <1>2, <1>4, <2>2, <3>1, <3>2
    <2>3. CASE l = m /\ k = m
      BY <1>1, <1>2, <1>4, <2>3
    <2> QED BY <2>1, <2>2, <2>3
  <1>8. \A k \in 1 .. m : \A j \in 1 .. Len(s[k]) : all[p[k - 1] + j] = s[k][j]
    <2> SUFFICES ASSUME NEW k \in 1 .. m, NEW j \in 1 .. Len(s[k])
                 PROVE  all[p[k - 1] + j] = s[k][j]
      OBVIOUS
    <2>1. CASE k = m
      <3>1. k - 1 = n /\ n \in 0 .. n
        BY <2>1
      <3>2. p[k - 1] = o[n]
        BY <1>4, <3>1
      <3> QED BY <1>3, <2>1, <3>2 DEF last
    <2>2. CASE k # m
      <3>1. k \in 1 .. n /\ k - 1 \in 0 .. n /\ k \in 0 .. n /\ n \in 0 .. n /\ k <= n
        BY <2>2
      <3>2. p[k - 1] = o[k - 1] /\ o[k] = o[k - 1] + Len(s[k])
        BY <1>4, <3>1 DEF Runs
      <3>3. o[k] <= o[n] /\ o[k - 1] \in Nat /\ o[k] \in Nat
        BY <1>1, <3>1
      <3>4. s[k] \in Seq(W) /\ Len(s[k]) \in Nat
        <4>1. k \in 1 .. Len(s)
          BY <3>1
        <4> QED BY <4>1
      <3>5. o[k - 1] + j \in 1 .. o[n]
        BY <1>1, <3>2, <3>3, <3>4, SMTT(30)
      <3>6. flat[o[k - 1] + j] = s[k][j]
        BY <3>1 DEF Runs
      <3> QED BY <1>3, <3>2, <3>5, <3>6
    <2> QED BY <2>1, <2>2
  <1>9. \A i \in 1 .. Len(all) : \E k \in 1 .. m : p[k - 1] < i /\ i <= p[k]
    <2> TAKE i \in 1 .. Len(all)
    <2>1. CASE i <= o[n]
      <3>1. i \in 1 .. Len(flat)
        BY <1>1, <1>3, <2>1
      <3>2. PICK k \in 1 .. n : o[k - 1] < i /\ i <= o[k]
        BY <3>1 DEF Runs
      <3>3. k \in 0 .. n /\ k - 1 \in 0 .. n /\ k \in 1 .. m
        OBVIOUS
      <3> QED BY <1>4, <3>2, <3>3
    <2>2. CASE ~(i <= o[n])
      <3>1. m \in 1 .. m /\ m - 1 = n /\ n \in 0 .. n
        BY <1>2
      <3>2. p[m - 1] = o[n]
        BY <1>4, <3>1
      <3>3. i <= p[m] /\ o[n] < i
        BY <1>1, <1>2, <1>3, <1>4, <2>2
      <3> QED BY <3>1, <3>2, <3>3
    <2> QED BY <2>1, <2>2
  <1>10. Runs(W, p, s, all, m)
    BY <1>3, <1>4, <1>5, <1>6, <1>7, <1>8, <1>9 DEF Runs
  <1> QED BY <1>10 DEF all, last

\* What the recursive function in FlattenSeq is, for the first n parts.
Flattens(f, s, n) ==
    f = [i \in 1 .. n |-> IF i = 1 THEN s[i] ELSE f[i - 1] \o s[i]]

LEMMA FlattensExists ==
    ASSUME NEW s, NEW n \in Nat
    PROVE  \E f : Flattens(f, s, n)
  <1> DEFINE T == {m \in 0 .. n : ~ \E f : Flattens(f, s, m)}
  <1> SUFFICES ASSUME T # {} PROVE FALSE
    <2>1. n \in 0 .. n
      OBVIOUS
    <2> QED BY <2>1
  <1>1. PICK m \in T : \A y \in T : m <= y
    <2>1. T \in SUBSET Nat
      OBVIOUS
    <2> HIDE DEF T
    <2> QED BY <2>1, LeastNumber
  <1>2. CASE m = 0
    <2>1. Flattens([i \in 1 .. 0 |-> 0], s, 0)
      BY DEF Flattens
    <2> QED BY <1>2, <2>1
  <1>3. CASE m # 0
    <2>1. m \in 1 .. n /\ m - 1 \in 0 .. n /\ ~(m <= m - 1)
      BY <1>3
    <2>2. PICK f : Flattens(f, s, m - 1)
      BY <1>1, <2>1
    <2> DEFINE next(i) == IF i = 1 THEN s[i] ELSE f[i - 1] \o s[i]
               g == [i \in 1 .. m |-> IF i < m THEN f[i] ELSE next(i)]
    <2>3. ASSUME NEW i \in 1 .. m
          PROVE  g[i] = IF i = 1 THEN s[i] ELSE g[i - 1] \o s[i]
      <3>1. i # 1 => i - 1 \in 1 .. m /\ i - 1 < m /\ g[i - 1] = f[i - 1]
        BY <2>1
      <3>2. i < m => f[i] = next(i)
        <4>1. i < m => i \in 1 .. m - 1
          BY <2>1
        <4> QED BY <2>2, <4>1 DEF Flattens
      <3>3. g[i] = next(i)
        BY <3>2
      <3> HIDE DEF g
      <3> QED BY <3>1, <3>3
    <2>4. Flattens(g, s, m)
      <3>1. g = [i \in 1 .. m |-> g[i]]
        OBVIOUS
      <3> HIDE DEF g
      <3> QED BY <2>3, <3>1 DEF Flattens
    <2> QED BY <2>4
  <1> QED BY <1>2, <1>3

\* Every part of a sequence that is flattened is in the result, in its place.
LEMMA FlattenRuns ==
    ASSUME NEW W, NEW s \in Seq(Seq(W))
    PROVE  \E o : Runs(W, o, s, FlattenSeq(s), Len(s))
  <1>1. CASE Len(s) = 0
    <2>1. FlattenSeq(s) = <<>>
      BY <1>1 DEF FlattenSeq
    <2> QED BY <1>1, <2>1, RunsBegin
  <1>2. CASE Len(s) # 0
    <2> DEFINE n == Len(s)
               f == CHOOSE g : Flattens(g, s, n)
    <2>1. n \in Nat /\ n \in 1 .. n
      BY <1>2
    <2>2. FlattenSeq(s) = f[n]
      BY <1>2 DEF FlattenSeq, Flattens
    <2>3. Flattens(f, s, n)
      BY <2>1, FlattensExists
    <2> HIDE DEF f
    <2>4. \A i \in 1 .. n : f[i] = IF i = 1 THEN s[i] ELSE f[i - 1] \o s[i]
      BY <2>3 DEF Flattens
    <2> DEFINE done(m) == IF m = 0 THEN <<>> ELSE f[m]
               T == {m \in 0 .. n : ~ \E o : Runs(W, o, s, done(m), m)}
    <2>5. ASSUME T # {} PROVE FALSE
      <3>1. PICK m \in T : \A y \in T : m <= y
        <4>1. T \in SUBSET Nat
          OBVIOUS
        <4> HIDE DEF T
        <4> QED BY <2>5, <4>1, LeastNumber
      <3>2. m # 0
        BY RunsBegin
      <3>3. m \in 1 .. n /\ m - 1 \in 0 .. n /\ ~(m <= m - 1)
        BY <3>2
      <3>4. PICK o : Runs(W, o, s, done(m - 1), m - 1)
        BY <3>1, <3>3
      <3>5. \E p : Runs(W, p, s, done(m - 1) \o s[m], m)
        <4>1. m - 1 \in Nat /\ m - 1 < Len(s) /\ (m - 1) + 1 = m
          BY <3>3
        <4> HIDE DEF done
        <4> QED BY <3>4, <4>1, RunsExtend
      <3>6. done(m) = done(m - 1) \o s[m]
        <4>1. CASE m = 1
          <5>1. s[m] \in Seq(W)
            BY <3>3
          <5>2. <<>> \o s[m] = s[m]
            BY <5>1
          <5> QED BY <2>4, <3>3, <4>1, <5>2
        <4>2. CASE m # 1
          <5>1. f[m] = f[m - 1] \o s[m]
            BY <2>4, <3>3, <4>2
          <5>2. m # 0 /\ m - 1 # 0
            BY <3>3, <4>2
          <5> QED BY <5>1, <5>2
        <4> QED BY <4>1, <4>2
      <3> QED BY <3>5, <3>6
    <2>6. \E o : Runs(W, o, s, done(n), n)
      BY <2>1, <2>5
    <2> QED BY <1>2, <2>2, <2>6
  <1> QED BY <1>1, <1>2

-----------------------------------------------------------------------------
(* What a client writes.                                                     *)

LEMMA Joined ==
    ASSUME NEW W, NEW p \in Seq(W), NEW q \in Seq(W)
    PROVE  /\ p \o q \in Seq(W) /\ Len(p \o q) = Len(p) + Len(q)
           /\ \A i \in 1 .. Len(p) : (p \o q)[i] = p[i]
           /\ \A j \in 1 .. Len(q) : (p \o q)[Len(p) + j] = q[j]
  <1>1. /\ p \o q \in Seq(W) /\ Len(p \o q) = Len(p) + Len(q)
        /\ \A i \in 1 .. Len(p) + Len(q) :
              (p \o q)[i] = IF i <= Len(p) THEN p[i] ELSE q[i - Len(p)]
    BY ConcatProperties
  <1>2. Len(p) \in Nat /\ Len(q) \in Nat
    OBVIOUS
  <1> DEFINE r == p \o q
             m == Len(p)
             n == Len(q)
  <1> HIDE DEF r, m, n
  <1>3. \A j \in 1 .. n : /\ m + j \in 1 .. m + n /\ m + j - m = j /\ ~(m + j <= m)
    BY <1>2 DEF m, n
  <1>4. \A j \in 1 .. n : r[m + j] = q[j]
    BY <1>1, <1>3 DEF r, m, n
  <1>5. \A i \in 1 .. m : r[i] = p[i]
    BY <1>1, <1>2 DEF r, m, n
  <1> QED BY <1>1, <1>4, <1>5 DEF r, m, n

\* A word before a text, and one behind it.
LEMMA Single ==
    ASSUME NEW W, NEW t \in W
    PROVE  <<t>> \in Seq(W) /\ Len(<<t>>) = 1 /\ <<t>>[1] = t
OBVIOUS

LEMMA Prefixed ==
    ASSUME NEW W, NEW t \in W, NEW p \in Seq(W)
    PROVE  /\ <<t>> \o p \in Seq(W) /\ Len(<<t>> \o p) = 1 + Len(p)
           /\ (<<t>> \o p)[1] = t
           /\ \A j \in 1 .. Len(p) : (<<t>> \o p)[1 + j] = p[j]
  <1> DEFINE q == <<t>>
  <1>1. q \in Seq(W) /\ Len(q) = 1 /\ q[1] = t /\ 1 \in 1 .. 1
    BY Single
  <1> HIDE DEF q
  <1>2. /\ q \o p \in Seq(W) /\ Len(q \o p) = Len(q) + Len(p)
        /\ \A i \in 1 .. Len(q) : (q \o p)[i] = q[i]
        /\ \A j \in 1 .. Len(p) : (q \o p)[Len(q) + j] = p[j]
    BY <1>1, Joined, SMTT(30)
  <1>3. (q \o p)[1] = t
    BY <1>1, <1>2
  <1> QED BY <1>1, <1>2, <1>3 DEF q

LEMMA Suffixed ==
    ASSUME NEW W, NEW t \in W, NEW p \in Seq(W)
    PROVE  /\ p \o <<t>> \in Seq(W) /\ Len(p \o <<t>>) = Len(p) + 1
           /\ \A i \in 1 .. Len(p) : (p \o <<t>>)[i] = p[i]
           /\ (p \o <<t>>)[Len(p) + 1] = t
  <1> DEFINE q == <<t>>
  <1>1. q \in Seq(W) /\ Len(q) = 1 /\ q[1] = t /\ 1 \in 1 .. 1
    BY Single
  <1> HIDE DEF q
  <1>2. /\ p \o q \in Seq(W) /\ Len(p \o q) = Len(p) + Len(q)
        /\ \A i \in 1 .. Len(p) : (p \o q)[i] = p[i]
        /\ \A j \in 1 .. Len(q) : (p \o q)[Len(p) + j] = q[j]
    BY <1>1, Joined
  <1>3. (p \o q)[Len(p) + 1] = t
    BY <1>1, <1>2
  <1> QED BY <1>1, <1>2, <1>3 DEF q

\* Words that the client writes between its own; and all words of a text, of
\* a path, and of what follows it in a URL.
Marks == {" ", "/", "?", "&", "HTTP", "1.1", "crlf", "Host: "}
Words == STRING \cup Marks
PathWords == (UrlWords \ {"?"}) \cup {"/"}
ExtraWords == UrlWords \cup {"?", "&"}
Folder(a) == FlattenSeq([i \in DOMAIN a.dirs |-> <<"/", a.dirs[i]>>])
Extra(a) == IF Query(a) = <<>> THEN <<>> ELSE <<"?">> \o Query(a)
Lines(a) == FlattenSeq([i \in DOMAIN a.headers |-> a.headers[i] \o <<"crlf">>])

LEMMA AskFields ==
    ASSUME NEW a \in Asks
    PROVE  /\ a.method \in STRING \ {"crlf"}
           /\ a.dirs \in Seq(UrlWords \ {"/", "?"})
           /\ a.name \in Seq(UrlWords \ {"/", "?"})
           /\ a.params \in Seq(Seq(UrlWords \ {"&"}))
           /\ a.headers \in Seq(Seq(STRING \ {"crlf"}) \ {<<>>})
           /\ a.body \in Seq(STRING)
           /\ a.host \in Seq(STRING)
           /\ a.wants = Meant(a.params)
BY RequestAssumption DEF AsksAssumption

\* The folder, as a text: it begins with a slash.
LEMMA FolderIs ==
    ASSUME NEW a \in Asks
    PROVE  /\ Folder(a) \in Seq(PathWords)
           /\ a.dirs # <<>> => Len(Folder(a)) > 0 /\ Folder(a)[1] = "/"
  <1> DEFINE n == Len(a.dirs)
             s == [i \in 1 .. n |-> <<"/", a.dirs[i]>>]
  <1>1. n \in Nat /\ DOMAIN a.dirs = 1 .. n /\ a.dirs \in Seq(UrlWords \ {"/", "?"})
    BY AskFields
  <1>2. "/" \in PathWords /\ UrlWords \ {"/", "?"} \subseteq PathWords
    BY DEF PathWords
  <1>3. \A i \in 1 .. n : /\ <<"/", a.dirs[i]>> \in Seq(PathWords)
                          /\ Len(<<"/", a.dirs[i]>>) = 2 /\ <<"/", a.dirs[i]>>[1] = "/"
    <2> TAKE i \in 1 .. n
    <2>1. a.dirs[i] \in PathWords
      BY <1>1, <1>2
    <2> QED BY <1>2, <2>1
  <1>4. s \in Seq(Seq(PathWords)) /\ Len(s) = n /\ Folder(a) = FlattenSeq(s)
    BY <1>1, <1>3 DEF Folder
  <1>5. \A i \in 1 .. n : Len(s[i]) = 2 /\ s[i][1] = "/"
    BY <1>3
  <1> HIDE DEF s
  <1>6. PICK o : Runs(PathWords, o, s, Folder(a), n)
    BY <1>4, FlattenRuns
  <1>7. Folder(a) \in Seq(PathWords) /\ Len(Folder(a)) = o[n]
    BY <1>6 DEF Runs
  <1>8. ASSUME a.dirs # <<>> PROVE Len(Folder(a)) > 0 /\ Folder(a)[1] = "/"
    <2>1. 1 \in 1 .. n /\ n \in 1 .. n /\ 1 - 1 = 0 /\ 1 \in 1 .. 2 /\ 1 \in 0 .. n /\ n \in 0 .. n /\ 1 <= n
      BY <1>1, <1>8
    <2>2. o[1] = o[0] + 2 /\ o[0] = 0 /\ o[1] <= o[n]
      BY <1>5, <1>6, <2>1 DEF Runs
    <2>3. \A k \in 1 .. n : \A j \in 1 .. Len(s[k]) : Folder(a)[o[k - 1] + j] = s[k][j]
      BY <1>6 DEF Runs
    <2>4. Folder(a)[o[0] + 1] = s[1][1]
      <3>1. 1 \in 1 .. Len(s[1])
        BY <1>5, <2>1
      <3>2. Folder(a)[o[1 - 1] + 1] = s[1][1]
        BY <2>1, <2>3, <3>1
      <3> QED BY <2>1, <3>2
    <2>5. o[n] \in Nat
      BY <1>6, <2>1 DEF Runs
    <2> QED BY <1>1, <1>5, <1>7, <2>1, <2>2, <2>4, <2>5
  <1> QED BY <1>7, <1>8

LEMMA PathIs ==
    ASSUME NEW a \in Asks
    PROVE  /\ Path(a) \in Seq(PathWords)
           /\ Len(Path(a)) = Len(Folder(a)) + 1 + Len(a.name)
           /\ Path(a)[1] = "/"
           /\ \A i \in 1 .. Len(Folder(a)) : Path(a)[i] = Folder(a)[i]
           /\ Path(a)[Len(Folder(a)) + 1] = "/"
           /\ \A j \in 1 .. Len(a.name) :
                 Path(a)[Len(Folder(a)) + 1 + j] = a.name[j] /\ a.name[j] # "/"
  <1> DEFINE f == Folder(a)
             g == f \o <<"/">>
             p == g \o a.name
  <1>1. "/" \in PathWords /\ UrlWords \ {"/", "?"} \subseteq PathWords
    BY DEF PathWords
  <1>2. <<"/">> \in Seq(PathWords) /\ Len(<<"/">>) = 1 /\ <<"/">>[1] = "/"
    BY <1>1
  <1>3. f \in Seq(PathWords) /\ (Len(f) > 0 => f[1] = "/") /\ Len(f) \in Nat
    <2>1. a.dirs = <<>> => f = <<>>
      BY DEF Folder, FlattenSeq
    <2> QED BY <2>1, FolderIs
  <1>4. a.name \in Seq(PathWords) /\ \A j \in 1 .. Len(a.name) : a.name[j] # "/"
    <2>1. a.name \in Seq(UrlWords \ {"/", "?"})
      BY AskFields
    <2> QED BY <1>1, <2>1, SeqMonotonic
  <1>5. Path(a) = p
    BY DEF Path, Folder
  <1> HIDE DEF f
  <1>6. /\ g \in Seq(PathWords) /\ Len(g) = Len(f) + 1
        /\ \A i \in 1 .. Len(f) : g[i] = f[i]
        /\ \A j \in 1 .. 1 : g[Len(f) + j] = "/"
    BY <1>2, <1>3, Joined
  <1> HIDE DEF g
  <1>7. /\ p \in Seq(PathWords) /\ Len(p) = Len(g) + Len(a.name)
        /\ \A i \in 1 .. Len(g) : p[i] = g[i]
        /\ \A j \in 1 .. Len(a.name) : p[Len(g) + j] = a.name[j]
    <2>1. g \in Seq(PathWords) /\ a.name \in Seq(PathWords)
      BY <1>4, <1>6
    <2> DEFINE m == a.name
    <2> HIDE DEF m
    <2>2. /\ g \o m \in Seq(PathWords) /\ Len(g \o m) = Len(g) + Len(m)
          /\ \A i \in 1 .. Len(g) : (g \o m)[i] = g[i]
          /\ \A j \in 1 .. Len(m) : (g \o m)[Len(g) + j] = m[j]
      BY ONLY <2>1, Joined DEF m
    <2> QED BY <2>2 DEF m
  <1> HIDE DEF p
  <1>8. g[Len(f) + 1] = "/" /\ g[1] = "/"
    <2>1. 1 \in 1 .. 1 /\ (Len(f) > 0 => 1 \in 1 .. Len(f))
      BY <1>3
    <2>2. g[Len(f) + 1] = "/"
      BY <1>6, <2>1
    <2>3. CASE Len(f) = 0
      <3>1. Len(f) + 1 = 1
        BY <2>3
      <3> QED BY <2>2, <3>1
    <2>4. CASE Len(f) > 0
      BY <1>3, <1>6, <2>1, <2>2, <2>4
    <2> QED BY <1>3, <2>3, <2>4
  <1>9. /\ 1 \in 1 .. Len(g) /\ Len(f) + 1 \in 1 .. Len(g)
        /\ \A i \in 1 .. Len(f) : i \in 1 .. Len(g)
    BY <1>3, <1>6
  <1> QED BY <1>4, <1>5, <1>6, <1>7, <1>8, <1>9 DEF f

LEMMA QueryIs ==
    ASSUME NEW a \in Asks
    PROVE  /\ Query(a) \in Seq(ExtraWords)
           /\ Extra(a) \in Seq(ExtraWords)
           /\ Query(a) = <<>> => Len(Extra(a)) = 0
           /\ Query(a) # <<>> =>
                 /\ Len(Extra(a)) = 1 + Len(Query(a))
                 /\ Extra(a)[1] = "?"
                 /\ \A j \in 1 .. Len(Query(a)) : Extra(a)[1 + j] = Query(a)[j]
  <1> DEFINE n == Len(a.params)
             s == [i \in 1 .. n |-> <<"&">> \o a.params[i]]
             q == Query(a)
  <1>1. n \in Nat /\ DOMAIN a.params = 1 .. n /\ a.params \in Seq(Seq(UrlWords \ {"&"}))
    BY AskFields
  <1>2. "&" \in ExtraWords /\ "?" \in ExtraWords /\ UrlWords \ {"&"} \subseteq ExtraWords
    BY DEF ExtraWords
  <1>3. <<"&">> \in Seq(ExtraWords) /\ <<"?">> \in Seq(ExtraWords)
        /\ Len(<<"?">>) = 1 /\ <<"?">>[1] = "?"
    BY <1>2
  <1>4. \A i \in 1 .. n : <<"&">> \o a.params[i] \in Seq(ExtraWords)
    <2> TAKE i \in 1 .. n
    <2>1. a.params[i] \in Seq(UrlWords \ {"&"})
      BY <1>1
    <2>2. a.params[i] \in Seq(ExtraWords)
      BY <1>2, <2>1, SeqMonotonic
    <2> QED BY <1>3, <2>2, Joined
  <1>5. s \in Seq(Seq(ExtraWords)) /\ Len(s) = n
    BY <1>1, <1>4
  <1>6. q = SubSeq(FlattenSeq(s), 2, Len(FlattenSeq(s)))
    BY <1>1 DEF Query
  <1> HIDE DEF s
  <1>7. FlattenSeq(s) \in Seq(ExtraWords)
    BY <1>5, FlattenRuns DEF Runs
  <1>8. q \in Seq(ExtraWords)
    BY <1>6, <1>7
  <1> HIDE DEF q
  <1>9. q # <<>> => /\ <<"?">> \o q \in Seq(ExtraWords) /\ Len(<<"?">> \o q) = 1 + Len(q)
                    /\ (<<"?">> \o q)[1] = "?"
                    /\ \A j \in 1 .. Len(q) : (<<"?">> \o q)[1 + j] = q[j]
    <2>1. /\ <<"?">> \o q \in Seq(ExtraWords) /\ Len(<<"?">> \o q) = Len(<<"?">>) + Len(q)
          /\ \A i \in 1 .. Len(<<"?">>) : (<<"?">> \o q)[i] = <<"?">>[i]
          /\ \A j \in 1 .. Len(q) : (<<"?">> \o q)[Len(<<"?">>) + j] = q[j]
      BY <1>3, <1>8, Joined
    <2>2. 1 \in 1 .. Len(<<"?">>)
      BY <1>3
    <2> QED BY <1>3, <2>1, <2>2, Zenon
  <1>10. <<>> \in Seq(ExtraWords) /\ Len(<<>>) = 0
    OBVIOUS
  <1>11. Extra(a) = IF q = <<>> THEN <<>> ELSE <<"?">> \o q
    BY DEF Extra, q
  <1>12. CASE q = <<>>
    <2>1. Extra(a) = <<>>
      BY <1>11, <1>12
    <2> QED BY <1>8, <1>10, <1>12, <2>1 DEF q
  <1>13. CASE q # <<>>
    <2>1. Extra(a) = <<"?">> \o q
      BY <1>11, <1>13
    <2> QED BY <1>8, <1>9, <1>13, <2>1, Zenon DEF q
  <1> QED BY <1>12, <1>13

\* A text H in n lines: line k, which ends at o[k], is d[k] words of w[k] and a
\* line end.
Ruled(n, d, w, o, H) ==
    /\ n \in Nat /\ d \in [1 .. n -> Nat] /\ o \in [0 .. n -> Nat] /\ o[0] = 0
    /\ \A k \in 1 .. n : d[k] > 0 /\ o[k] = o[k - 1] + d[k] + 1
    /\ \A k, l \in 0 .. n : k <= l => o[k] <= o[l]
    /\ \A k \in 1 .. n : \A j \in 1 .. d[k] : H[o[k - 1] + j] = w[k][j] /\ w[k][j] # "crlf"
    /\ \A k \in 1 .. n : H[o[k]] = "crlf"
    /\ \A i \in 1 .. o[n] : \E k \in 1 .. n : o[k - 1] < i /\ i <= o[k]

\* Where a place of such a text is: within a line, or at its end.
LEMMA RuledPlace ==
    ASSUME NEW n, NEW d, NEW w, NEW o, NEW H, Ruled(n, d, w, o, H), NEW i \in 1 .. o[n]
    PROVE  \E k \in 1 .. n :
              \/ i = o[k]
              \/ \E j \in 1 .. d[k] : i = o[k - 1] + j
  <1>1. PICK k \in 1 .. n : o[k - 1] < i /\ i <= o[k]
    BY DEF Ruled
  <1>2. /\ n \in Nat /\ k \in 0 .. n /\ k - 1 \in 0 .. n
        /\ d \in [1 .. n -> Nat] /\ o \in [0 .. n -> Nat]
        /\ o[k] = o[k - 1] + d[k] + 1
    <2>1. n \in Nat /\ d \in [1 .. n -> Nat] /\ o \in [0 .. n -> Nat]
      BY DEF Ruled
    <2>2. o[k] = o[k - 1] + d[k] + 1
      BY DEF Ruled
    <2> QED BY <2>1, <2>2
  <1>3. o[k - 1] \in Nat /\ o[k] \in Nat /\ d[k] \in Nat /\ n \in 0 .. n /\ o[n] \in Nat
    BY <1>2
  <1>4. CASE i = o[k]
    BY <1>4
  <1>5. CASE i # o[k]
    <2>1. i - o[k - 1] \in 1 .. d[k] /\ i = o[k - 1] + (i - o[k - 1])
      BY <1>1, <1>2, <1>3, <1>5
    <2> QED BY <2>1
  <1> QED BY <1>4, <1>5

\* A line begins with a word.
LEMMA RuledBegin ==
    ASSUME NEW n, NEW d, NEW w, NEW o, NEW H, Ruled(n, d, w, o, H), NEW k \in 1 .. n
    PROVE  /\ o[k - 1] \in Nat /\ o[k] \in Nat /\ o[k] <= o[n] /\ o[n] \in Nat
           /\ d[k] \in Nat /\ d[k] > 0 /\ o[k] = o[k - 1] + d[k] + 1
           /\ H[o[k - 1] + 1] = w[k][1] /\ H[o[k - 1] + 1] # "crlf"
  <1>1. /\ n \in Nat /\ k \in 0 .. n /\ k - 1 \in 0 .. n /\ n \in 0 .. n /\ k <= n
        /\ d \in [1 .. n -> Nat] /\ o \in [0 .. n -> Nat]
    <2>1. n \in Nat /\ d \in [1 .. n -> Nat] /\ o \in [0 .. n -> Nat]
      BY DEF Ruled
    <2> QED BY <2>1
  <1>2. d[k] > 0 /\ o[k] = o[k - 1] + d[k] + 1 /\ o[k] <= o[n]
    BY <1>1 DEF Ruled
  <1>3. o[k - 1] \in Nat /\ o[k] \in Nat /\ d[k] \in Nat /\ o[n] \in Nat
    BY <1>1
  <1>4. 1 \in 1 .. d[k]
    BY <1>2, <1>3
  <1>5. H[o[k - 1] + 1] = w[k][1] /\ w[k][1] # "crlf"
    BY <1>4 DEF Ruled
  <1> QED BY <1>2, <1>3, <1>5

\* So no two line ends are neighbours.
LEMMA RuledApart ==
    ASSUME NEW n, NEW d, NEW w, NEW o, NEW H, Ruled(n, d, w, o, H)
    PROVE  /\ o[n] > 0 => H[1] # "crlf"
           /\ \A i \in 1 .. o[n] - 1 : ~(H[i] = "crlf" /\ H[i + 1] = "crlf")
  <1>1. n \in Nat /\ o[0] = 0 /\ o[n] \in Nat
    BY DEF Ruled
  <1>2. ASSUME o[n] > 0 PROVE H[1] # "crlf"
    <2>1. 1 \in 1 .. n /\ 1 - 1 = 0 /\ 0 + 1 = 1
      BY <1>1, <1>2
    <2>2. H[o[1 - 1] + 1] # "crlf"
      BY <2>1, RuledBegin
    <2> QED BY <1>1, <2>1, <2>2
  <1>3. ASSUME NEW i \in 1 .. o[n] - 1, H[i] = "crlf" PROVE H[i + 1] # "crlf"
    <2>1. i \in 1 .. o[n]
      BY <1>1
    <2>2. PICK k \in 1 .. n : \/ i = o[k]
                             \/ \E j \in 1 .. d[k] : i = o[k - 1] + j
      BY <2>1, RuledPlace
    <2>3. \A j \in 1 .. d[k] : H[o[k - 1] + j] # "crlf"
      BY ZenonT(60) DEF Ruled
    <2>4. i = o[k]
      BY <1>3, <2>2, <2>3
    <2>5. k + 1 \in 1 .. n /\ (k + 1) - 1 = k
      BY <1>1, <2>4
    <2>6. H[o[(k + 1) - 1] + 1] # "crlf"
      BY <2>5, RuledBegin
    <2> QED BY <2>4, <2>5, <2>6
  <1> QED BY <1>2, <1>3

\* Where the value of a header is that is the first to have its word.
LEMMA RuledHeader ==
    ASSUME NEW n, NEW d, NEW w, NEW o, NEW H, Ruled(n, d, w, o, H),
           NEW k \in 1 .. n, NEW t, t # "crlf", w[k][1] = t,
           \A l \in 1 .. k - 1 : \A j \in 1 .. d[l] : w[l][j] # t
    PROVE  /\ o[k - 1] + 1 \in 1 .. o[n] /\ H[o[k - 1] + 1] = t
           /\ \A i \in 1 .. o[k - 1] : H[i] # t
           /\ \A j \in 1 .. d[k] - 1 : H[o[k - 1] + 1 + j] = w[k][1 + j] /\ w[k][1 + j] # "crlf"
           /\ o[k - 1] + 1 + d[k] <= o[n] /\ H[o[k - 1] + 1 + d[k]] = "crlf"
  <1>1. /\ o[k - 1] \in Nat /\ o[k] \in Nat /\ o[k] <= o[n] /\ o[n] \in Nat
        /\ d[k] \in Nat /\ d[k] > 0 /\ o[k] = o[k - 1] + d[k] + 1
        /\ H[o[k - 1] + 1] = t
    BY RuledBegin
  <1>2. /\ n \in Nat /\ o \in [0 .. n -> Nat] /\ d \in [1 .. n -> Nat]
        /\ \A p, q \in 0 .. n : p <= q => o[p] <= o[q]
    BY DEF Ruled
  <1>3. ASSUME NEW i \in 1 .. o[k - 1] PROVE H[i] # t
    <2>1. i \in 1 .. o[n]
      BY <1>1
    <2>2. PICK l \in 1 .. n : \/ i = o[l]
                             \/ \E j \in 1 .. d[l] : i = o[l - 1] + j
      BY <2>1, RuledPlace
    <2>3. CASE i = o[l]
      <3>1. H[o[l]] = "crlf"
        BY DEF Ruled
      <3> QED BY <2>3, <3>1
    <2>4. ASSUME NEW j \in 1 .. d[l], i = o[l - 1] + j PROVE H[i] # t
      <3>1. o[l - 1] \in Nat /\ d[l] \in Nat
        BY RuledBegin
      <3>2. ASSUME ~(l <= k - 1) PROVE FALSE
        <4>1. k - 1 <= l - 1 /\ k - 1 \in 0 .. n /\ l - 1 \in 0 .. n
          BY <1>2, <3>2
        <4>2. o[k - 1] <= o[l - 1]
          BY <1>2, <4>1
        <4> QED BY <1>1, <2>4, <3>1, <4>2
      <3>3. l \in 1 .. k - 1
        BY <3>2
      <3>4. H[o[l - 1] + j] = w[l][j]
        BY DEF Ruled
      <3> QED BY <2>4, <3>3, <3>4
    <2> QED BY <2>2, <2>3, <2>4
  <1>4. ASSUME NEW j \in 1 .. d[k] - 1
        PROVE  H[o[k - 1] + 1 + j] = w[k][1 + j] /\ w[k][1 + j] # "crlf"
    <2>1. 1 + j \in 1 .. d[k] /\ o[k - 1] + 1 + j = o[k - 1] + (1 + j)
      BY <1>1
    <2>2. \A m \in 1 .. d[k] : H[o[k - 1] + m] = w[k][m] /\ w[k][m] # "crlf"
      BY DEF Ruled
    <2> QED BY <2>1, <2>2
  <1>5. o[k - 1] + 1 + d[k] = o[k] /\ H[o[k]] = "crlf"
    <2>1. H[o[k]] = "crlf"
      BY DEF Ruled
    <2> QED BY <1>1, <2>1
  <1>6. o[k - 1] + 1 \in 1 .. o[n] /\ o[k - 1] + 1 + d[k] <= o[n]
    BY <1>1
  <1> QED BY <1>1, <1>3, <1>4, <1>5, <1>6

\* The lines of the headers: line k is the first that mentions Host.
HostAt(a, n, d, w, o, k) ==
    /\ Ruled(n, d, w, o, Lines(a)) /\ Len(Lines(a)) = o[n]
    /\ k \in 1 .. n
    /\ w[k][1] = "Host: " /\ d[k] = 1 + Len(a.host)
    /\ \A j \in 1 .. Len(a.host) : w[k][1 + j] = a.host[j]
    /\ \A l \in 1 .. k - 1 : \A j \in 1 .. d[l] : w[l][j] # "Host: "

LEMMA LinesAreRuled ==
    ASSUME NEW a \in Asks
    PROVE  /\ Lines(a) \in Seq(Words)
           /\ \E n, d, w, o, k : HostAt(a, n, d, w, o, k)
  <1> DEFINE n == Len(a.headers)
             w == a.headers
             d == [k \in 1 .. n |-> Len(w[k])]
             line(k) == w[k] \o <<"crlf">>
             s == [k \in 1 .. n |-> line(k)]
             H == Lines(a)
  <1>1. n \in Nat /\ DOMAIN w = 1 .. n /\ w \in Seq(Seq(STRING \ {"crlf"}) \ {<<>>})
    BY AskFields
  <1>2. "crlf" \in Words /\ STRING \ {"crlf"} \subseteq Words
    BY DEF Words, Marks
  <1>3. <<"crlf">> \in Seq(Words) /\ Len(<<"crlf">>) = 1 /\ <<"crlf">>[1] = "crlf"
    BY <1>2
  <1>4. \A k \in 1 .. n : w[k] \in Seq(STRING \ {"crlf"}) /\ w[k] # <<>>
    BY <1>1
  <1> HIDE DEF n, w
  <1>5. \A k \in 1 .. n :
            /\ w[k] \in Seq(Words) /\ d[k] = Len(w[k]) /\ d[k] \in Nat /\ d[k] > 0
            /\ \A j \in 1 .. d[k] : w[k][j] # "crlf"
    <2> TAKE k \in 1 .. n
    <2>1. w[k] \in Seq(STRING \ {"crlf"}) /\ w[k] # <<>>
      BY <1>4
    <2> DEFINE p == w[k]
    <2> HIDE DEF p
    <2>2. p \in Seq(STRING \ {"crlf"}) /\ p # <<>>
      BY <2>1 DEF p
    <2>3. p \in Seq(Words)
      BY <1>2, <2>2, SeqMonotonic
    <2>4. Len(p) \in Nat /\ Len(p) > 0 /\ \A j \in 1 .. Len(p) : p[j] # "crlf"
      BY <2>2
    <2> QED BY <2>3, <2>4 DEF p
  <1>6. d \in [1 .. n -> Nat]
    BY <1>5
  <1> HIDE DEF d
  <1>7. \A k \in 1 .. n :
            /\ line(k) \in Seq(Words) /\ Len(line(k)) = d[k] + 1
            /\ \A j \in 1 .. d[k] : line(k)[j] = w[k][j]
            /\ line(k)[d[k] + 1] = "crlf"
    <2> TAKE k \in 1 .. n
    <2> DEFINE p == w[k]
    <2>1. p \in Seq(Words) /\ Len(p) = d[k] /\ "crlf" \in Words /\ line(k) = p \o <<"crlf">>
      BY <1>2, <1>5
    <2> HIDE DEF p, line
    <2>2. /\ p \o <<"crlf">> \in Seq(Words) /\ Len(p \o <<"crlf">>) = Len(p) + 1
          /\ \A i \in 1 .. Len(p) : (p \o <<"crlf">>)[i] = p[i]
          /\ (p \o <<"crlf">>)[Len(p) + 1] = "crlf"
      BY ONLY <2>1, Suffixed
    <2> QED BY <2>1, <2>2, Zenon DEF p
  <1>8. s \in Seq(Seq(Words)) /\ Len(s) = n /\ \A k \in 1 .. n : s[k] = line(k)
    BY <1>1, <1>7
  <1>9. H = FlattenSeq(s)
    BY <1>1 DEF Lines, w
  <1> HIDE DEF s, line, H
  <1>10. PICK o : Runs(Words, o, s, H, n)
    BY <1>8, <1>9, FlattenRuns
  <1>11. /\ H \in Seq(Words) /\ Len(H) = o[n] /\ o[0] = 0 /\ o \in [0 .. n -> Nat]
         /\ \A k, l \in 0 .. n : k <= l => o[k] <= o[l]
         /\ \A i \in 1 .. Len(H) : \E k \in 1 .. n : o[k - 1] < i /\ i <= o[k]
    BY <1>10 DEF Runs
  <1>12. \A k \in 1 .. n :
            /\ o[k] = o[k - 1] + d[k] + 1
            /\ \A j \in 1 .. d[k] : H[o[k - 1] + j] = w[k][j]
            /\ H[o[k]] = "crlf"
    <2> TAKE k \in 1 .. n
    <2>1. k - 1 \in 0 .. n
      BY <1>1
    <2>2. o[k - 1] \in Nat /\ Len(s[k]) = d[k] + 1 /\ d[k] \in Nat
      BY <1>5, <1>7, <1>8, <1>11, <2>1
    <2>3. /\ o[k] = o[k - 1] + Len(s[k])
          /\ \A j \in 1 .. Len(s[k]) : H[o[k - 1] + j] = s[k][j]
      BY <1>10 DEF Runs
    <2>4. o[k] = o[k - 1] + d[k] + 1 /\ o[k] = o[k - 1] + (d[k] + 1)
      BY <2>2, <2>3
    <2>5. \A j \in 1 .. d[k] : j \in 1 .. Len(s[k])
      BY <2>2
    <2>6. \A j \in 1 .. d[k] : H[o[k - 1] + j] = w[k][j]
      BY <1>7, <1>8, <2>3, <2>5
    <2>7. d[k] + 1 \in 1 .. Len(s[k])
      BY <2>2
    <2>8. H[o[k - 1] + (d[k] + 1)] = "crlf"
      BY <1>7, <1>8, <2>3, <2>7
    <2> QED BY <2>4, <2>6, <2>8
  <1>13. Ruled(n, d, w, o, H)
    BY <1>1, <1>5, <1>6, <1>11, <1>12 DEF Ruled
  <1>14. PICK k \in 1 .. n : /\ w[k] = <<"Host: ">> \o a.host
                             /\ \A j \in 1 .. k - 1 : "Host: " \notin Range(w[j])
    <2>1. \E k \in DOMAIN a.headers :
              /\ a.headers[k] = <<"Host: ">> \o a.host
              /\ \A j \in 1 .. k - 1 : "Host: " \notin Range(a.headers[j])
      BY RequestAssumption DEF AsksAssumption
    <2> QED BY <1>1, <2>1 DEF w
  <1>15. /\ d[k] = 1 + Len(a.host) /\ w[k][1] = "Host: "
         /\ \A j \in 1 .. Len(a.host) : w[k][1 + j] = a.host[j]
    <2>1. "Host: " \in Words /\ STRING \subseteq Words
      BY DEF Words, Marks
    <2> DEFINE q == a.host
    <2>2. q \in Seq(Words)
      BY <2>1, AskFields, SeqMonotonic
    <2>3. w[k] = <<"Host: ">> \o q /\ d[k] = Len(w[k])
      BY <1>5, <1>14
    <2> HIDE DEF q
    <2>4. /\ Len(<<"Host: ">> \o q) = 1 + Len(q)
          /\ (<<"Host: ">> \o q)[1] = "Host: "
          /\ \A j \in 1 .. Len(q) : (<<"Host: ">> \o q)[1 + j] = q[j]
      <3> DEFINE t == "Host: "
      <3>1. t \in Words
        BY <2>1
      <3> HIDE DEF t
      <3>2. /\ <<t>> \o q \in Seq(Words) /\ Len(<<t>> \o q) = 1 + Len(q)
            /\ (<<t>> \o q)[1] = t
            /\ \A j \in 1 .. Len(q) : (<<t>> \o q)[1 + j] = q[j]
        BY ONLY <2>2, <3>1, Prefixed
      <3> QED BY <3>2 DEF t
    <2>5. /\ d[k] = 1 + Len(q) /\ w[k][1] = "Host: "
          /\ \A j \in 1 .. Len(q) : w[k][1 + j] = q[j]
      BY <2>3, <2>4, Zenon
    <2> QED BY <2>5 DEF q
  <1>16. \A l \in 1 .. k - 1 : \A j \in 1 .. d[l] : w[l][j] # "Host: "
    <2> SUFFICES ASSUME NEW l \in 1 .. k - 1, NEW j \in 1 .. d[l] PROVE w[l][j] # "Host: "
      OBVIOUS
    <2>1. l \in 1 .. n
      BY <1>1
    <2>2. w[l] \in Seq(Words) /\ j \in 1 .. Len(w[l])
      BY <1>5, <2>1
    <2>3. w[l][j] \in Range(w[l])
      BY <2>2 DEF Range
    <2> QED BY <1>14, <2>3
  <1>17. HostAt(a, n, d, w, o, k)
    BY <1>11, <1>13, <1>15, <1>16 DEF H, HostAt
  <1> QED BY <1>11, <1>17 DEF H

\* Where the parts of a text end: the path, the URL, the request line, the
\* headers; the blank line ends the head.
PathStop(a) == 2 + Len(Path(a))
UrlStop(a) == PathStop(a) + Len(Extra(a))
LineStop(a) == UrlStop(a) + 5
HeadersStop(a) == LineStop(a) + Len(Lines(a))

LEMMA Five ==
    ASSUME NEW W, NEW a \in W, NEW b \in W, NEW c \in W, NEW d \in W, NEW e \in W
    PROVE  /\ <<a, b, c, d, e>> \in Seq(W) /\ Len(<<a, b, c, d, e>>) = 5
           /\ <<a, b, c, d, e>>[1] = a /\ <<a, b, c, d, e>>[2] = b
           /\ <<a, b, c, d, e>>[3] = c /\ <<a, b, c, d, e>>[4] = d
           /\ <<a, b, c, d, e>>[5] = e
OBVIOUS

LEMMA Two ==
    ASSUME NEW W, NEW a \in W, NEW b \in W
    PROVE  /\ <<a, b>> \in Seq(W) /\ Len(<<a, b>>) = 2
           /\ <<a, b>>[1] = a /\ <<a, b>>[2] = b
OBVIOUS

LEMMA Stops ==
    ASSUME NEW a \in Asks
    PROVE  /\ Path(a) \in Seq(Words) /\ Extra(a) \in Seq(Words)
           /\ Lines(a) \in Seq(Words) /\ a.body \in Seq(Words)
           /\ Len(Path(a)) \in Nat /\ Len(Extra(a)) \in Nat
           /\ Len(Lines(a)) \in Nat /\ Len(a.body) \in Nat
           /\ Len(Path(a)) > 0
           /\ PathStop(a) \in Nat /\ UrlStop(a) \in Nat
           /\ LineStop(a) \in Nat /\ HeadersStop(a) \in Nat
  <1>1. /\ PathWords \subseteq Words /\ ExtraWords \subseteq Words /\ STRING \subseteq Words
    BY DEF PathWords, ExtraWords, Words, Marks, UrlWords
  <1>2. Path(a) \in Seq(Words) /\ Extra(a) \in Seq(Words) /\ a.body \in Seq(Words)
    BY <1>1, PathIs, QueryIs, AskFields, SeqMonotonic
  <1>3. Lines(a) \in Seq(Words)
    BY LinesAreRuled
  <1>4. /\ Len(Path(a)) \in Nat /\ Len(Extra(a)) \in Nat
        /\ Len(Lines(a)) \in Nat /\ Len(a.body) \in Nat
    BY <1>2, <1>3, LenProperties
  <1>5. Len(Path(a)) > 0
    <2>1. Folder(a) \in Seq(PathWords) /\ a.name \in Seq(UrlWords \ {"/", "?"})
      BY FolderIs, AskFields
    <2>2. Len(Folder(a)) \in Nat /\ Len(a.name) \in Nat
      BY <2>1, LenProperties
    <2>3. Len(Path(a)) = Len(Folder(a)) + 1 + Len(a.name)
      BY PathIs
    <2> DEFINE m == Len(Folder(a))
               n == Len(a.name)
    <2>4. m \in Nat /\ n \in Nat /\ Len(Path(a)) = m + 1 + n
      BY <2>2, <2>3
    <2> HIDE DEF m, n
    <2> QED BY <2>4
  <1> QED BY <1>2, <1>3, <1>4, <1>5 DEF PathStop, UrlStop, LineStop, HeadersStop

\* The part q of a text t, behind m words of it.
Part(t, m, q) == \A j \in 1 .. Len(q) : t[m + j] = q[j]

LEMMA JoinedParts ==
    ASSUME NEW W, NEW p, NEW q, p \in Seq(W), q \in Seq(W)
    PROVE  /\ p \o q \in Seq(W) /\ Len(p \o q) = Len(p) + Len(q)
           /\ Len(p) \in Nat /\ Len(q) \in Nat
           /\ Part(p \o q, 0, p) /\ Part(p \o q, Len(p), q)
  <1> DEFINE r == p \o q
  <1>1. /\ r \in Seq(W) /\ Len(r) = Len(p) + Len(q)
        /\ \A i \in 1 .. Len(p) : r[i] = p[i]
        /\ \A j \in 1 .. Len(q) : r[Len(p) + j] = q[j]
    BY Joined
  <1>2. Len(p) \in Nat /\ Len(q) \in Nat
    OBVIOUS
  <1> HIDE DEF r
  <1>3. \A i \in 1 .. Len(p) : r[0 + i] = p[i]
    BY <1>1, <1>2
  <1> QED BY <1>1, <1>2, <1>3 DEF r, Part

\* A part of the beginning of a text is a part of the text.
LEMMA PartKept ==
    ASSUME NEW r, NEW s, NEW m, NEW q, m \in Nat, Len(q) \in Nat, Len(r) \in Nat,
           Part(r, m, q), m + Len(q) <= Len(r), Part(s, 0, r)
    PROVE  Part(s, m, q)
  <1> DEFINE n == Len(q)
             l == Len(r)
  <1>1. n \in Nat /\ l \in Nat /\ m + n <= l
    OBVIOUS
  <1>2. \A i \in 1 .. l : s[0 + i] = r[i]
    BY DEF Part
  <1>3. \A j \in 1 .. n : r[m + j] = q[j]
    BY DEF Part
  <1> HIDE DEF n, l
  <1>4. \A j \in 1 .. n : s[m + j] = q[j]
    <2> TAKE j \in 1 .. n
    <2>1. m + j \in 1 .. l /\ 0 + (m + j) = m + j
      BY <1>1
    <2> QED BY <1>2, <1>3, <2>1
  <1> QED BY <1>4 DEF Part, n

LEMMA PartAdded ==
    ASSUME NEW W, NEW p, NEW q, NEW n, NEW t,
           p \in Seq(W), q \in Seq(W), Len(p) = n, t = p \o q
    PROVE  t \in Seq(W) /\ Len(t) = n + Len(q) /\ Part(t, 0, p) /\ Part(t, n, q)
BY JoinedParts

\* Where everything is in what the client writes.
LEMMA TextIs ==
    ASSUME NEW a \in Asks
    PROVE  /\ Text(a) \in Seq(Words)
           /\ Len(Text(a)) = HeadersStop(a) + 1 + Len(a.body)
           /\ Text(a)[1] = a.method /\ Text(a)[2] = " "
           /\ Part(Text(a), 2, Path(a)) /\ Part(Text(a), PathStop(a), Extra(a))
           /\ Text(a)[UrlStop(a) + 1] = " " /\ Text(a)[UrlStop(a) + 2] = "HTTP"
           /\ Text(a)[UrlStop(a) + 3] = "/" /\ Text(a)[UrlStop(a) + 4] = "1.1"
           /\ Text(a)[UrlStop(a) + 5] = "crlf"
           /\ Part(Text(a), LineStop(a), Lines(a))
           /\ Text(a)[HeadersStop(a) + 1] = "crlf"
  <1> DEFINE q == <<a.method, " ">>
             R == <<" ", "HTTP", "/", "1.1", "crlf">>
             e == <<"crlf">>
             P == Path(a)
             X == Extra(a)
             H == Lines(a)
             B == a.body
             t == Text(a)
             n1 == PathStop(a)
             n2 == UrlStop(a)
             n3 == LineStop(a)
             n4 == HeadersStop(a)
  <1>1. /\ a.method \in Words /\ " " \in Words /\ "HTTP" \in Words /\ "/" \in Words
        /\ "1.1" \in Words /\ "crlf" \in Words
    BY AskFields DEF Words, Marks
  <1>2. /\ q \in Seq(Words) /\ Len(q) = 2 /\ q[1] = a.method /\ q[2] = " "
    BY ONLY <1>1, Two
  <1>3. /\ R \in Seq(Words) /\ Len(R) = 5 /\ R[1] = " " /\ R[2] = "HTTP" /\ R[3] = "/"
        /\ R[4] = "1.1" /\ R[5] = "crlf"
    BY ONLY <1>1, Five
  <1>4. e \in Seq(Words) /\ Len(e) = 1 /\ e[1] = "crlf"
    BY ONLY <1>1, Single
  <1>5. t = q \o P \o X \o R \o H \o e \o B
    BY DEF Text, Extra, Lines
  <1>6. /\ n1 = 2 + Len(P) /\ n2 = n1 + Len(X) /\ n3 = n2 + 5 /\ n4 = n3 + Len(H)
    BY DEF PathStop, UrlStop, LineStop, HeadersStop
  <1>7. /\ n1 \in Nat /\ n2 \in Nat /\ n3 \in Nat /\ n4 \in Nat
        /\ P \in Seq(Words) /\ X \in Seq(Words) /\ H \in Seq(Words) /\ B \in Seq(Words)
        /\ Len(B) \in Nat
    BY Stops
  <1> HIDE DEF q, R, e, P, X, H, B, t, n1, n2, n3, n4
  <1>8. /\ t \in Seq(Words) /\ Len(t) = n4 + 1 + Len(B)
        /\ Part(t, 0, q) /\ Part(t, 2, P) /\ Part(t, n1, X)
        /\ Part(t, n2, R) /\ Part(t, n3, H) /\ Part(t, n4, e)
    <2> DEFINE k == 2
               n5 == n4 + 1
               n6 == n5 + Len(B)
               t0 == q
               t1 == t0 \o P
               t2 == t1 \o X
               t3 == t2 \o R
               t4 == t3 \o H
               t5 == t4 \o e
               t6 == t5 \o B
    <2>1. /\ k \in Nat /\ n5 \in Nat /\ n6 \in Nat
          /\ k = Len(q) /\ n1 = k + Len(P) /\ n3 = n2 + Len(R)
          /\ n5 = n4 + Len(e) /\ n6 = n5 + Len(B)
      <3>1. Len(q) = 2 /\ Len(R) = 5 /\ Len(e) = 1
        BY <1>2, <1>3, <1>4
      <3> QED BY ONLY <1>6, <1>7, <3>1
    <2>2. /\ t = t6 /\ t0 = q
          /\ t1 = t0 \o P /\ t2 = t1 \o X /\ t3 = t2 \o R
          /\ t4 = t3 \o H /\ t5 = t4 \o e /\ t6 = t5 \o B
      BY <1>5
    <2> HIDE DEF k, n5, n6, t0, t1, t2, t3, t4, t5, t6
    <2>3. t0 \in Seq(Words) /\ Len(t0) = k
      BY <1>2, <2>1, <2>2
    <2>4. /\ t1 \in Seq(Words) /\ Len(t1) = n1
          /\ Part(t1, 0, t0) /\ Part(t1, k, P)
      <3>1. t0 \in Seq(Words) /\ P \in Seq(Words) /\ Len(t0) = k /\ t1 = t0 \o P
        BY <1>7, <2>2, <2>3
      <3>2. /\ t1 \in Seq(Words) /\ Len(t1) = k + Len(P)
            /\ Part(t1, 0, t0) /\ Part(t1, k, P)
        BY ONLY <3>1, PartAdded
      <3> QED BY <1>6, <2>1, <3>2
    <2>5. /\ t2 \in Seq(Words) /\ Len(t2) = n2
          /\ Part(t2, 0, t1) /\ Part(t2, n1, X)
      <3>1. t1 \in Seq(Words) /\ X \in Seq(Words) /\ Len(t1) = n1 /\ t2 = t1 \o X
        BY <1>7, <2>2, <2>4
      <3>2. /\ t2 \in Seq(Words) /\ Len(t2) = n1 + Len(X)
            /\ Part(t2, 0, t1) /\ Part(t2, n1, X)
        BY ONLY <3>1, PartAdded
      <3> QED BY <1>6, <2>1, <3>2
    <2>6. /\ t3 \in Seq(Words) /\ Len(t3) = n3
          /\ Part(t3, 0, t2) /\ Part(t3, n2, R)
      <3>1. t2 \in Seq(Words) /\ R \in Seq(Words) /\ Len(t2) = n2 /\ t3 = t2 \o R
        BY <1>3, <2>2, <2>5
      <3>2. /\ t3 \in Seq(Words) /\ Len(t3) = n2 + Len(R)
            /\ Part(t3, 0, t2) /\ Part(t3, n2, R)
        BY ONLY <3>1, PartAdded
      <3> QED BY <1>6, <2>1, <3>2
    <2>7. /\ t4 \in Seq(Words) /\ Len(t4) = n4
          /\ Part(t4, 0, t3) /\ Part(t4, n3, H)
      <3>1. t3 \in Seq(Words) /\ H \in Seq(Words) /\ Len(t3) = n3 /\ t4 = t3 \o H
        BY <1>7, <2>2, <2>6
      <3>2. /\ t4 \in Seq(Words) /\ Len(t4) = n3 + Len(H)
            /\ Part(t4, 0, t3) /\ Part(t4, n3, H)
        BY ONLY <3>1, PartAdded
      <3> QED BY <1>6, <2>1, <3>2
    <2>8. /\ t5 \in Seq(Words) /\ Len(t5) = n5
          /\ Part(t5, 0, t4) /\ Part(t5, n4, e)
      <3>1. t4 \in Seq(Words) /\ e \in Seq(Words) /\ Len(t4) = n4 /\ t5 = t4 \o e
        BY <1>4, <2>2, <2>7
      <3>2. /\ t5 \in Seq(Words) /\ Len(t5) = n4 + Len(e)
            /\ Part(t5, 0, t4) /\ Part(t5, n4, e)
        BY ONLY <3>1, PartAdded
      <3> QED BY <1>6, <2>1, <3>2
    <2>9. /\ t6 \in Seq(Words) /\ Len(t6) = n6
          /\ Part(t6, 0, t5) /\ Part(t6, n5, B)
      <3>1. t5 \in Seq(Words) /\ B \in Seq(Words) /\ Len(t5) = n5 /\ t6 = t5 \o B
        BY <1>7, <2>2, <2>8
      <3>2. /\ t6 \in Seq(Words) /\ Len(t6) = n5 + Len(B)
            /\ Part(t6, 0, t5) /\ Part(t6, n5, B)
        BY ONLY <3>1, PartAdded
      <3> QED BY <1>6, <2>1, <3>2
    <2>10. /\ Len(q) \in Nat /\ Len(P) \in Nat /\ Len(X) \in Nat /\ Len(R) \in Nat
           /\ Len(H) \in Nat /\ Len(e) \in Nat /\ 0 \in Nat
      <3>1. /\ q \in Seq(Words) /\ P \in Seq(Words) /\ X \in Seq(Words)
            /\ R \in Seq(Words) /\ H \in Seq(Words) /\ e \in Seq(Words)
        BY <1>2, <1>3, <1>4, <1>7
      <3> QED BY ONLY <3>1, LenProperties
    <2>11. Part(t6, 0, t4) /\ Part(t6, n4, e)
      <3>1. /\ 0 + Len(t4) <= Len(t5) /\ n4 + Len(e) <= Len(t5)
            /\ Len(t5) \in Nat /\ Len(t4) \in Nat /\ n4 \in Nat
        BY <1>6, <1>7, <2>1, <2>7, <2>8, <2>10
      <3>2. Part(t6, 0, t5) /\ Part(t5, 0, t4) /\ Part(t5, n4, e)
        BY <2>8, <2>9
      <3> QED BY ONLY <2>10, <3>1, <3>2, PartKept
    <2>12. Part(t6, 0, t3) /\ Part(t6, n3, H)
      <3>1. /\ 0 + Len(t3) <= Len(t4) /\ n3 + Len(H) <= Len(t4)
            /\ Len(t4) \in Nat /\ Len(t3) \in Nat /\ n3 \in Nat
        BY <1>6, <1>7, <2>1, <2>6, <2>7, <2>10
      <3>2. Part(t6, 0, t4) /\ Part(t4, 0, t3) /\ Part(t4, n3, H)
        BY <2>7, <2>11
      <3> QED BY ONLY <2>10, <3>1, <3>2, PartKept
    <2>13. Part(t6, 0, t2) /\ Part(t6, n2, R)
      <3>1. /\ 0 + Len(t2) <= Len(t3) /\ n2 + Len(R) <= Len(t3)
            /\ Len(t3) \in Nat /\ Len(t2) \in Nat /\ n2 \in Nat
        BY <1>6, <1>7, <2>1, <2>5, <2>6, <2>10
      <3>2. Part(t6, 0, t3) /\ Part(t3, 0, t2) /\ Part(t3, n2, R)
        BY <2>6, <2>12
      <3> QED BY ONLY <2>10, <3>1, <3>2, PartKept
    <2>14. Part(t6, 0, t1) /\ Part(t6, n1, X)
      <3>1. /\ 0 + Len(t1) <= Len(t2) /\ n1 + Len(X) <= Len(t2)
            /\ Len(t2) \in Nat /\ Len(t1) \in Nat /\ n1 \in Nat
        BY <1>6, <1>7, <2>1, <2>4, <2>5, <2>10
      <3>2. Part(t6, 0, t2) /\ Part(t2, 0, t1) /\ Part(t2, n1, X)
        BY <2>5, <2>13
      <3> QED BY ONLY <2>10, <3>1, <3>2, PartKept
    <2>15. Part(t6, 0, t0) /\ Part(t6, k, P)
      <3>1. /\ 0 + Len(t0) <= Len(t1) /\ k + Len(P) <= Len(t1)
            /\ Len(t1) \in Nat /\ Len(t0) \in Nat /\ k \in Nat
        BY <1>6, <1>7, <2>1, <2>3, <2>4, <2>10
      <3>2. Part(t6, 0, t1) /\ Part(t1, 0, t0) /\ Part(t1, k, P)
        BY <2>4, <2>14
      <3> QED BY ONLY <2>10, <3>1, <3>2, PartKept
    <2> QED BY <2>2, <2>9, <2>11, <2>12, <2>13, <2>14, <2>15 DEF k, n5, n6
  <1>9. t[1] = a.method /\ t[2] = " "
    <2>1. Part(t, 0, q) /\ Len(q) = 2
      BY <1>2, <1>8
    <2>2. \A j \in 1 .. 2 : t[0 + j] = q[j]
      BY <2>1 DEF Part
    <2>3. t[1] = q[1] /\ t[2] = q[2]
      BY <2>2
    <2> QED BY <1>2, <2>3, Zenon
  <1>10. /\ t[n2 + 1] = " " /\ t[n2 + 2] = "HTTP" /\ t[n2 + 3] = "/" /\ t[n2 + 4] = "1.1"
         /\ t[n2 + 5] = "crlf"
    <2>1. Part(t, n2, R) /\ Len(R) = 5
      BY <1>3, <1>8
    <2>2. /\ t[n2 + 1] = R[1] /\ t[n2 + 2] = R[2] /\ t[n2 + 3] = R[3]
          /\ t[n2 + 4] = R[4] /\ t[n2 + 5] = R[5]
      BY <2>1 DEF Part
    <2> QED BY <1>3, <2>2, Zenon
  <1>11. t[n4 + 1] = "crlf"
    <2>1. \A j \in 1 .. 1 : t[n4 + j] = e[j]
      BY <1>4, <1>8 DEF Part
    <2> QED BY <1>4, <2>1
  <1> QED BY <1>8, <1>9, <1>10, <1>11 DEF P, X, H, B, t, n1, n2, n3, n4

LEMMA LenText ==
    ASSUME NEW a \in Asks
    PROVE  /\ Len(Text(a)) \in Nat /\ Len(Text(a)) - Len(a.body) = HeadersStop(a) + 1
           /\ HeadersStop(a) + 1 <= Len(Text(a))
  <1>1. HeadersStop(a) \in Nat /\ Len(a.body) \in Nat
    BY Stops
  <1>2. Len(Text(a)) = HeadersStop(a) + 1 + Len(a.body)
    BY TextIs
  <1> QED BY <1>1, <1>2

\* No word of a URL ends a line.
LEMMA UrlIsOneLine ==
    ASSUME NEW a \in Asks, NEW i \in 1 .. UrlStop(a) + 4
    PROVE  Text(a)[i] # "crlf"
  <1>1. /\ PathStop(a) = 2 + Len(Path(a)) /\ UrlStop(a) = PathStop(a) + Len(Extra(a))
        /\ Len(Path(a)) \in Nat /\ Len(Extra(a)) \in Nat
        /\ PathStop(a) \in Nat /\ UrlStop(a) \in Nat
    BY Stops DEF PathStop, UrlStop
  <1>2. \A j \in 1 .. Len(Path(a)) : Text(a)[2 + j] # "crlf"
    <2>1. Path(a) \in Seq(PathWords) /\ "crlf" \notin PathWords
      BY PathIs DEF PathWords, UrlWords
    <2>2. \A j \in 1 .. Len(Path(a)) : Text(a)[2 + j] = Path(a)[j]
      BY TextIs DEF Part
    <2> QED BY <2>1, <2>2
  <1>3. \A j \in 1 .. Len(Extra(a)) : Text(a)[PathStop(a) + j] # "crlf"
    <2>1. Extra(a) \in Seq(ExtraWords) /\ "crlf" \notin ExtraWords
      BY QueryIs DEF ExtraWords, UrlWords
    <2>2. \A j \in 1 .. Len(Extra(a)) : Text(a)[PathStop(a) + j] = Extra(a)[j]
      BY TextIs DEF Part
    <2> QED BY <2>1, <2>2
  <1>4. /\ Text(a)[1] # "crlf" /\ Text(a)[2] # "crlf"
        /\ Text(a)[UrlStop(a) + 1] # "crlf" /\ Text(a)[UrlStop(a) + 2] # "crlf"
        /\ Text(a)[UrlStop(a) + 3] # "crlf" /\ Text(a)[UrlStop(a) + 4] # "crlf"
    <2>1. a.method # "crlf"
      BY AskFields
    <2>2. /\ Text(a)[1] = a.method /\ Text(a)[2] = " "
          /\ Text(a)[UrlStop(a) + 1] = " " /\ Text(a)[UrlStop(a) + 2] = "HTTP"
          /\ Text(a)[UrlStop(a) + 3] = "/" /\ Text(a)[UrlStop(a) + 4] = "1.1"
      BY TextIs
    <2> QED BY <2>1, <2>2
  <1> DEFINE t == Text(a)
             p == Len(Path(a))
             x == Len(Extra(a))
             n1 == PathStop(a)
             n2 == UrlStop(a)
  <1>5. /\ p \in Nat /\ x \in Nat /\ n1 \in Nat /\ n2 \in Nat
        /\ n1 = 2 + p /\ n2 = n1 + x /\ i \in 1 .. n2 + 4
    BY <1>1
  <1>6. /\ \A j \in 1 .. p : t[2 + j] # "crlf"
        /\ \A j \in 1 .. x : t[n1 + j] # "crlf"
    BY <1>2, <1>3
  <1> HIDE DEF t, p, x, n1, n2
  <1>7. CASE i \in 3 .. n1
    <2>1. i - 2 \in 1 .. p /\ 2 + (i - 2) = i
      BY <1>5, <1>7
    <2> QED BY <1>6, <2>1 DEF t
  <1>8. CASE i \in n1 + 1 .. n2
    <2>1. i - n1 \in 1 .. x /\ n1 + (i - n1) = i
      BY <1>5, <1>8
    <2> QED BY <1>6, <2>1 DEF t
  <1>9. CASE i \in {1, 2, n2 + 1, n2 + 2, n2 + 3, n2 + 4}
    BY <1>4, <1>9 DEF t, n2
  <1>10. i \in {1, 2, n2 + 1, n2 + 2, n2 + 3, n2 + 4} \/ i \in 3 .. n1 \/ i \in n1 + 1 .. n2
    BY <1>5
  <1> QED BY <1>7, <1>8, <1>9, <1>10

\* The blank line is the first: there is none before the head is complete.
LEMMA HeadEndsOnce ==
    ASSUME NEW a \in Asks, NEW i \in 1 .. HeadersStop(a) - 1
    PROVE  ~(Text(a)[i] = "crlf" /\ Text(a)[i + 1] = "crlf")
  <1>1. PICK n, d, w, o, k : HostAt(a, n, d, w, o, k)
    BY LinesAreRuled
  <1> DEFINE t == Text(a)
             H == Lines(a)
             n2 == UrlStop(a)
             l == Len(Lines(a))
  <1>2. /\ l > 0 => H[1] # "crlf"
        /\ \A j \in 1 .. l - 1 : ~(H[j] = "crlf" /\ H[j + 1] = "crlf")
    <2>1. Ruled(n, d, w, o, Lines(a)) /\ Len(Lines(a)) = o[n]
      BY <1>1 DEF HostAt
    <2> QED BY <2>1, RuledApart
  <1>3. \A j \in 1 .. l : t[(n2 + 5) + j] = H[j]
    BY TextIs DEF Part, LineStop
  <1>4. \A j \in 1 .. n2 + 4 : t[j] # "crlf"
    BY UrlIsOneLine
  <1>5. n2 \in Nat /\ l \in Nat /\ HeadersStop(a) = n2 + 5 + l
    BY Stops DEF HeadersStop, LineStop
  <1>6. i \in 1 .. n2 + 5 + l - 1
    BY <1>5
  <1> HIDE DEF t, H, n2, l
  <1>7. CASE i <= n2 + 4
    BY <1>4, <1>5, <1>6, <1>7 DEF t
  <1>8. CASE i = n2 + 5
    <2>1. 1 \in 1 .. l /\ (n2 + 5) + 1 = i + 1
      BY <1>5, <1>6, <1>8
    <2>2. t[i + 1] = H[1] /\ H[1] # "crlf"
      BY <1>2, <1>3, <1>5, <2>1
    <2> QED BY <2>2 DEF t
  <1>9. CASE i > n2 + 5
    <2> DEFINE j == i - (n2 + 5)
    <2>1. /\ j \in 1 .. l - 1 /\ j \in 1 .. l /\ j + 1 \in 1 .. l
          /\ (n2 + 5) + j = i /\ (n2 + 5) + (j + 1) = i + 1
      BY <1>5, <1>6, <1>9
    <2> HIDE DEF j
    <2>2. t[i] = H[j] /\ t[i + 1] = H[j + 1] /\ ~(H[j] = "crlf" /\ H[j + 1] = "crlf")
      BY <1>2, <1>3, <2>1
    <2> QED BY <2>2 DEF t
  <1> QED BY <1>5, <1>6, <1>7, <1>8, <1>9

-----------------------------------------------------------------------------
(* The reads of a connection.                                                *)

LEMMA PieceIs ==
    ASSUME arrived - taken \in Nat, size - 1 \in Nat
    PROVE  Piece \in Nat /\ Piece <= arrived - taken /\ Piece <= size - 1
  <1>1. CASE arrived - taken <= size - 1
    <2> DEFINE T == {arrived - taken, size - 1}
               m == arrived - taken
    <2>1. T \in SUBSET Int /\ m \in T /\ \A y \in T : m <= y
      BY <1>1
    <2> HIDE DEF T, m
    <2>2. Min(T) = m
      BY <2>1, MinIs
    <2> QED BY <1>1, <2>2 DEF Piece, T, m
  <1>2. CASE ~(arrived - taken <= size - 1)
    <2> DEFINE T == {arrived - taken, size - 1}
               m == size - 1
    <2>1. T \in SUBSET Int /\ m \in T /\ \A y \in T : m <= y
      BY <1>2
    <2> HIDE DEF T, m
    <2>2. Min(T) = m
      BY <2>1, MinIs
    <2> QED BY <1>2, <2>2 DEF Piece, T, m
  <1> QED BY <1>1, <1>2

LEMMA UnderstoodRoute ==
    ASSUME NEW data, NEW r \in Understood(data)
    PROVE  r.route \in {"stream", "segment", "file"}
  <1>1. CASE r = Parsed(data)
    <2>1. \A params : Route(params) \in {"stream", "segment", "file"}
      BY DEF Route
    <2> QED BY <1>1, <2>1 DEF Parsed
  <1>2. CASE r \in Blank
    BY <1>2 DEF Blank
  <1> QED BY <1>1, <1>2 DEF Understood

\* The text is what the client writes for what it asks.
IInv == TypeOK /\ text = Text(ask)

LEMMA TextType ==
    ASSUME IInv
    PROVE  /\ ask \in Asks /\ text \in Seq(Words) /\ Len(text) \in Nat
           /\ arrived \in Nat /\ arrived <= Len(text) /\ taken \in Nat /\ taken <= arrived
           /\ size \in Nat /\ size >= 1 /\ size <= BuffSize /\ BuffSize \in Nat
  <1>1. ask \in Asks /\ text = Text(ask)
    BY DEF IInv, TypeOK
  <1>2. text \in Seq(Words)
    BY <1>1, TextIs
  <1>3. Len(text) \in Nat
    BY <1>2
  <1>4. arrived \in 0 .. Len(text) /\ taken \in 0 .. arrived /\ size \in 1 .. BuffSize
    BY DEF IInv, TypeOK
  <1>5. BuffSize \in Nat
    BY RequestAssumption
  <1> QED BY <1>1, <1>2, <1>3, <1>4, <1>5

LEMMA PieceType ==
    ASSUME IInv
    PROVE  /\ Piece \in Nat /\ taken + Piece <= arrived /\ Piece <= size - 1
           /\ SubSeq(text, taken + 1, taken + Piece) \in Seq(Words)
           /\ Len(SubSeq(text, taken + 1, taken + Piece)) = Piece
           /\ \A i \in 1 .. Piece : SubSeq(text, taken + 1, taken + Piece)[i] = text[taken + i]
  <1>1. /\ text \in Seq(Words) /\ Len(text) \in Nat
        /\ arrived \in Nat /\ arrived <= Len(text) /\ taken \in Nat /\ taken <= arrived
        /\ size \in Nat /\ size >= 1
    BY TextType
  <1>2. arrived - taken \in Nat /\ size - 1 \in Nat
    BY <1>1
  <1>3. Piece \in Nat /\ Piece <= arrived - taken /\ Piece <= size - 1
    BY <1>2, PieceIs
  <1>4. taken + Piece <= arrived
    BY <1>1, <1>3
  <1> DEFINE m == taken + 1
             n == taken + Piece
  <1>5. /\ m \in Int /\ n \in Int /\ n - m + 1 = Piece /\ (m <= n => n - m + 1 >= 1)
        /\ \A j \in m .. n : text[j] \in Words
    <2>1. \A j \in 1 .. Len(text) : text[j] \in Words
      BY <1>1
    <2> QED BY <1>1, <1>3, <1>4, <2>1
  <1>6. CASE Piece = 0
    <2>1. m > n
      BY <1>1, <1>6
    <2>2. SubSeq(text, m, n) = <<>>
      BY <1>5, <2>1
    <2> QED BY <1>1, <1>3, <1>4, <1>6, <2>2
  <1>7. CASE Piece # 0
    <2>1. m <= n
      BY <1>1, <1>3, <1>7
    <2> HIDE DEF m, n
    <2>2. /\ SubSeq(text, m, n) \in Seq(Words) /\ Len(SubSeq(text, m, n)) = n - m + 1
          /\ \A i \in 1 .. n - m + 1 : SubSeq(text, m, n)[i] = text[m + i - 1]
      BY <1>5, <2>1, SubSeqProperties
    <2>3. \A i \in 1 .. Piece : m + i - 1 = taken + i
      BY <1>1, <1>3 DEF m
    <2>4. \A i \in 1 .. Piece : SubSeq(text, m, n)[i] = text[taken + i]
      BY <1>5, <2>2, <2>3
    <2> QED BY <1>3, <1>4, <1>5, <2>2, <2>4 DEF m, n
  <1> QED BY <1>3, <1>6, <1>7

LEMMA InitIInv == Init => IInv
  <1> SUFFICES ASSUME Init PROVE IInv
    OBVIOUS
  <1>1. /\ ask \in Asks /\ text = Text(ask) /\ arrived = 0 /\ taken = 0 /\ closed = FALSE
        /\ size = BuffSize /\ buff = <<>> /\ phase = "parse" /\ req = NoRequest
    BY DEF Init
  <1>2. Len(text) \in Nat /\ BuffSize \in Nat /\ BuffSize >= 1
    BY <1>1, LenText, RequestAssumption
  <1>3. arrived \in 0 .. Len(text) /\ taken \in 0 .. arrived /\ size \in 1 .. BuffSize
    BY <1>1, <1>2
  <1>4. Len(buff) <= BuffSize - size
    BY <1>1, <1>2
  <1> QED BY <1>1, <1>3, <1>4 DEF IInv, TypeOK

\* What parse_request leaves behind.
LEMMA ParseReturnsType ==
    ASSUME IInv, NEW data, ParseReturns(data), taken' \in 0 .. arrived
    PROVE  IInv'
  <1>1. /\ size' = BuffSize /\ buff' = <<>>
        /\ ask' = ask /\ text' = text /\ arrived' = arrived /\ closed' = closed
        /\ \/ phase' = "serve" /\ req' \in Understood(data)
           \/ phase' = phase /\ req' = req
    BY DEF ParseReturns
  <1>2. /\ ask \in Asks /\ arrived \in 0 .. Len(text) /\ closed \in BOOLEAN
        /\ phase \in {"parse", "serve", "drain", "over"}
        /\ req = NoRequest \/ req.route \in {"stream", "segment", "file"}
        /\ text = Text(ask)
    BY DEF IInv, TypeOK
  <1>3. BuffSize \in Nat /\ BuffSize >= 1
    BY RequestAssumption
  <1>4. size' \in 1 .. BuffSize /\ Len(buff') <= BuffSize - size'
    BY <1>1, <1>3
  <1>5. req' = NoRequest \/ req'.route \in {"stream", "segment", "file"}
    BY <1>1, <1>2, UnderstoodRoute
  <1>6. phase' \in {"parse", "serve", "drain", "over"}
    BY <1>1, <1>2
  <1>7. NoRequest' = NoRequest
    BY DEF NoRequest
  <1> QED BY <1>1, <1>2, <1>4, <1>5, <1>6, <1>7 DEF IInv, TypeOK

LEMMA NextIInv == IInv /\ [Next]_vars => IInv'
  <1> SUFFICES ASSUME IInv, [Next]_vars PROVE IInv'
    OBVIOUS
  <1> DEFINE rest == UNCHANGED <<ask, text>>
  <1>0. /\ ask \in Asks /\ arrived \in 0 .. Len(text) /\ taken \in 0 .. arrived
        /\ closed \in BOOLEAN /\ size \in 1 .. BuffSize /\ Len(buff) <= BuffSize - size
        /\ phase \in {"parse", "serve", "drain", "over"}
        /\ req = NoRequest \/ req.route \in {"stream", "segment", "file"}
        /\ text = Text(ask)
    BY DEF IInv, TypeOK
  <1>1. /\ Len(text) \in Nat /\ arrived \in Nat /\ taken \in Nat /\ size \in Nat
        /\ BuffSize \in Nat /\ arrived <= Len(text) /\ taken <= arrived
        /\ size >= 1 /\ size <= BuffSize
    BY TextType
  <1>2. CASE Arrive
    <2>1. arrived' \in arrived + 1 .. Len(text)
          /\ UNCHANGED <<ask, text, taken, closed, size, buff, phase, req>>
      BY <1>2 DEF Arrive
    <2>2. arrived' \in 0 .. Len(text') /\ taken' \in 0 .. arrived'
      BY <1>1, <2>1
    <2> QED BY <1>0, <2>1, <2>2 DEF IInv, TypeOK, NoRequest
  <1>3. CASE Close
    BY <1>0, <1>3 DEF Close, IInv, TypeOK, NoRequest
  <1>4. CASE Read
    <2> DEFINE piece == SubSeq(text, taken + 1, taken + Piece)
    <2>1. taken' = taken + Piece /\ Piece > 0
      BY <1>4 DEF Read
    <2>2. Piece \in Nat /\ taken + Piece <= arrived /\ Piece <= size - 1 /\ Len(piece) = Piece
      BY PieceType
    <2>3. taken' \in 0 .. arrived
      BY <1>1, <2>1, <2>2
    <2>4. CASE checkRequest(piece)
      <3>1. ParseReturns(piece)
        BY <1>4, <2>4 DEF Read
      <3> HIDE DEF piece
      <3> QED BY <2>3, <3>1, ParseReturnsType
    <2>5. CASE ~checkRequest(piece)
      <3>1. /\ buff' = piece /\ size' = size - Piece
            /\ UNCHANGED <<ask, text, arrived, closed, phase, req>>
        BY <1>4, <2>5 DEF Read
      <3>2. Len(buff') = Piece /\ size' \in 1 .. BuffSize /\ Len(buff') <= BuffSize - size'
        BY <1>1, <2>2, <3>1
      <3> QED BY <1>0, <2>3, <3>1, <3>2 DEF IInv, TypeOK, NoRequest
    <2> QED BY <2>4, <2>5
  <1>5. CASE ReadEnds
    <2>1. CASE size = BuffSize
      BY <1>0, <1>5, <2>1 DEF ReadEnds, ParseFails, IInv, TypeOK, NoRequest
    <2>2. CASE size # BuffSize
      <3>1. ParseReturns(buff) /\ taken' = taken
        BY <1>5, <2>2 DEF ReadEnds
      <3> QED BY <1>0, <3>1, ParseReturnsType
    <2> QED BY <2>1, <2>2
  <1>6. CASE TimesOut
    BY <1>0, <1>6 DEF TimesOut, ParseFails, IInv, TypeOK, NoRequest
  <1>7. CASE Served
    BY <1>0, <1>7 DEF Served, IInv, TypeOK, NoRequest
  <1>8. CASE Interrupted
    BY <1>0, <1>8 DEF Interrupted, ParseFails, IInv, TypeOK, NoRequest
  <1>9. CASE UNCHANGED vars
    BY <1>0, <1>9 DEF vars, IInv, TypeOK, NoRequest
  <1> QED BY <1>2, <1>3, <1>4, <1>5, <1>6, <1>7, <1>8, <1>9 DEF Next

\* The invariant of a connection handler that reads a request: its fields are well typed, and
\* the text that HttpParser::parse_request reads from is the text of the one request asked.
THEOREM InvariantHolds == Spec => []IInv
BY InitIInv, NextIInv, PTL DEF Spec

\* The buffer of parse_request is never overrun, whatever the size of the
\* buffer and of the pieces: HttpParser::parse_request keeps room for the NUL.
THEOREM TypeCorrect == Spec => []TypeOK
  <1>1. IInv => TypeOK
    BY DEF IInv
  <1> QED BY <1>1, InvariantHolds, PTL

\* A piece that is taken for a request holds a blank line.
LEMMA CheckedHead == ASSUME NEW data, checkRequest(data) PROVE HeadIsComplete(data)
  BY DEF checkRequest, BodyIsComplete

LEMMA AnswerStep == IInv /\ Next /\ Answered => closed \/ size = 1 \/ taken' >= HeadLength
  <1> SUFFICES ASSUME IInv, Next, Answered, ~closed, size # 1
               PROVE  taken' >= HeadLength
    OBVIOUS
  <1>1. phase = "parse" /\ phase' = "serve"
    BY DEF Answered
  <1>2. ~ReadsNothing
    BY DEF ReadsNothing
  <1>3. Read
    BY <1>1, <1>2 DEF Next, Arrive, Close, ReadEnds, TimesOut, Served, Interrupted, ParseFails
  <1> DEFINE piece == SubSeq(text, taken + 1, taken + Piece)
  <1>4. taken' = taken + Piece /\ checkRequest(piece)
    BY <1>1, <1>3 DEF Read
  <1>5. /\ Piece \in Nat /\ piece \in Seq(Words) /\ Len(piece) = Piece
        /\ \A i \in 1 .. Piece : piece[i] = text[taken + i]
    BY PieceType
  <1> HIDE DEF piece
  <1>6. PICK i \in 1 .. Piece - 1 : piece[i] = "crlf" /\ piece[i + 1] = "crlf"
    BY <1>4, <1>5, CheckedHead, BlankLineIsThere
  <1>7. text[taken + i] = "crlf" /\ text[taken + i + 1] = "crlf"
    <2>1. i \in 1 .. Piece /\ i + 1 \in 1 .. Piece /\ taken + (i + 1) = taken + i + 1
      BY <1>5, TextType
    <2> QED BY <1>5, <1>6, <2>1
  <1>8. /\ ask \in Asks /\ text = Text(ask) /\ taken \in Nat
        /\ HeadLength = HeadersStop(ask) + 1 /\ HeadersStop(ask) \in Nat
    <2>1. ask \in Asks /\ text = Text(ask) /\ taken \in Nat
      BY TextType DEF IInv
    <2> QED BY <2>1, LenText, Stops DEF HeadLength
  <1>9. ASSUME ~(taken' >= HeadLength) PROVE FALSE
    <2>1. taken + i \in 1 .. HeadersStop(ask) - 1
      BY <1>4, <1>5, <1>8, <1>9
    <2> QED BY <1>7, <1>8, <2>1, HeadEndsOnce
  <1> QED BY <1>9

\* A client that has not sent the whole head is not answered, unless it has
\* closed or spent the buffer: checkRequest takes no piece for the end of a
\* head that it is not, however the pieces are cut.
THEOREM NoEarlyAnswerHolds == Spec => NoEarlyAnswer
  <1>1. IInv /\ [Next]_vars =>
            [Answered => closed \/ size = 1 \/ taken' >= HeadLength]_vars
    BY AnswerStep
  <1> QED BY <1>1, InvariantHolds, PTL DEF Spec, NoEarlyAnswer

-----------------------------------------------------------------------------
(* What is read out of a head.                                               *)

\* data begins with the whole head of what a client writes.
Begun(a, data) ==
    /\ data \in Seq(Words) /\ HeadersStop(a) + 1 <= Len(data)
    /\ \A i \in 1 .. HeadersStop(a) + 1 : data[i] = Text(a)[i]

LEMMA StopsType ==
    ASSUME NEW a \in Asks
    PROVE  /\ Len(Path(a)) \in Nat /\ Len(Extra(a)) \in Nat /\ Len(Lines(a)) \in Nat
           /\ Len(Path(a)) > 0
           /\ PathStop(a) \in Nat /\ UrlStop(a) \in Nat
           /\ LineStop(a) \in Nat /\ HeadersStop(a) \in Nat
           /\ PathStop(a) = 2 + Len(Path(a)) /\ UrlStop(a) = PathStop(a) + Len(Extra(a))
           /\ LineStop(a) = UrlStop(a) + 5 /\ HeadersStop(a) = LineStop(a) + Len(Lines(a))
BY Stops DEF PathStop, UrlStop, LineStop, HeadersStop

LEMMA HeadWords ==
    ASSUME NEW a \in Asks, NEW data, Begun(a, data)
    PROVE  /\ data[1] = a.method /\ data[2] = " "
           /\ \A j \in 1 .. Len(Path(a)) : data[2 + j] = Path(a)[j]
           /\ \A j \in 1 .. Len(Extra(a)) : data[PathStop(a) + j] = Extra(a)[j]
           /\ data[UrlStop(a) + 1] = " " /\ data[UrlStop(a) + 2] = "HTTP"
           /\ data[UrlStop(a) + 3] = "/" /\ data[UrlStop(a) + 4] = "1.1"
           /\ data[UrlStop(a) + 5] = "crlf"
           /\ \A j \in 1 .. Len(Lines(a)) : data[LineStop(a) + j] = Lines(a)[j]
  <1> DEFINE t == Text(a)
             p == Len(Path(a))
             x == Len(Extra(a))
             l == Len(Lines(a))
             n1 == PathStop(a)
             n2 == UrlStop(a)
             n3 == LineStop(a)
             n4 == HeadersStop(a)
  <1>1. /\ p \in Nat /\ x \in Nat /\ l \in Nat /\ n1 \in Nat /\ n2 \in Nat /\ n3 \in Nat
        /\ n4 \in Nat /\ p > 0
        /\ n1 = 2 + p /\ n2 = n1 + x /\ n3 = n2 + 5 /\ n4 = n3 + l
    BY StopsType
  <1>2. \A i \in 1 .. n4 + 1 : data[i] = t[i]
    BY DEF Begun
  <1>3. /\ t[1] = a.method /\ t[2] = " "
        /\ t[n2 + 1] = " " /\ t[n2 + 2] = "HTTP" /\ t[n2 + 3] = "/" /\ t[n2 + 4] = "1.1"
        /\ t[n2 + 5] = "crlf"
    BY TextIs
  <1>4. /\ \A j \in 1 .. p : t[2 + j] = Path(a)[j]
        /\ \A j \in 1 .. x : t[n1 + j] = Extra(a)[j]
        /\ \A j \in 1 .. l : t[n3 + j] = Lines(a)[j]
    BY TextIs DEF Part
  <1> HIDE DEF t, p, x, l, n1, n2, n3, n4
  <1>5. /\ 1 \in 1 .. n4 + 1 /\ 2 \in 1 .. n4 + 1
        /\ n2 + 1 \in 1 .. n4 + 1 /\ n2 + 2 \in 1 .. n4 + 1 /\ n2 + 3 \in 1 .. n4 + 1
        /\ n2 + 4 \in 1 .. n4 + 1 /\ n2 + 5 \in 1 .. n4 + 1
    BY <1>1
  <1>6. /\ \A j \in 1 .. p : 2 + j \in 1 .. n4 + 1
        /\ \A j \in 1 .. x : n1 + j \in 1 .. n4 + 1
        /\ \A j \in 1 .. l : n3 + j \in 1 .. n4 + 1
    BY <1>1
  <1>7. /\ data[1] = a.method /\ data[2] = " "
        /\ data[n2 + 1] = " " /\ data[n2 + 2] = "HTTP" /\ data[n2 + 3] = "/"
        /\ data[n2 + 4] = "1.1" /\ data[n2 + 5] = "crlf"
    BY <1>2, <1>3, <1>5, Zenon
  <1>8. /\ \A j \in 1 .. p : data[2 + j] = Path(a)[j]
        /\ \A j \in 1 .. x : data[n1 + j] = Extra(a)[j]
        /\ \A j \in 1 .. l : data[n3 + j] = Lines(a)[j]
    BY <1>2, <1>4, <1>6
  <1> QED BY <1>7, <1>8 DEF p, x, l, n1, n2, n3

LEMMA WordsAre == ASSUME NEW W, NEW s, s \in Seq(W) PROVE \A j \in 1 .. Len(s) : s[j] \in W
OBVIOUS

\* The words of a URL are none of those that end its parts.
LEMMA UrlWord ==
    ASSUME NEW a \in Asks, NEW data, Begun(a, data)
    PROVE  /\ \A i \in 3 .. UrlStop(a) : data[i] # " " /\ data[i] # "Host: "
           /\ \A i \in 3 .. PathStop(a) : data[i] # "?"
           /\ data[3] = "/"
  <1> DEFINE P == Path(a)
             X == Extra(a)
             p == Len(P)
             x == Len(X)
             n1 == PathStop(a)
             n2 == UrlStop(a)
  <1>1. /\ p \in Nat /\ x \in Nat /\ n1 \in Nat /\ n2 \in Nat /\ p > 0
        /\ n1 = 2 + p /\ n2 = n1 + x
    BY StopsType
  <1>2. /\ \A j \in 1 .. p : data[2 + j] = P[j]
        /\ \A j \in 1 .. x : data[n1 + j] = X[j]
    BY HeadWords
  <1>3. \A j \in 1 .. p : P[j] # " " /\ P[j] # "Host: " /\ P[j] # "?"
    <2>1. P \in Seq(PathWords) /\ \A w \in PathWords : w # " " /\ w # "Host: " /\ w # "?"
      BY PathIs DEF PathWords, UrlWords
    <2> HIDE DEF P
    <2>2. \A j \in 1 .. Len(P) : P[j] \in PathWords
      BY ONLY <2>1, WordsAre
    <2> QED BY <2>1, <2>2, Zenon
  <1>4. \A j \in 1 .. x : X[j] # " " /\ X[j] # "Host: "
    <2>1. X \in Seq(ExtraWords) /\ \A w \in ExtraWords : w # " " /\ w # "Host: "
      BY QueryIs DEF ExtraWords, UrlWords
    <2> HIDE DEF X
    <2>2. \A j \in 1 .. Len(X) : X[j] \in ExtraWords
      BY ONLY <2>1, WordsAre
    <2> QED BY <2>1, <2>2, Zenon
  <1>5. P[1] = "/"
    BY PathIs
  <1> HIDE DEF p, x, n1, n2, P, X
  <1>6. \A i \in 3 .. n1 : data[i] # " " /\ data[i] # "Host: " /\ data[i] # "?"
    <2> TAKE i \in 3 .. n1
    <2>1. i - 2 \in 1 .. p /\ 2 + (i - 2) = i
      BY <1>1
    <2> QED BY <1>2, <1>3, <2>1
  <1>7. \A i \in n1 + 1 .. n2 : data[i] # " " /\ data[i] # "Host: "
    <2> TAKE i \in n1 + 1 .. n2
    <2>1. i - n1 \in 1 .. x /\ n1 + (i - n1) = i
      BY <1>1
    <2> QED BY <1>2, <1>4, <2>1
  <1>8. data[3] = "/"
    <2>1. 1 \in 1 .. p /\ 2 + 1 = 3
      BY <1>1
    <2> QED BY <1>2, <1>5, <2>1
  <1>9. \A i \in 3 .. n2 : i \in 3 .. n1 \/ i \in n1 + 1 .. n2
    BY <1>1
  <1> QED BY <1>6, <1>7, <1>8, <1>9 DEF n1, n2

\* t is first followed by u at the end of a URL that ends at n.
UrlThen(data, n, t, u) ==
    /\ data \in Seq(Words) /\ n \in Nat /\ n + 2 <= Len(data)
    /\ data[1] # t /\ data[3] # u /\ \A i \in 3 .. n : data[i] # t
    /\ data[n + 1] = t /\ data[n + 2] = u

LEMMA FirstTwo ==
    ASSUME NEW data, NEW n, NEW t, NEW u, UrlThen(data, n, t, u)
    PROVE  find(data, <<t, u>>, 1) = n + 1
  <1>0. /\ data \in Seq(Words) /\ n \in Nat /\ n + 2 <= Len(data)
        /\ data[1] # t /\ data[3] # u /\ \A i \in 3 .. n : data[i] # t
        /\ data[n + 1] = t /\ data[n + 2] = u
    BY DEF UrlThen
  <1> DEFINE m == n + 1
             L == Len(data)
             k == 1
  <1>1. /\ m \in k .. L - 1 /\ m + 1 = n + 2 /\ k \in Nat /\ k > 0 /\ L \in Nat
    BY <1>0
  <1>2. data[m] = t /\ data[m + 1] = u
    BY <1>0, <1>1
  <1>3. \A j \in k .. m - 1 : ~(data[j] = t /\ data[j + 1] = u)
    <2> TAKE j \in k .. m - 1
    <2>1. j = 1 \/ (j = 2 /\ j + 1 = 3) \/ j \in 3 .. n
      BY <1>0
    <2> QED BY <1>0, <2>1
  <1> HIDE DEF m, k
  <1>4. find(data, <<t, u>>, k) = m
    BY <1>0, <1>1, <1>2, <1>3, FindTwo, SMTT(30)
  <1> QED BY <1>4 DEF m, k

\* The request line of a GET: its first space, slash and " HTTP".
LEMMA RequestLine ==
    ASSUME NEW a \in Asks, a.method = "GET", NEW data, Begun(a, data)
    PROVE  /\ Has(data, " ") /\ find(data, <<" ">>, 1) = 2
           /\ substr(data, 1, find(data, <<" ">>, 1) - 1) = <<"GET">>
           /\ Has(data, "/") /\ find(data, <<"/">>, 1) = 3
           /\ find(data, <<" ", "HTTP">>, 1) = UrlStop(a) + 1
  <1> DEFINE n2 == UrlStop(a)
             L == Len(data)
  <1>1. n2 \in Nat /\ n2 >= 3 /\ L \in Nat /\ n2 + 6 <= L /\ data \in Seq(Words)
    <2>1. data \in Seq(Words) /\ HeadersStop(a) + 1 <= L
      BY DEF Begun
    <2>2. L \in Nat
      BY <2>1
    <2>3. /\ HeadersStop(a) \in Nat /\ n2 \in Nat /\ n2 >= 3 /\ HeadersStop(a) >= n2 + 5
      BY StopsType
    <2> HIDE DEF L, n2
    <2> QED BY <2>1, <2>2, <2>3
  <1>2. data[1] = "GET" /\ data[2] = " " /\ data[3] = "/"
        /\ data[n2 + 1] = " " /\ data[n2 + 2] = "HTTP"
    BY HeadWords, UrlWord
  <1>3. \A i \in 3 .. n2 : data[i] # " "
    BY UrlWord
  <1> HIDE DEF n2, L
  <1>4. find(data, <<" ">>, 1) = 2
    <2> DEFINE t == " "
               m == 2
               k == 1
    <2>1. m \in k .. L /\ k \in Nat /\ k > 0
      BY <1>1
    <2>2. data[m] = t
      BY <1>2
    <2>3. \A j \in k .. m - 1 : data[j] # t
      <3> SUFFICES ASSUME NEW j \in k .. m - 1 PROVE data[j] # t
        OBVIOUS
      <3>1. j \in 1 .. m - 1
        OBVIOUS
      <3>2. j = 1
        BY <3>1
      <3> QED BY <1>2, <3>2
    <2> HIDE DEF t, m, k
    <2>4. find(data, <<t>>, k) = m
      BY <1>1, <2>1, <2>2, <2>3, FindWord DEF L
    <2> QED BY <2>4 DEF t, m, k
  <1>5. find(data, <<"/">>, 1) = 3
    <2> DEFINE t == "/"
               m == 3
               k == 1
    <2>1. m \in k .. L /\ k \in Nat /\ k > 0
      BY <1>1
    <2>2. data[m] = t
      BY <1>2
    <2>3. \A j \in k .. m - 1 : data[j] # t
      <3> SUFFICES ASSUME NEW j \in k .. m - 1 PROVE data[j] # t
        OBVIOUS
      <3>1. j \in 1 .. m - 1
        OBVIOUS
      <3>2. j = 1 \/ j = 2
        BY <3>1
      <3> QED BY <1>2, <3>2
    <2> HIDE DEF t, m, k
    <2>4. find(data, <<t>>, k) = m
      BY <1>1, <2>1, <2>2, <2>3, FindWord DEF L
    <2> QED BY <2>4 DEF t, m, k
  <1>6. find(data, <<" ", "HTTP">>, 1) = n2 + 1
    <2> DEFINE t == " "
               u == "HTTP"
    <2>1. data[1] # t /\ data[3] # u /\ data[n2 + 1] = t /\ data[n2 + 2] = u
      BY <1>2
    <2>2. \A i \in 3 .. n2 : data[i] # t
      BY <1>3
    <2>3. n2 \in Nat /\ n2 + 2 <= Len(data) /\ data \in Seq(Words)
      BY <1>1 DEF L
    <2> HIDE DEF t, u
    <2>4. find(data, <<t, u>>, 1) = n2 + 1
      <3>1. UrlThen(data, n2, t, u)
        BY <2>1, <2>2, <2>3 DEF UrlThen
      <3> QED BY <3>1, FirstTwo
    <2> QED BY <2>4 DEF t, u
  <1>7. substr(data, 1, 2 - 1) = <<"GET">>
    <2>1. substr(data, 1, 2 - 1) = SubSeq(data, 1, 1)
      BY <1>1 DEF substr, L
    <2>2. 1 \in 1 .. Len(data)
      BY <1>1 DEF L
    <2> DEFINE t == "GET"
               m == 1
    <2>3. m \in 1 .. Len(data) /\ data[m] = t /\ data \in Seq(Words)
      BY <1>1, <1>2, <2>2
    <2> HIDE DEF t, m
    <2>4. SubSeq(data, m, m) = <<t>>
      BY ONLY <2>3, OneWord
    <2> QED BY <2>1, <2>4 DEF t, m
  <1>8. Has(data, " ") /\ Has(data, "/")
    <2>1. 2 # npos /\ 3 # npos
      BY DEF npos
    <2> QED BY <1>4, <1>5, <2>1, Zenon DEF Has
  <1> QED BY <1>4, <1>5, <1>6, <1>7, <1>8, Zenon DEF n2

\* What is cut out of a text where a part of it is, is the part.
LEMMA Sliced ==
    ASSUME NEW W, NEW data, NEW s, NEW m, data \in Seq(W), s \in Seq(W), m \in Nat,
           m + Len(s) <= Len(data), Part(data, m, s)
    PROVE  SubSeq(data, m + 1, m + Len(s)) = s
  <1> DEFINE l == Len(s)
             L == Len(data)
             r == SubSeq(data, m + 1, m + l)
  <1>1. l \in Nat /\ L \in Nat /\ m \in Nat /\ m + l <= L
    OBVIOUS
  <1>2. \A j \in 1 .. l : data[m + j] = s[j]
    BY DEF Part
  <1>3. \A i \in 1 .. L : data[i] \in W
    OBVIOUS
  <1> HIDE DEF l
  <1>4. CASE l = 0
    <2>1. s = <<>>
      BY <1>4 DEF l
    <2>2. r = <<>>
      BY <1>1, <1>4
    <2> QED BY <2>1, <2>2 DEF l
  <1>5. CASE l # 0
    <2> DEFINE b == m + 1
               c == m + l
    <2>1. /\ b \in Int /\ c \in Int /\ b <= c /\ c - b + 1 = l
          /\ \A j \in b .. c : j \in 1 .. L
      BY <1>1, <1>5
    <2>2. \A j \in 1 .. l : b + j - 1 = m + j
      BY <1>1
    <2> HIDE DEF b, c, L
    <2>3. \A j \in b .. c : data[j] \in W
      BY <1>3, <2>1
    <2>4. /\ SubSeq(data, b, c) \in Seq(W) /\ Len(SubSeq(data, b, c)) = c - b + 1
          /\ \A i \in 1 .. c - b + 1 : SubSeq(data, b, c)[i] = data[b + i - 1]
      BY <2>1, <2>3, SubSeqProperties
    <2> DEFINE q == SubSeq(data, b, c)
    <2>5. q \in Seq(W) /\ Len(q) = l /\ \A i \in 1 .. l : q[i] = s[i]
      BY <1>2, <2>1, <2>2, <2>4
    <2> HIDE DEF q
    <2>6. q = s
      BY <2>5, SeqEqual DEF l
    <2> QED BY <2>6 DEF q, b, c, l
  <1> QED BY <1>4, <1>5

LEMMA BegunType ==
    ASSUME NEW a \in Asks, NEW data, Begun(a, data)
    PROVE  /\ data \in Seq(Words) /\ Len(data) \in Nat
           /\ PathStop(a) \in Nat /\ PathStop(a) >= 3 /\ PathStop(a) = 2 + Len(Path(a))
           /\ UrlStop(a) \in Nat /\ UrlStop(a) = PathStop(a) + Len(Extra(a))
           /\ PathStop(a) <= UrlStop(a) /\ UrlStop(a) + 6 <= Len(data)
  <1>1. data \in Seq(Words) /\ HeadersStop(a) + 1 <= Len(data)
    BY DEF Begun
  <1>2. Len(data) \in Nat
    BY <1>1
  <1> DEFINE L == Len(data)
             p == Len(Path(a))
             x == Len(Extra(a))
             l == Len(Lines(a))
             n1 == PathStop(a)
             n2 == UrlStop(a)
             n3 == LineStop(a)
             n4 == HeadersStop(a)
  <1>3. /\ p \in Nat /\ p > 0 /\ x \in Nat /\ l \in Nat /\ L \in Nat /\ n4 + 1 <= L
        /\ n1 = 2 + p /\ n2 = n1 + x /\ n3 = n2 + 5 /\ n4 = n3 + l
    BY <1>1, <1>2, StopsType
  <1> HIDE DEF L, p, x, l, n1, n2, n3, n4
  <1>4. /\ n1 \in Nat /\ n1 >= 3 /\ n2 \in Nat /\ n1 <= n2 /\ n2 + 6 <= L
    BY <1>3
  <1> QED BY <1>1, <1>2, <1>3, <1>4 DEF L, p, x, n1, n2

\* The question mark of the URL is the first of the text, if it has one.
LEMMA QuestionMark ==
    ASSUME NEW a \in Asks, a.method = "GET", NEW data, Begun(a, data),
           \A i \in UrlStop(a) + 2 .. Len(data) : data[i] # "?"
    PROVE  /\ Query(a) = <<>> => ~Has(data, "?") /\ UrlStop(a) = PathStop(a)
           /\ Query(a) # <<>> => /\ Has(data, "?")
                                 /\ find(data, <<"?">>, 1) = PathStop(a) + 1
  <1> DEFINE n1 == PathStop(a)
             n2 == UrlStop(a)
             x == Len(Extra(a))
             L == Len(data)
             t == "?"
  <1>1. /\ data \in Seq(Words) /\ L \in Nat /\ n1 \in Nat /\ n1 >= 3 /\ n2 = n1 + x
        /\ n2 \in Nat /\ n1 <= n2 /\ n2 + 6 <= L
    BY BegunType
  <1>2. data[1] # t /\ data[2] # t /\ data[n2 + 1] # t
    BY HeadWords
  <1>3. \A i \in 3 .. n1 : data[i] # t
    BY UrlWord
  <1>4. \A i \in n2 + 2 .. L : data[i] # t
    OBVIOUS
  <1>5. Query(a) = <<>> => x = 0
    BY QueryIs
  <1>6. Query(a) # <<>> => x > 0 /\ data[n1 + 1] = t
    <2>1. ASSUME Query(a) # <<>> PROVE x > 0 /\ data[n1 + 1] = t
      <3>1. x = 1 + Len(Query(a)) /\ Extra(a)[1] = t /\ Query(a) \in Seq(ExtraWords)
        BY <2>1, QueryIs
      <3>2. x > 0
        <4>1. Len(Query(a)) \in Nat
          BY <3>1, LenProperties
        <4> HIDE DEF x
        <4> QED BY <3>1, <4>1
      <3>3. 1 \in 1 .. x
        <4>1. x \in Nat
          BY StopsType
        <4> HIDE DEF x
        <4> QED BY <3>2, <4>1
      <3>4. data[n1 + 1] = Extra(a)[1]
        BY <3>3, HeadWords
      <3> QED BY <3>1, <3>2, <3>4
    <2> QED BY <2>1
  <1> HIDE DEF n1, n2, x, L, t
  <1>7. ASSUME x = 0 PROVE ~Has(data, t) /\ n2 = n1
    <2>1. \A i \in 1 .. Len(data) : data[i] # t
      <3> TAKE i \in 1 .. Len(data)
      <3>1. i = 1 \/ i = 2 \/ i \in 3 .. n1 \/ i = n2 + 1 \/ i \in n2 + 2 .. L
        BY <1>1, <1>7 DEF L
      <3> QED BY <1>2, <1>3, <1>4, <3>1
    <2> QED BY <1>1, <1>7, <2>1, HasMeans
  <1>8. ASSUME x > 0, data[n1 + 1] = t PROVE Has(data, t) /\ find(data, <<t>>, 1) = n1 + 1
    <2> DEFINE m == n1 + 1
               k == 1
    <2>1. m \in k .. Len(data) /\ k \in Nat /\ k > 0
      BY <1>1 DEF L
    <2>2. \A j \in k .. m - 1 : data[j] # t
      <3> TAKE j \in k .. m - 1
      <3>1. j = 1 \/ j = 2 \/ j \in 3 .. n1
        BY <1>1
      <3> QED BY <1>2, <1>3, <3>1
    <2>3. data[m] = t
      BY <1>8
    <2>4. m # npos
      BY <1>1 DEF npos
    <2> HIDE DEF m, k
    <2>5. find(data, <<t>>, k) = m
      BY <1>1, <2>1, <2>2, <2>3, FindWord
    <2>6. find(data, <<t>>, 1) = m
      BY <2>5 DEF k
    <2>7. Has(data, t)
      BY <2>4, <2>6 DEF Has
    <2> QED BY <2>6, <2>7 DEF m
  <1> QED BY <1>5, <1>6, <1>7, <1>8, Zenon DEF n1, n2, t

\* So the path and the parameters are cut out as they were written.
LEMMA PathIsCut ==
    ASSUME NEW a \in Asks, NEW data, Begun(a, data)
    PROVE  substr(data, 3, (PathStop(a) + 1) - 3) = Path(a)
  <1> DEFINE n1 == PathStop(a)
             P == Path(a)
  <1>1. /\ data \in Seq(Words) /\ Len(data) \in Nat /\ n1 \in Nat /\ n1 >= 3
        /\ n1 + 6 <= Len(data) /\ n1 = 2 + Len(P)
    BY BegunType
  <1>2. P \in Seq(Words) /\ Part(data, 2, P)
    BY Stops, HeadWords DEF Part
  <1> HIDE DEF n1, P
  <1>3. substr(data, 3, (n1 + 1) - 3) = SubSeq(data, 3, (n1 + 1) - 1)
    <2> DEFINE b == 3
               c == n1 + 1
    <2>0. b = 3 /\ c - b = (n1 + 1) - 3 /\ c - 1 = (n1 + 1) - 1
      OBVIOUS
    <2>1. b \in Nat /\ b > 0 /\ c \in Nat /\ b <= c /\ c <= Len(data) + 1
      BY <1>1
    <2> HIDE DEF b, c
    <2>2. substr(data, b, c - b) = SubSeq(data, b, c - 1)
      BY <1>1, <2>1, SubstrIs
    <2> QED BY <2>0, <2>2, Zenon
  <1>4. SubSeq(data, 2 + 1, 2 + Len(P)) = P
    <2> DEFINE m == 2
    <2>1. m \in Nat /\ m + Len(P) <= Len(data) /\ Part(data, m, P)
      BY <1>1, <1>2
    <2> HIDE DEF m
    <2>2. SubSeq(data, m + 1, m + Len(P)) = P
      BY ONLY <1>1, <1>2, <2>1, Sliced
    <2> QED BY <2>2 DEF m
  <1>5. 2 + 1 = 3 /\ (n1 + 1) - 1 = 2 + Len(P)
    BY <1>1
  <1> QED BY <1>3, <1>4, <1>5 DEF n1, P

LEMMA QueryIsCut ==
    ASSUME NEW a \in Asks, NEW data, Begun(a, data), Query(a) # <<>>
    PROVE  substr(data, PathStop(a) + 1 + 1, (UrlStop(a) + 1) - (PathStop(a) + 1 + 1)) = Query(a)
  <1> DEFINE n1 == PathStop(a)
             n2 == UrlStop(a)
             Q == Query(a)
             X == Extra(a)
  <1>1. /\ data \in Seq(Words) /\ Len(data) \in Nat /\ n1 \in Nat /\ n2 \in Nat
        /\ n2 + 6 <= Len(data) /\ n2 = n1 + Len(X)
    BY BegunType
  <1>2. /\ Len(X) = 1 + Len(Q) /\ \A j \in 1 .. Len(Q) : X[1 + j] = Q[j]
        /\ Q \in Seq(ExtraWords)
    BY QueryIs
  <1>3. Q \in Seq(Words) /\ Len(Q) \in Nat
    <2>1. ExtraWords \subseteq Words
      BY DEF ExtraWords, Words, Marks, UrlWords
    <2> HIDE DEF Q
    <2>2. Q \in Seq(Words)
      BY <1>2, <2>1, SeqMonotonic
    <2> QED BY <2>2
  <1>4. \A j \in 1 .. Len(X) : data[n1 + j] = X[j]
    BY HeadWords
  <1> HIDE DEF n1, n2, Q, X
  <1> DEFINE m == n1 + 1
             l == Len(Q)
             c == n2 + 1
             b == m + 1
  <1>0. /\ b = PathStop(a) + 1 + 1 /\ c - b = (UrlStop(a) + 1) - (PathStop(a) + 1 + 1)
        /\ Q = Query(a)
    BY DEF n1, n2, Q
  <1>5. /\ m \in Nat /\ b \in Nat /\ b > 0 /\ c \in Nat /\ b <= c /\ c <= Len(data) + 1
        /\ m + l <= Len(data) /\ c - 1 = m + l
    BY <1>1, <1>2, <1>3
  <1>6. \A j \in 1 .. l : data[m + j] = Q[j]
    <2> TAKE j \in 1 .. l
    <2>1. 1 + j \in 1 .. Len(X) /\ n1 + (1 + j) = m + j
      BY <1>1, <1>2, <1>3
    <2> QED BY <1>2, <1>4, <2>1
  <1> HIDE DEF m, c, b
  <1>7. Part(data, m, Q)
    BY <1>6 DEF Part
  <1>8. substr(data, b, c - b) = SubSeq(data, b, c - 1)
    BY <1>1, <1>5, SubstrIs
  <1>9. SubSeq(data, m + 1, m + Len(Q)) = Q
    BY ONLY <1>1, <1>3, <1>5, <1>7, Sliced
  <1>10. substr(data, b, c - b) = Q
    BY <1>5, <1>8, <1>9 DEF b
  <1> QED BY <1>0, <1>10, Zenon

\* The name is what follows the last slash of a path; the folder comes before.
LEMMA NameIsCut ==
    ASSUME NEW a \in Asks
    PROVE  /\ find_last_of(Path(a), "/") = Len(Folder(a)) + 1
           /\ SubSeq(Path(a), Len(Folder(a)) + 1 + 1, Len(Path(a))) = a.name
  <1> DEFINE P == Path(a)
             f == Len(Folder(a))
             s == a.name
             W == PathWords
             t == "/"
  <1>1. /\ P \in Seq(W) /\ Len(P) = f + 1 + Len(s) /\ P[f + 1] = t
        /\ \A j \in 1 .. Len(s) : P[f + 1 + j] = s[j] /\ s[j] # t
    BY PathIs
  <1>2. s \in Seq(W) /\ Len(s) \in Nat /\ f \in Nat
    <2>1. Folder(a) \in Seq(W) /\ s \in Seq(UrlWords \ {"/", "?"})
      BY FolderIs, AskFields
    <2>2. UrlWords \ {"/", "?"} \subseteq W
      BY DEF PathWords
    <2>3. s \in Seq(W)
      BY <2>1, <2>2, SeqMonotonic
    <2> QED BY <2>1, <2>3, LenProperties
  <1> HIDE DEF P, f, s, W, t
  <1> DEFINE m == f + 1
  <1>3. /\ m \in Nat /\ m \in 1 .. Len(P) /\ m + Len(s) = Len(P) /\ P[m] = t
        /\ \A j \in 1 .. Len(s) : P[m + j] = s[j] /\ s[j] # t
    BY <1>1, <1>2
  <1> HIDE DEF m
  <1>4. \A j \in m + 1 .. Len(P) : P[j] # t
    <2> TAKE j \in m + 1 .. Len(P)
    <2>1. j - m \in 1 .. Len(s) /\ m + (j - m) = j
      BY <1>2, <1>3
    <2> QED BY <1>3, <2>1
  <1>5. find_last_of(P, t) = m
    BY <1>1, <1>3, <1>4, LastIs
  <1>6. SubSeq(P, m + 1, m + Len(s)) = s
    <2>1. Part(P, m, s) /\ m + Len(s) <= Len(P)
      <3>1. \A j \in 1 .. Len(s) : P[m + j] = s[j]
        BY <1>3
      <3>2. Len(P) \in Nat
        BY <1>1
      <3> QED BY <1>3, <3>1, <3>2 DEF Part
    <2> QED BY ONLY <1>1, <1>2, <1>3, <2>1, Sliced
  <1> QED BY <1>3, <1>5, <1>6 DEF m, P, f, s, t

LEMMA FolderIsCut ==
    ASSUME NEW a \in Asks, a.dirs # <<>>
    PROVE  /\ Len(Folder(a)) + 1 # 0
           /\ Path(a) = <<"/">> \o substr(Path(a), 2, Len(Folder(a)) + 1 - 2) \o <<"/">> \o a.name
  <1> DEFINE P == Path(a)
             f == Len(Folder(a))
             s == a.name
             W == PathWords
             t == "/"
             q == <<t>>
             g == SubSeq(P, 2, f)
  <1>1. /\ P \in Seq(W) /\ Len(P) = f + 1 + Len(s) /\ P[1] = t /\ P[f + 1] = t
        /\ \A j \in 1 .. Len(s) : P[f + 1 + j] = s[j]
    BY PathIs
  <1>2. s \in Seq(W) /\ Len(s) \in Nat /\ f \in Nat /\ f > 0 /\ t \in W
    <2>1. Folder(a) \in Seq(W) /\ s \in Seq(UrlWords \ {"/", "?"}) /\ f > 0
      BY FolderIs, AskFields
    <2>2. UrlWords \ {"/", "?"} \subseteq W /\ t \in W
      BY DEF PathWords
    <2>3. s \in Seq(W)
      BY <2>1, <2>2, SeqMonotonic
    <2> QED BY <2>1, <2>2, <2>3, LenProperties
  <1> HIDE DEF P, f, s, W, t
  <1>3. q \in Seq(W) /\ Len(q) = 1 /\ q[1] = t
    BY <1>2
  <1>4. Len(P) \in Nat /\ f + 1 <= Len(P)
    BY <1>1, <1>2
  <1>5. g \in Seq(W) /\ Len(g) = f - 1 /\ \A i \in 1 .. f - 1 : g[i] = P[1 + i]
    <2>1. CASE f = 1
      <3>1. g = <<>>
        BY <2>1
      <3> QED BY <2>1, <3>1
    <2>2. CASE f # 1
      <3> DEFINE b == 2
      <3>1. /\ b \in Int /\ f \in Int /\ b <= f /\ f - b + 1 = f - 1
            /\ \A j \in b .. f : P[j] \in W
        BY <1>1, <1>2, <1>4, <2>2
      <3>2. \A i \in 1 .. f - 1 : b + i - 1 = 1 + i
        OBVIOUS
      <3> HIDE DEF b
      <3>3. /\ SubSeq(P, b, f) \in Seq(W) /\ Len(SubSeq(P, b, f)) = f - b + 1
            /\ \A i \in 1 .. f - b + 1 : SubSeq(P, b, f)[i] = P[b + i - 1]
        BY <3>1, SubSeqProperties
      <3> QED BY <3>1, <3>2, <3>3 DEF b
    <2> QED BY <2>1, <2>2
  <1>6. substr(P, 2, f + 1 - 2) = g
    <2> DEFINE b == 2
               c == f + 1
    <2>1. b \in Nat /\ b > 0 /\ c \in Nat /\ b <= c /\ c <= Len(P) + 1 /\ c - 1 = f
      BY <1>2, <1>4
    <2> HIDE DEF b, c
    <2>2. substr(P, b, c - b) = SubSeq(P, b, c - 1)
      BY <1>1, <2>1, SubstrIs
    <2> QED BY <2>1, <2>2 DEF b, c
  <1> HIDE DEF q, g
  <1> DEFINE u1 == q \o g
             u2 == u1 \o q
             u3 == u2 \o s
  <1>7. u1 = q \o g /\ u2 = u1 \o q /\ u3 = u2 \o s
    OBVIOUS
  <1> HIDE DEF u1, u2, u3
  <1>8. /\ u1 \in Seq(W) /\ Len(u1) = f
        /\ Part(u1, 0, q) /\ Part(u1, 1, g)
    <2> DEFINE k == 1
    <2>1. q \in Seq(W) /\ g \in Seq(W) /\ Len(q) = k /\ u1 = q \o g
      BY <1>3, <1>5, <1>7
    <2> HIDE DEF k
    <2>2. u1 \in Seq(W) /\ Len(u1) = k + Len(g) /\ Part(u1, 0, q) /\ Part(u1, k, g)
      BY ONLY <2>1, PartAdded, ZenonT(60)
    <2> QED BY <1>2, <1>5, <2>2 DEF k
  <1>9. /\ u2 \in Seq(W) /\ Len(u2) = f + 1
        /\ Part(u2, 0, u1) /\ Part(u2, f, q)
    <2>1. u1 \in Seq(W) /\ q \in Seq(W) /\ Len(u1) = f /\ u2 = u1 \o q
      BY <1>3, <1>7, <1>8
    <2>2. u2 \in Seq(W) /\ Len(u2) = f + Len(q) /\ Part(u2, 0, u1) /\ Part(u2, f, q)
      BY ONLY <2>1, PartAdded, ZenonT(60)
    <2> QED BY <1>3, <2>2
  <1> DEFINE k == f + 1
  <1> HIDE DEF k
  <1>10. /\ u3 \in Seq(W) /\ Len(u3) = f + 1 + Len(s)
         /\ Part(u3, 0, u2) /\ Part(u3, f + 1, s)
    <2>1. u2 \in Seq(W) /\ s \in Seq(W) /\ Len(u2) = k /\ u3 = u2 \o s
      BY <1>2, <1>7, <1>9 DEF k
    <2>2. u3 \in Seq(W) /\ Len(u3) = k + Len(s) /\ Part(u3, 0, u2) /\ Part(u3, k, s)
      BY ONLY <2>1, PartAdded, ZenonT(60)
    <2> QED BY <2>2 DEF k
  <1>11. /\ u1[1] = t /\ \A j \in 1 .. f - 1 : u1[1 + j] = P[1 + j]
    <2>1. u1[0 + 1] = q[1]
      BY <1>3, <1>8 DEF Part
    <2>2. \A j \in 1 .. f - 1 : u1[1 + j] = g[j]
      BY <1>5, <1>8 DEF Part
    <2> QED BY <1>3, <1>5, <2>1, <2>2
  <1>12. \A i \in 1 .. f : u1[i] = P[i]
    <2> TAKE i \in 1 .. f
    <2>1. CASE i = 1
      BY <1>1, <1>11, <2>1
    <2>2. CASE i # 1
      <3>1. i - 1 \in 1 .. f - 1 /\ 1 + (i - 1) = i
        BY <1>2, <2>2
      <3> QED BY <1>11, <3>1
    <2> QED BY <2>1, <2>2
  <1>13. \A i \in 1 .. f + 1 : u2[i] = P[i]
    <2>1. \A i \in 1 .. f : u2[0 + i] = u1[i]
      BY <1>8, <1>9 DEF Part
    <2>2. u2[f + 1] = q[1]
      BY <1>3, <1>9 DEF Part
    <2> TAKE i \in 1 .. f + 1
    <2>3. CASE i = f + 1
      BY <1>1, <1>3, <2>2, <2>3
    <2>4. CASE i # f + 1
      <3>1. i \in 1 .. f /\ 0 + i = i
        BY <1>2, <2>4
      <3> QED BY <1>12, <2>1, <3>1
    <2> QED BY <2>3, <2>4
  <1>14. \A i \in 1 .. Len(P) : u3[i] = P[i]
    <2>1. \A i \in 1 .. f + 1 : u3[0 + i] = u2[i]
      BY <1>9, <1>10 DEF Part
    <2>2. \A j \in 1 .. Len(s) : u3[f + 1 + j] = s[j]
      BY <1>10 DEF Part
    <2> TAKE i \in 1 .. Len(P)
    <2>3. CASE i \in 1 .. f + 1
      <3>1. 0 + i = i
        OBVIOUS
      <3> QED BY <1>13, <2>1, <2>3, <3>1
    <2>4. CASE i \notin 1 .. f + 1
      <3>1. i - (f + 1) \in 1 .. Len(s) /\ f + 1 + (i - (f + 1)) = i
        BY <1>1, <1>2, <2>4
      <3> QED BY <1>1, <2>2, <3>1
    <2> QED BY <2>3, <2>4
  <1>15. P = u3
    <2>1. Len(u3) = Len(P)
      BY <1>1, <1>10
    <2> QED BY <1>1, <1>10, <1>14, <2>1, SeqEqual
  <1>16. f + 1 # 0
    BY <1>2
  <1> QED BY <1>6, <1>15, <1>16 DEF u3, u2, u1, g, q, P, f, s, t

\* The host is cut out of the first header that holds its word, whatever other
\* headers there are.
LEMMA HeaderIsCut ==
    ASSUME NEW a \in Asks, a.method = "GET", NEW data, Begun(a, data)
    PROVE  Header(data, "Host: ") = a.host
  <1>1. PICK n, d, w, o, k : HostAt(a, n, d, w, o, k)
    BY LinesAreRuled
  <1> DEFINE H == Lines(a)
             n2 == UrlStop(a)
             n3 == LineStop(a)
             L == Len(data)
             s == a.host
             t == "Host: "
             u == "crlf"
             v == o[k - 1]
             dk == d[k]
             l == Len(H)
  <1>2. /\ Ruled(n, d, w, o, H) /\ l = o[n] /\ k \in 1 .. n
        /\ w[k][1] = t /\ dk = 1 + Len(s)
        /\ \A j \in 1 .. Len(s) : w[k][1 + j] = s[j]
        /\ \A i \in 1 .. k - 1 : \A j \in 1 .. d[i] : w[i][j] # t
    BY <1>1 DEF HostAt
  <1>3. /\ v + 1 \in 1 .. l /\ H[v + 1] = t
        /\ \A i \in 1 .. v : H[i] # t
        /\ \A j \in 1 .. dk - 1 : H[v + 1 + j] = w[k][1 + j] /\ w[k][1 + j] # u
        /\ v + 1 + dk <= l /\ H[v + 1 + dk] = u
    <2>1. t # u
      OBVIOUS
    <2> HIDE DEF H, t
    <2> QED BY <1>2, <2>1, RuledHeader
  <1>4. /\ v \in Nat /\ dk \in Nat /\ dk > 0
    <2>1. Ruled(n, d, w, o, H)
      BY <1>2
    <2> HIDE DEF H
    <2> QED BY <1>2, <2>1, RuledBegin
  <1>5. /\ n2 \in Nat /\ n3 = n2 + 5 /\ n3 \in Nat /\ l \in Nat /\ n3 + l + 1 <= L
        /\ L \in Nat /\ data \in Seq(Words)
    <2>1. /\ n2 \in Nat /\ n3 = n2 + 5 /\ n3 \in Nat /\ l \in Nat /\ HeadersStop(a) = n3 + l
      BY StopsType
    <2>2. data \in Seq(Words) /\ L \in Nat
      BY BegunType
    <2>3. HeadersStop(a) + 1 <= L
      BY DEF Begun
    <2> QED BY <2>1, <2>2, <2>3
  <1>6. s \in Seq(Words) /\ Len(s) \in Nat
    <2>1. s \in Seq(STRING) /\ STRING \subseteq Words
      BY AskFields DEF Words
    <2> QED BY <2>1, SeqMonotonic, LenProperties
  <1>7. /\ data[1] # t /\ data[2] # t
        /\ data[n2 + 1] # t /\ data[n2 + 2] # t /\ data[n2 + 3] # t
        /\ data[n2 + 4] # t /\ data[n2 + 5] # t
    <2>1. /\ data[1] = "GET" /\ data[2] = " "
          /\ data[n2 + 1] = " " /\ data[n2 + 2] = "HTTP" /\ data[n2 + 3] = "/"
          /\ data[n2 + 4] = "1.1" /\ data[n2 + 5] = "crlf"
      BY HeadWords
    <2> HIDE DEF n2
    <2> QED BY <2>1
  <1>8. \A i \in 3 .. n2 : data[i] # t
    BY UrlWord
  <1>9. \A j \in 1 .. l : data[n3 + j] = H[j]
    BY HeadWords
  <1> HIDE DEF H, n2, n3, L, s, t, u, v, dk, l
  <1> DEFINE h == n3 + (v + 1)
             e == h + dk
             b == h + 1
             one == 1
  <1>10. /\ h \in one .. L /\ h \in Nat /\ e \in b .. L /\ b \in Nat /\ b > 0 /\ e \in Nat
         /\ one \in Nat /\ one > 0 /\ b <= e /\ e <= L + 1 /\ b # 1 /\ e # 0
         /\ e - 1 = h + Len(s) /\ h + Len(s) <= L
    BY <1>2, <1>3, <1>4, <1>5, <1>6, SMTT(30)
  <1>11. data[h] = t
    BY <1>3, <1>9
  <1>12. data[e] = u
    <2>1. v + 1 + dk \in 1 .. l /\ n3 + (v + 1 + dk) = e
      BY <1>3, <1>4, <1>5
    <2> QED BY <1>3, <1>9, <2>1
  <1>13. \A i \in one .. h - 1 : data[i] # t
    <2> SUFFICES ASSUME NEW i \in one .. h - 1 PROVE data[i] # t
      OBVIOUS
    <2>1. \/ i = 1 \/ i = 2 \/ i \in 3 .. n2
          \/ i = n2 + 1 \/ i = n2 + 2 \/ i = n2 + 3 \/ i = n2 + 4 \/ i = n2 + 5
          \/ i \in n3 + 1 .. n3 + v
      BY <1>4, <1>5
    <2>2. CASE i \in n3 + 1 .. n3 + v
      <3>1. i - n3 \in 1 .. v /\ i - n3 \in 1 .. l /\ n3 + (i - n3) = i
        BY <1>3, <1>4, <1>5, <2>2
      <3> QED BY <1>3, <1>9, <3>1
    <2> QED BY <1>7, <1>8, <2>1, <2>2
  <1>14. \A j \in 1 .. dk - 1 : data[h + j] = w[k][1 + j] /\ w[k][1 + j] # u
    <2> TAKE j \in 1 .. dk - 1
    <2>1. v + 1 + j \in 1 .. l /\ n3 + (v + 1 + j) = h + j
      BY <1>3, <1>4, <1>5
    <2> QED BY <1>3, <1>9, <2>1
  <1>15. \A i \in b .. e - 1 : data[i] # u
    <2> TAKE i \in b .. e - 1
    <2>1. i - h \in 1 .. dk - 1 /\ h + (i - h) = i
      BY <1>4, <1>5, <1>10
    <2> QED BY <1>14, <2>1
  <1>16. Part(data, h, s)
    <2>1. \A j \in 1 .. Len(s) : j \in 1 .. dk - 1
      BY <1>2, <1>6
    <2>2. \A j \in 1 .. Len(s) : data[h + j] = s[j]
      BY <1>2, <1>14, <2>1
    <2> QED BY <2>2 DEF Part
  <1>17. e - b = (h + dk) - (h + 1)
    OBVIOUS
  <1> HIDE DEF h, e, b, one
  <1>18. find(data, <<t>>, one) = h
    BY <1>5, <1>10, <1>11, <1>13, FindWord DEF L
  <1>19. find(data, <<u>>, b) = e
    BY <1>5, <1>10, <1>12, <1>15, FindWord DEF L
  <1>20. substr(data, b, e - b) = s
    <2>1. substr(data, b, e - b) = SubSeq(data, b, e - 1)
      BY <1>5, <1>10, SubstrIs DEF L
    <2>2. SubSeq(data, h + 1, h + Len(s)) = s
      BY <1>5, <1>6, <1>10, <1>16, Sliced DEF L
    <2>3. b = h + 1
      BY DEF b
    <2> QED BY <1>10, <2>1, <2>2, <2>3
  <1>21. find(data, <<t>>, 1) + 1 = b
    <2>1. one = 1 /\ b = h + 1
      BY DEF one, b
    <2> QED BY <1>18, <2>1
  <1>22. Header(data, t) = substr(data, b, e - b)
    <2>1. b # 1 /\ e # npos
      BY <1>10 DEF npos
    <2> QED BY <1>19, <1>21, <2>1, Zenon DEF Header, u
  <1> QED BY <1>20, <1>22 DEF t, s

LEMMA GreatestNumber ==
    ASSUME NEW I, NEW L, L \in Nat, I \in SUBSET (1 .. L), I # {}
    PROVE  \E m \in I : \A y \in I : y <= m
  <1> DEFINE T == {L - i : i \in I}
  <1>1. T \in SUBSET Nat /\ T # {}
    <2>1. \A i \in I : L - i \in Nat
      <3> TAKE i \in I
      <3>1. i \in 1 .. L
        OBVIOUS
      <3> QED BY <3>1
    <2> QED BY <2>1
  <1>2. PICK x \in T : \A y \in T : x <= y
    BY <1>1, LeastNumber
  <1>3. PICK m \in I : x = L - m
    OBVIOUS
  <1>4. \A y \in I : y <= m
    <2> TAKE y \in I
    <2>1. L - m <= L - y
      BY <1>2, <1>3
    <2> QED BY <2>1
  <1> QED BY <1>4

LEMMA LastType ==
    ASSUME NEW W, NEW data, NEW t, data \in Seq(W)
    PROVE  find_last_of(data, t) \in 0 .. Len(data)
  <1> DEFINE I == {i \in 1 .. Len(data) : data[i] = t}
             L == Len(data)
  <1>1. L \in Nat
    OBVIOUS
  <1>2. CASE I = {}
    BY <1>1, <1>2 DEF find_last_of, SelectLastInSeq
  <1>3. CASE I # {}
    <2>1. I \in SUBSET (1 .. L) /\ I \in SUBSET Int
      OBVIOUS
    <2> HIDE DEF I, L
    <2>2. PICK m \in I : \A y \in I : y <= m
      BY <1>1, <1>3, <2>1, GreatestNumber
    <2>3. Max(I) = m
      BY <2>1, <2>2, MaxIs
    <2> QED BY <1>1, <1>3, <2>1, <2>3 DEF find_last_of, SelectLastInSeq, I, L
  <1> QED BY <1>2, <1>3

\* What a name ends with is of the name.
LEMMA TailRange ==
    ASSUME NEW W, NEW s, NEW m, NEW t, s \in Seq(W), m \in 0 .. Len(s),
           \A j \in 1 .. Len(s) : s[j] # t
    PROVE  t \notin Range(SubSeq(s, m + 1, Len(s)))
  <1> DEFINE L == Len(s)
             b == m + 1
             q == SubSeq(s, b, L)
  <1>1. L \in Nat /\ m \in Nat /\ m <= L
    OBVIOUS
  <1>2. CASE m = L
    <2>1. q = <<>>
      BY <1>1, <1>2
    <2> QED BY <2>1 DEF Range
  <1>3. CASE m # L
    <2>1. /\ b \in Int /\ L \in Int /\ b <= L /\ \A j \in b .. L : j \in 1 .. L
      BY <1>1, <1>3
    <2>2. \A j \in b .. L : s[j] \in W
      BY <2>1
    <2>3. \A i \in 1 .. L - b + 1 : b + i - 1 \in 1 .. L
      BY <1>1
    <2> HIDE DEF b, L
    <2>4. /\ q \in Seq(W) /\ Len(q) = L - b + 1
          /\ \A i \in 1 .. L - b + 1 : q[i] = s[b + i - 1]
      BY <2>1, <2>2, SubSeqProperties
    <2>5. \A i \in 1 .. Len(q) : q[i] # t
      BY <2>3, <2>4 DEF L
    <2>6. DOMAIN q = 1 .. Len(q)
      BY <2>4
    <2> HIDE DEF q
    <2>7. t \notin Range(q)
      BY <2>5, <2>6 DEF Range
    <2> QED BY <2>7 DEF q, b, L
  <1> QED BY <1>2, <1>3

\* What parseGetRequest makes of a plain request: all but the parameters.
LEMMA ParsedIs ==
    ASSUME NEW a \in Asks, a.method = "GET", a.dirs # <<>>, NEW data, Begun(a, data),
           \A i \in UrlStop(a) + 2 .. Len(data) : data[i] # "?"
    PROVE  /\ Parsed(data).vhost = a.host /\ Parsed(data).name = a.name
           /\ Path(a) = <<"/">> \o Parsed(data).path \o <<"/">> \o Parsed(data).name
           /\ "/" \notin Range(Parsed(data).name) /\ "/" \notin Range(Parsed(data).ext)
           /\ Parsed(data).route = Route(Query(a))
  <1> DEFINE start == find(data, <<"/">>, 1)
             path == substr(data, start, PathEnd(data) - start)
             after == find(data, <<"?">>, 1) + 1
             params == IF Has(data, "?")
                       THEN substr(data, after, find(data, <<" ", "HTTP">>, 1) - after)
                       ELSE <<>>
             slash == find_last_of(path, "/")
             name == SubSeq(path, slash + 1, Len(path))
             dot == find_last_of(name, ".")
  <1>1. /\ Parsed(data).vhost = Header(data, "Host: ")
        /\ Parsed(data).path = IF slash = 0 THEN <<>> ELSE substr(path, 2, slash - 2)
        /\ Parsed(data).name = name
        /\ Parsed(data).ext = SubSeq(name, dot + 1, Len(name))
        /\ Parsed(data).route = Route(params)
    BY DEF Parsed
  <1>2. /\ Query(a) = <<>> => ~Has(data, "?") /\ UrlStop(a) = PathStop(a)
        /\ Query(a) # <<>> => Has(data, "?") /\ find(data, <<"?">>, 1) = PathStop(a) + 1
    BY QuestionMark
  <1>3. start = 3 /\ find(data, <<" ", "HTTP">>, 1) = UrlStop(a) + 1
    BY RequestLine
  <1>4. PathEnd(data) = PathStop(a) + 1
    <2>1. CASE Query(a) = <<>>
      <3>1. ~Has(data, "?") /\ UrlStop(a) + 1 = PathStop(a) + 1
        BY <1>2, <2>1
      <3> QED BY <1>3, <3>1, Zenon DEF PathEnd
    <2>2. CASE Query(a) # <<>>
      BY <1>2, <2>2, Zenon DEF PathEnd
    <2> QED BY <2>1, <2>2
  <1>5. path = Path(a)
    <2>1. path = substr(data, 3, (PathStop(a) + 1) - 3)
      BY <1>3, <1>4, Zenon
    <2> QED BY <2>1, PathIsCut, Zenon
  <1>6. params = Query(a)
    <2>1. CASE Query(a) = <<>>
      BY <1>2, <2>1, Zenon
    <2>2. CASE Query(a) # <<>>
      <3>1. after = PathStop(a) + 1 + 1 /\ Has(data, "?")
        BY <1>2, <2>2, Zenon
      <3>2. params = substr(data, PathStop(a) + 1 + 1,
                            (UrlStop(a) + 1) - (PathStop(a) + 1 + 1))
        BY <1>3, <3>1, Zenon
      <3> QED BY <2>2, <3>2, QueryIsCut, Zenon
    <2> QED BY <2>1, <2>2
  <1> HIDE DEF start, path, after, params
  <1>7. slash = Len(Folder(a)) + 1 /\ name = a.name
    <2>1. slash = Len(Folder(a)) + 1
      BY <1>5, NameIsCut
    <2> HIDE DEF slash
    <2>2. name = SubSeq(Path(a), Len(Folder(a)) + 1 + 1, Len(Path(a)))
      BY <1>5, <2>1, Zenon
    <2> QED BY <2>1, <2>2, NameIsCut, Zenon
  <1> HIDE DEF slash, name
  <1>8. Path(a) = <<"/">> \o Parsed(data).path \o <<"/">> \o Parsed(data).name
    <2>1. /\ Len(Folder(a)) + 1 # 0
          /\ Path(a) = <<"/">> \o substr(Path(a), 2, Len(Folder(a)) + 1 - 2) \o <<"/">> \o a.name
      BY FolderIsCut
    <2>2. slash # 0 /\ slash - 2 = Len(Folder(a)) + 1 - 2
      <3>1. Folder(a) \in Seq(PathWords)
        BY FolderIs
      <3>2. Len(Folder(a)) \in Nat
        BY <3>1, LenProperties
      <3> QED BY <1>7, <3>2
    <2>3. Parsed(data).path = substr(Path(a), 2, Len(Folder(a)) + 1 - 2)
      BY <1>1, <1>5, <2>2, Zenon
    <2>4. Parsed(data).name = a.name
      BY <1>1, <1>7, Zenon
    <2> QED BY <2>1, <2>3, <2>4, Zenon
  <1>9. /\ name \in Seq(PathWords) /\ Len(name) \in Nat
        /\ \A j \in 1 .. Len(name) : name[j] # "/"
    <2>1. a.name \in Seq(UrlWords \ {"/", "?"}) /\ UrlWords \ {"/", "?"} \subseteq PathWords
      BY AskFields DEF PathWords
    <2>2. \A j \in 1 .. Len(a.name) : a.name[j] # "/"
      BY PathIs
    <2>3. a.name \in Seq(PathWords)
      BY <2>1, SeqMonotonic
    <2> QED BY <1>7, <2>2, <2>3, LenProperties
  <1>10. "/" \notin Range(name)
    <2>1. DOMAIN name = 1 .. Len(name)
      BY <1>9
    <2> QED BY <1>9, <2>1, Zenon DEF Range
  <1>11. "/" \notin Range(SubSeq(name, dot + 1, Len(name)))
    <2> DEFINE t == "/"
    <2>1. dot \in 0 .. Len(name)
      BY <1>9, LastType
    <2>2. \A j \in 1 .. Len(name) : name[j] # t
      BY <1>9
    <2> HIDE DEF dot, t
    <2>3. t \notin Range(SubSeq(name, dot + 1, Len(name)))
      BY <1>9, <2>1, <2>2, TailRange
    <2> QED BY <2>3 DEF t
  <1>12. Parsed(data).vhost = a.host
    BY <1>1, HeaderIsCut
  <1> QED BY <1>1, <1>6, <1>7, <1>8, <1>10, <1>11, <1>12, Zenon

-----------------------------------------------------------------------------
(* The parameters.                                                           *)

\* A text q made of the n parts ps with an ampersand between any two: part k
\* begins behind place o[k - 1].
Listed(n, o, q, ps) ==
    /\ n \in Nat /\ n > 0 /\ o \in [0 .. n -> Nat] /\ o[0] = 0 /\ o[n] = Len(q) + 1
    /\ \A k \in 1 .. n : o[k] = o[k - 1] + 1 + Len(ps[k])
    /\ \A k, l \in 0 .. n : k <= l => o[k] <= o[l]
    /\ \A k \in 1 .. n : \A j \in 1 .. Len(ps[k]) : q[o[k - 1] + j] = ps[k][j] /\ ps[k][j] # "&"
    /\ \A k \in 1 .. n - 1 : q[o[k]] = "&"
    /\ \A i \in 1 .. Len(q) : \E k \in 1 .. n : o[k - 1] < i /\ i <= o[k]

\* What the client makes its query of.
Tails(a) == [i \in DOMAIN a.params |-> <<"&">> \o a.params[i]]

LEMMA TailsRun ==
    ASSUME NEW a \in Asks, NEW t, t = "&"
    PROVE  /\ Len(a.params) \in Nat /\ DOMAIN a.params = 1 .. Len(a.params)
           /\ t \in ExtraWords /\ Len(Tails(a)) = Len(a.params)
           /\ Query(a) = SubSeq(FlattenSeq(Tails(a)), 2, Len(FlattenSeq(Tails(a))))
           /\ \A k \in 1 .. Len(a.params) :
                 /\ a.params[k] \in Seq(ExtraWords) /\ Len(a.params[k]) \in Nat
                 /\ \A j \in 1 .. Len(a.params[k]) : a.params[k][j] # t
                 /\ Len(Tails(a)[k]) = 1 + Len(a.params[k]) /\ Tails(a)[k][1] = t
                 /\ \A j \in 1 .. Len(a.params[k]) : Tails(a)[k][1 + j] = a.params[k][j]
           /\ \E o : Runs(ExtraWords, o, Tails(a), FlattenSeq(Tails(a)), Len(a.params))
  <1> DEFINE n == Len(a.params)
             ps == a.params
             part(k) == <<"&">> \o ps[k]
             s == Tails(a)
             f == FlattenSeq(s)
             q == Query(a)
             W == ExtraWords
  <1>1. n \in Nat /\ DOMAIN ps = 1 .. n /\ ps \in Seq(Seq(UrlWords \ {t}))
    BY AskFields
  <1>2. t \in W /\ UrlWords \ {t} \subseteq W
    BY DEF ExtraWords
  <1>3. q = SubSeq(f, 2, Len(f))
    BY <1>1 DEF Query, Tails
  <1>4. \A k \in 1 .. n : /\ ps[k] \in Seq(W) /\ Len(ps[k]) \in Nat
                          /\ \A j \in 1 .. Len(ps[k]) : ps[k][j] # t
    <2> TAKE k \in 1 .. n
    <2> DEFINE p == ps[k]
    <2>1. p \in Seq(UrlWords \ {t})
      BY <1>1
    <2> HIDE DEF p
    <2>2. p \in Seq(W)
      BY <1>2, <2>1, SeqMonotonic
    <2>3. \A j \in 1 .. Len(p) : p[j] \in UrlWords \ {t}
      BY <2>1, WordsAre
    <2>4. \A j \in 1 .. Len(p) : p[j] # t
      BY <2>3
    <2> QED BY <2>2, <2>4, LenProperties DEF p
  <1> HIDE DEF n, ps, q, W
  <1>5. \A k \in 1 .. n : /\ part(k) \in Seq(W) /\ Len(part(k)) = 1 + Len(ps[k])
                          /\ part(k)[1] = t
                          /\ \A j \in 1 .. Len(ps[k]) : part(k)[1 + j] = ps[k][j]
    <2> TAKE k \in 1 .. n
    <2> DEFINE p == ps[k]
    <2>1. p \in Seq(W) /\ part(k) = <<t>> \o p
      BY <1>4
    <2> HIDE DEF p
    <2>2. /\ <<t>> \o p \in Seq(W) /\ Len(<<t>> \o p) = 1 + Len(p)
          /\ (<<t>> \o p)[1] = t
          /\ \A j \in 1 .. Len(p) : (<<t>> \o p)[1 + j] = p[j]
      BY ONLY <1>2, <2>1, Prefixed
    <2> QED BY <2>1, <2>2, Zenon DEF p
  <1> HIDE DEF part
  <1>10. DOMAIN ps = 1 .. n
    BY <1>1
  <1>11. s = [k \in DOMAIN ps |-> part(k)]
    BY DEF Tails, ps, part
  <1>6. s \in Seq(Seq(W)) /\ Len(s) = n /\ \A k \in 1 .. n : s[k] = part(k)
    BY <1>1, <1>5, <1>10, <1>11
  <1> HIDE DEF s
  <1>7. \E o : Runs(W, o, s, f, n)
    BY <1>6, FlattenRuns
  <1>8. \A k \in 1 .. n : /\ Len(s[k]) = 1 + Len(ps[k]) /\ s[k][1] = t
                          /\ \A j \in 1 .. Len(ps[k]) : s[k][1 + j] = ps[k][j]
    BY <1>5, <1>6
  <1> QED BY <1>1, <1>2, <1>3, <1>4, <1>6, <1>7, <1>8 DEF n, ps, s, q, W

LEMMA QueryIsListed ==
    ASSUME NEW a \in Asks, Query(a) # <<>>
    PROVE  \E o : Listed(Len(a.params), o, Query(a), a.params)
  <1> DEFINE n == Len(a.params)
             ps == a.params
             s == Tails(a)
             f == FlattenSeq(s)
             q == Query(a)
             W == ExtraWords
             t == "&"
  <1>0. t = "&"
    OBVIOUS
  <1> HIDE DEF t
  <1>1. n \in Nat
    BY <1>0, TailsRun
  <1>3. q = SubSeq(f, 2, Len(f))
    BY <1>0, TailsRun
  <1>4. \A k \in 1 .. n : /\ ps[k] \in Seq(W) /\ Len(ps[k]) \in Nat
                          /\ \A j \in 1 .. Len(ps[k]) : ps[k][j] # t
    BY <1>0, TailsRun
  <1>5. \A k \in 1 .. n : /\ Len(s[k]) = 1 + Len(ps[k]) /\ s[k][1] = t
                          /\ \A j \in 1 .. Len(ps[k]) : s[k][1 + j] = ps[k][j]
    <2> TAKE k \in 1 .. n
    <2>1. Len(s[k]) = 1 + Len(ps[k])
      BY <1>0, TailsRun
    <2>3. s[k][1] = t
      BY <1>0, TailsRun, ZenonT(60)
    <2>2. \A j \in 1 .. Len(ps[k]) : s[k][1 + j] = ps[k][j]
      BY <1>0, TailsRun, ZenonT(60)
    <2> QED BY <2>1, <2>2, <2>3
  <1>7. PICK o : Runs(W, o, s, f, n)
    BY <1>0, TailsRun
  <1> HIDE DEF n, ps, q, W, s, f
  <1>8. /\ o \in [0 .. n -> Nat] /\ o[0] = 0 /\ f \in Seq(W) /\ Len(f) = o[n]
        /\ \A k, l \in 0 .. n : k <= l => o[k] <= o[l]
        /\ \A i \in 1 .. Len(f) : \E k \in 1 .. n : o[k - 1] < i /\ i <= o[k]
        /\ \A k \in 1 .. n : o[k] = o[k - 1] + Len(s[k])
        /\ \A k \in 1 .. n : \A j \in 1 .. Len(s[k]) : f[o[k - 1] + j] = s[k][j]
    BY <1>7 DEF Runs
  <1>9. Len(f) \in Nat /\ Len(f) > 1
    <2>1. Len(f) \in Nat
      BY <1>8
    <2>2. Len(f) <= 1 => q = <<>>
      BY <1>3, <1>8, <2>1
    <2>3. q # <<>>
      BY DEF q
    <2> QED BY <2>1, <2>2, <2>3
  <1>10. Len(q) = Len(f) - 1 /\ \A i \in 1 .. Len(f) - 1 : q[i] = f[i + 1]
    <2> DEFINE b == 2
               c == Len(f)
    <2>1. /\ b \in Int /\ c \in Int /\ b <= c /\ c - b + 1 = Len(f) - 1
          /\ \A j \in b .. c : f[j] \in W
      BY <1>8, <1>9
    <2>2. \A i \in 1 .. Len(f) - 1 : b + i - 1 = i + 1
      BY <1>9
    <2>3. q = SubSeq(f, b, c)
      BY <1>3
    <2> HIDE DEF b, c
    <2>4. /\ SubSeq(f, b, c) \in Seq(W) /\ Len(SubSeq(f, b, c)) = c - b + 1
          /\ \A i \in 1 .. c - b + 1 : SubSeq(f, b, c)[i] = f[b + i - 1]
      BY <2>1, SubSeqProperties
    <2> QED BY <2>1, <2>2, <2>3, <2>4
  <1>11. n > 0
    <2>1. n # 0
      BY <1>8, <1>9
    <2> QED BY <1>1, <2>1
  <1>12. \A k \in 1 .. n : /\ o[k - 1] \in Nat /\ o[k] \in Nat /\ o[k] <= Len(f)
                           /\ o[k] = o[k - 1] + 1 + Len(ps[k])
                           /\ f[o[k - 1] + 1] = t
                           /\ \A j \in 1 .. Len(ps[k]) : f[o[k - 1] + (1 + j)] = ps[k][j]
    <2> TAKE k \in 1 .. n
    <2>1. k \in 0 .. n /\ k - 1 \in 0 .. n /\ n \in 0 .. n /\ k <= n
      BY <1>1
    <2>2. o[k - 1] \in Nat /\ o[k] \in Nat /\ o[k] <= Len(f)
      BY <1>8, <2>1
    <2>3. Len(s[k]) = 1 + Len(ps[k]) /\ Len(ps[k]) \in Nat
      BY <1>4, <1>5
    <2>4. o[k] = o[k - 1] + Len(s[k])
      BY <1>8
    <2>5. o[k] = o[k - 1] + 1 + Len(ps[k])
      BY <2>2, <2>3, <2>4
    <2>6. 1 \in 1 .. Len(s[k]) /\ \A j \in 1 .. Len(ps[k]) : 1 + j \in 1 .. Len(s[k])
      BY <2>3
    <2>7. \A j \in 1 .. Len(s[k]) : f[o[k - 1] + j] = s[k][j]
      BY <1>8
    <2>8. f[o[k - 1] + 1] = t /\ \A j \in 1 .. Len(ps[k]) : f[o[k - 1] + (1 + j)] = ps[k][j]
      BY <1>5, <2>6, <2>7
    <2> QED BY <2>2, <2>5, <2>8
  <1>13. \A k \in 1 .. n : \A j \in 1 .. Len(ps[k]) : q[o[k - 1] + j] = ps[k][j] /\ ps[k][j] # t
    <2> SUFFICES ASSUME NEW k \in 1 .. n, NEW j \in 1 .. Len(ps[k])
                 PROVE  q[o[k - 1] + j] = ps[k][j] /\ ps[k][j] # t
      OBVIOUS
    <2>1. Len(ps[k]) \in Nat /\ ps[k][j] # t
      BY <1>4
    <2>2. o[k - 1] + j \in 1 .. Len(f) - 1 /\ o[k - 1] + j + 1 = o[k - 1] + (1 + j)
      <3> DEFINE x == o[k - 1]
                 y == o[k]
                 l == Len(ps[k])
                 L == Len(f)
      <3>1. x \in Nat /\ l \in Nat /\ L \in Nat /\ y <= L /\ y = x + 1 + l /\ j \in 1 .. l
        BY <1>9, <1>12, <2>1
      <3> HIDE DEF x, y, l, L
      <3>2. x + j \in 1 .. L - 1 /\ x + j + 1 = x + (1 + j)
        BY <3>1
      <3> QED BY <3>2 DEF x, L
    <2>3. q[o[k - 1] + j] = f[o[k - 1] + (1 + j)]
      BY <1>10, <2>2
    <2> QED BY <1>12, <2>1, <2>3
  <1>14. \A k \in 1 .. n - 1 : q[o[k]] = t
    <2> TAKE k \in 1 .. n - 1
    <2>1. k \in 1 .. n /\ k + 1 \in 1 .. n /\ (k + 1) - 1 = k
      BY <1>1
    <2>2. /\ f[o[(k + 1) - 1] + 1] = t
          /\ o[k + 1] = o[(k + 1) - 1] + 1 + Len(ps[k + 1])
          /\ o[k + 1] <= Len(f) /\ Len(ps[k + 1]) \in Nat
      BY <1>4, <1>12, <2>1
    <2>3. o[k] \in Nat /\ o[k - 1] \in Nat /\ Len(ps[k]) \in Nat
          /\ o[k] = o[k - 1] + 1 + Len(ps[k])
      BY <1>4, <1>12, <2>1
    <2>4. o[k] \in 1 .. Len(f) - 1
      <3> DEFINE x == o[k]
                 y == o[k + 1]
                 z == o[k - 1]
                 l == Len(ps[k])
                 m == Len(ps[k + 1])
                 L == Len(f)
      <3>1. /\ x \in Nat /\ z \in Nat /\ l \in Nat /\ m \in Nat /\ L \in Nat
            /\ x = z + 1 + l /\ y = x + 1 + m /\ y <= L
        BY <1>9, <2>1, <2>2, <2>3
      <3> HIDE DEF x, y, z, l, m, L
      <3>2. x \in 1 .. L - 1
        BY <3>1
      <3> QED BY <3>2 DEF x, L
    <2> QED BY <1>10, <2>1, <2>2, <2>4
  <1>15. \A i \in 1 .. Len(q) : \E k \in 1 .. n : o[k - 1] < i /\ i <= o[k]
    <2> TAKE i \in 1 .. Len(q)
    <2>1. i \in 1 .. Len(f)
      BY <1>9, <1>10
    <2> QED BY <1>8, <2>1
  <1>16. o[n] = Len(q) + 1
    BY <1>8, <1>9, <1>10
  <1>17. Listed(n, o, q, ps)
    BY <1>1, <1>8, <1>11, <1>12, <1>13, <1>14, <1>15, <1>16 DEF Listed, t
  <1> QED BY <1>17 DEF n, q, ps

LEMMA ListedPlaces ==
    ASSUME NEW W, NEW n, NEW o, NEW q, NEW ps,
           Listed(n, o, q, ps), q \in Seq(W), ps \in Seq(Seq(W)), Len(ps) = n
    PROVE  /\ n \in Nat /\ n > 0 /\ o[0] = 0 /\ o[n] = Len(q) + 1 /\ Len(q) \in Nat
           /\ \A k \in 0 .. n : o[k] \in 0 .. Len(q) + 1
           /\ \A k \in 1 .. n : /\ k - 1 \in 0 .. n /\ k \in 0 .. n
                                /\ ps[k] \in Seq(W) /\ Len(ps[k]) \in Nat
                                /\ o[k] = o[k - 1] + 1 + Len(ps[k])
           /\ \A k, l \in 0 .. n : k < l => o[k] < o[l]
           /\ \A k, l \in 0 .. n : o[k] = o[l] => k = l
  <1>1. /\ n \in Nat /\ n > 0 /\ o \in [0 .. n -> Nat] /\ o[0] = 0 /\ o[n] = Len(q) + 1
        /\ \A k \in 1 .. n : o[k] = o[k - 1] + 1 + Len(ps[k])
        /\ \A k, l \in 0 .. n : k <= l => o[k] <= o[l]
    BY DEF Listed
  <1>2. Len(q) \in Nat
    BY LenProperties
  <1>3. \A k \in 1 .. n : /\ k - 1 \in 0 .. n /\ k \in 0 .. n
                          /\ ps[k] \in Seq(W) /\ Len(ps[k]) \in Nat
    BY <1>1
  <1>4. \A k \in 0 .. n : o[k] \in 0 .. Len(q) + 1
    <2> TAKE k \in 0 .. n
    <2>1. n \in 0 .. n /\ k <= n
      BY <1>1
    <2>2. o[k] \in Nat /\ o[k] <= o[n]
      BY <1>1, <2>1
    <2> QED BY <1>1, <1>2, <2>2
  <1>5. \A k, l \in 0 .. n : k < l => o[k] < o[l]
    <2> SUFFICES ASSUME NEW k \in 0 .. n, NEW l \in 0 .. n, k < l
                 PROVE  o[k] < o[l]
      OBVIOUS
    <2>1. k + 1 \in 1 .. n /\ (k + 1) - 1 = k /\ k + 1 \in 0 .. n /\ k + 1 <= l
      BY <1>1
    <2>2. o[k + 1] = o[(k + 1) - 1] + 1 + Len(ps[k + 1]) /\ Len(ps[k + 1]) \in Nat
      BY <1>1, <1>3, <2>1
    <2>3. o[k] \in Nat /\ o[k + 1] \in Nat /\ o[l] \in Nat /\ o[k + 1] <= o[l]
      BY <1>1, <2>1
    <2>4. o[k + 1] = o[k] + 1 + Len(ps[k + 1])
      BY <2>1, <2>2
    <2> QED BY <2>2, <2>3, <2>4
  <1>6. \A k, l \in 0 .. n : o[k] = o[l] => k = l
    <2> SUFFICES ASSUME NEW k \in 0 .. n, NEW l \in 0 .. n, o[k] = o[l]
                 PROVE  k = l
      OBVIOUS
    <2>1. o[k] \in Int /\ o[l] \in Int
      BY <1>4
    <2>2. ~(k < l) /\ ~(l < k)
      BY <1>5, <2>1
    <2> QED BY <2>2
  <1> QED BY <1>1, <1>2, <1>3, <1>4, <1>5, <1>6

\* Where split_string cuts.
Cuts(q, t) == {0, Len(q) + 1} \cup {i \in DOMAIN q : q[i] = t}
Ends(n, o) == {o[k] : k \in 0 .. n}

LEMMA ListedCuts ==
    ASSUME NEW W, NEW n, NEW o, NEW q, NEW ps, NEW t, t = "&",
           Listed(n, o, q, ps), q \in Seq(W), ps \in Seq(Seq(W)), Len(ps) = n
    PROVE  Cuts(q, t) = Ends(n, o)
  <1> DEFINE L == Len(q)
             C == {0, L + 1} \cup {i \in DOMAIN q : q[i] = t}
             D == {o[k] : k \in 0 .. n}
  <1>1. /\ n \in Nat /\ n > 0 /\ o[0] = 0 /\ o[n] = L + 1 /\ L \in Nat
        /\ \A k \in 0 .. n : o[k] \in 0 .. L + 1
        /\ \A k \in 1 .. n : /\ k - 1 \in 0 .. n /\ k \in 0 .. n
                             /\ Len(ps[k]) \in Nat
                             /\ o[k] = o[k - 1] + 1 + Len(ps[k])
        /\ \A k, l \in 0 .. n : k < l => o[k] < o[l]
    BY ListedPlaces
  <1>2. DOMAIN q = 1 .. L
    OBVIOUS
  <1>8. \A k \in 1 .. n : \A j \in 1 .. Len(ps[k]) :
            q[o[k - 1] + j] = ps[k][j] /\ ps[k][j] # t
    BY DEF Listed
  <1>7. \A k \in 1 .. n : \A j \in 1 .. Len(ps[k]) : q[o[k - 1] + j] # t
    BY <1>8, Zenon
  <1>3. /\ \A k \in 1 .. n - 1 : q[o[k]] = t
        /\ \A i \in 1 .. L : \E k \in 1 .. n : o[k - 1] < i /\ i <= o[k]
    BY DEF Listed
  <1> HIDE DEF L
  <1>4. D \subseteq C
    <2> SUFFICES ASSUME NEW k \in 0 .. n PROVE o[k] \in C
      OBVIOUS
    <2>1. CASE k = 0
      BY <1>1, <2>1
    <2>2. CASE k = n
      BY <1>1, <2>2
    <2>3. CASE k # 0 /\ k # n
      <3>1. k \in 1 .. n - 1 /\ 0 \in 0 .. n /\ n \in 0 .. n /\ 0 < k /\ k < n
        BY <1>1, <2>3
      <3>2. o[0] < o[k] /\ o[k] < o[n] /\ o[k] \in 0 .. L + 1
        BY <1>1, <3>1
      <3>3. o[k] \in 1 .. L
        BY <1>1, <3>2
      <3>4. q[o[k]] = t
        BY <1>3, <3>1
      <3> QED BY <1>2, <3>3, <3>4
    <2> QED BY <2>1, <2>2, <2>3
  <1>5. C \subseteq D
    <2>1. 0 \in D /\ L + 1 \in D
      <3>1. 0 \in 0 .. n /\ n \in 0 .. n
        BY <1>1
      <3> QED BY <1>1, <3>1
    <2>2. \A i \in 1 .. L : q[i] = t => i \in D
      <3> SUFFICES ASSUME NEW i \in 1 .. L, q[i] = t PROVE i \in D
        OBVIOUS
      <3>1. PICK k \in 1 .. n : o[k - 1] < i /\ i <= o[k]
        BY <1>3
      <3>2. /\ k - 1 \in 0 .. n /\ k \in 0 .. n /\ Len(ps[k]) \in Nat
            /\ o[k] = o[k - 1] + 1 + Len(ps[k])
        BY <1>1
      <3>3. o[k - 1] \in Nat /\ o[k] \in Nat
        BY <1>1, <3>2
      <3>4. CASE i = o[k]
        BY <3>2, <3>4
      <3>5. CASE i # o[k]
        <4> DEFINE j == i - o[k - 1]
        <4>1. j \in 1 .. Len(ps[k]) /\ o[k - 1] + j = i
          BY <3>1, <3>2, <3>3, <3>5, SMTT(30)
        <4> HIDE DEF j
        <4>2. \A m \in 1 .. Len(ps[k]) : q[o[k - 1] + m] # t
          BY <1>7
        <4>3. q[o[k - 1] + j] # t
          BY <4>1, <4>2, Zenon
        <4> QED BY <4>1, <4>3
      <3> QED BY <3>4, <3>5
    <2> QED BY <1>2, <2>1, <2>2
  <1>6. C = D
    BY <1>4, <1>5
  <1> QED BY <1>6 DEF L, Cuts, Ends

\* split_string finds the parts that were joined.
Items(n, o, ps) == {[at |-> o[k - 1], text |-> ps[k]] : k \in 1 .. n}

LEMMA SplitListed ==
    ASSUME NEW W, NEW n, NEW o, NEW q, NEW ps, NEW t, t = "&",
           Listed(n, o, q, ps), q \in Seq(W), ps \in Seq(Seq(W)), Len(ps) = n, q # <<>>
    PROVE  split_string(q, t) = Items(n, o, ps)
  <1> DEFINE L == Len(q)
             C == {0, L + 1} \cup {i \in DOMAIN q : q[i] = t}
             after(i) == Min({j \in C : j > i})
             item(i) == [at |-> i, text |-> SubSeq(q, i + 1, after(i) - 1)]
             e == L + 1
  <1>1. split_string(q, t) = {item(i) : i \in C \ {e}}
    BY DEF split_string
  <1>2. C = {o[k] : k \in 0 .. n}
    <2>1. Cuts(q, t) = Ends(n, o)
      BY ListedCuts
    <2> QED BY <2>1 DEF Cuts, Ends
  <1>3. /\ n \in Nat /\ n > 0 /\ o[0] = 0 /\ o[n] = e /\ L \in Nat
        /\ \A k \in 0 .. n : o[k] \in 0 .. L + 1
        /\ \A k \in 1 .. n : /\ k - 1 \in 0 .. n /\ k \in 0 .. n
                             /\ ps[k] \in Seq(W) /\ Len(ps[k]) \in Nat
                             /\ o[k] = o[k - 1] + 1 + Len(ps[k])
        /\ \A k, l \in 0 .. n : k < l => o[k] < o[l]
    BY ListedPlaces, SMTT(30)
  <1>4. \A k \in 1 .. n : \A j \in 1 .. Len(ps[k]) : q[o[k - 1] + j] = ps[k][j]
    BY DEF Listed
  <1> HIDE DEF L, C, e
  <1>5. C \ {e} = {o[k - 1] : k \in 1 .. n}
    <2>1. \A k \in 1 .. n : o[k - 1] \in C \ {e}
      <3> TAKE k \in 1 .. n
      <3>1. k - 1 \in 0 .. n /\ n \in 0 .. n /\ k - 1 < n
        BY <1>3
      <3>2. o[k - 1] < o[n] /\ o[k - 1] \in Int /\ o[n] \in Int
        BY <1>3, <3>1
      <3>3. o[k - 1] # e
        BY <1>3, <3>2
      <3> QED BY <1>2, <3>1, <3>3
    <2>2. \A k \in 0 .. n : o[k] # e => \E l \in 1 .. n : o[k] = o[l - 1]
      <3> SUFFICES ASSUME NEW k \in 0 .. n, o[k] # e PROVE \E l \in 1 .. n : o[k] = o[l - 1]
        OBVIOUS
      <3>1. k # n
        BY <1>3
      <3>2. k + 1 \in 1 .. n /\ (k + 1) - 1 = k
        BY <1>3, <3>1
      <3> QED BY <3>2
    <2>3. C \ {e} \subseteq {o[k - 1] : k \in 1 .. n}
      BY <1>2, <2>2
    <2>4. {o[k - 1] : k \in 1 .. n} \subseteq C \ {e}
      BY <2>1
    <2> QED BY <2>3, <2>4
  <1>6. \A k \in 1 .. n : item(o[k - 1]) = [at |-> o[k - 1], text |-> ps[k]]
    <2> TAKE k \in 1 .. n
    <2> DEFINE x == o[k - 1]
               y == o[k]
               p == ps[k]
               T == {j \in C : j > x}
    <2>1. k - 1 \in 0 .. n /\ k \in 0 .. n /\ p \in Seq(W) /\ Len(p) \in Nat
          /\ y = x + 1 + Len(p)
      BY <1>3
    <2>2. x \in Nat /\ y \in Nat /\ y <= L + 1 /\ x + Len(p) <= L /\ y - 1 = x + Len(p)
      <3>1. x \in 0 .. L + 1 /\ y \in 0 .. L + 1 /\ L \in Nat
        BY <1>3, <2>1
      <3> DEFINE l == Len(p)
      <3>2. l \in Nat /\ y = x + 1 + l
        BY <2>1
      <3> HIDE DEF x, y, l, p
      <3>3. x \in Nat /\ y \in Nat /\ y <= L + 1 /\ x + l <= L /\ y - 1 = x + l
        BY <3>1, <3>2
      <3> QED BY <3>3 DEF l
    <2>3. y \in T
      BY <1>2, <2>1, <2>2, SMTT(30)
    <2>4. T \in SUBSET Int
      BY <1>2, <1>3
    <2>5. \A z \in T : y <= z
      <3> TAKE z \in T
      <3>1. PICK l \in 0 .. n : z = o[l]
        BY <1>2
      <3>2. x < z
        OBVIOUS
      <3>3. ~(l < k)
        <4> SUFFICES ASSUME l < k PROVE FALSE
          OBVIOUS
        <4>1. l < k - 1 \/ l = k - 1
          BY <1>3
        <4>2. o[l] < x \/ o[l] = x
          BY <1>3, <2>1, <4>1
        <4> QED BY <1>3, <2>2, <3>1, <3>2, <4>2
      <3>4. l = k \/ k < l
        BY <3>3
      <3>5. y \in Int /\ z \in Int
        BY <1>3, <2>2, <3>1, SMTT(30)
      <3>6. y = z \/ y < z
        BY <1>3, <2>1, <3>1, <3>4
      <3> QED BY <3>5, <3>6
    <2> HIDE DEF T, y, x, p
    <2>6. Min(T) = y
      BY <2>3, <2>4, <2>5, MinIs
    <2>7. Part(q, x, p)
      BY <1>4 DEF Part, x, p
    <2>8. SubSeq(q, x + 1, x + Len(p)) = p
      BY <2>1, <2>2, <2>7, Sliced DEF L
    <2>9. after(x) = y
      BY <2>6 DEF T
    <2> HIDE DEF after
    <2>10. item(x) = [at |-> x, text |-> p]
      <3>1. after(x) - 1 = x + Len(p)
        BY <2>2, <2>9
      <3> QED BY <2>8, <3>1
    <2> QED BY <2>10 DEF x, p
  <1> HIDE DEF item
  <1>7. {item(i) : i \in C \ {e}} = {item(o[k - 1]) : k \in 1 .. n}
    BY <1>5
  <1>8. {item(o[k - 1]) : k \in 1 .. n} = {[at |-> o[k - 1], text |-> ps[k]] : k \in 1 .. n}
    BY <1>6
  <1> QED BY <1>1, <1>7, <1>8 DEF Items

LEMMA TailWords ==
    ASSUME NEW W, NEW s, NEW m, NEW t, s \in Seq(W), m \in 0 .. Len(s)
    PROVE  t \notin Range(SubSeq(s, m + 1, Len(s))) <=> \A j \in m + 1 .. Len(s) : s[j] # t
  <1> DEFINE L == Len(s)
             b == m + 1
             q == SubSeq(s, b, L)
  <1>1. L \in Nat /\ m \in Nat /\ m <= L
    OBVIOUS
  <1>2. CASE m = L
    <2>1. q = <<>>
      BY <1>1, <1>2
    <2>2. t \notin Range(q)
      BY <2>1 DEF Range
    <2>3. b .. L = {}
      BY <1>1, <1>2
    <2> QED BY <2>2, <2>3
  <1>3. CASE m # L
    <2>1. /\ b \in Int /\ L \in Int /\ b <= L /\ \A j \in b .. L : j \in 1 .. L
      BY <1>1, <1>3
    <2>2. \A j \in b .. L : s[j] \in W
      BY <2>1
    <2>3. /\ \A i \in 1 .. L - b + 1 : b + i - 1 \in b .. L
          /\ \A j \in b .. L : (j - b) + 1 \in 1 .. L - b + 1 /\ b + ((j - b) + 1) - 1 = j
      BY <1>1
    <2> HIDE DEF b, L
    <2>4. /\ q \in Seq(W) /\ Len(q) = L - b + 1
          /\ \A i \in 1 .. L - b + 1 : q[i] = s[b + i - 1]
      BY <2>1, <2>2, SubSeqProperties
    <2>5. DOMAIN q = 1 .. Len(q)
      BY <2>4
    <2>6. DOMAIN q = 1 .. L - b + 1
      BY <2>4, <2>5
    <2>7. \A i \in DOMAIN q : q[i] = s[b + i - 1]
      BY <2>4, <2>6
    <2> HIDE DEF q
    <2>8. t \notin Range(q) <=> \A i \in DOMAIN q : q[i] # t
      BY Zenon DEF Range
    <2>9. (\A i \in DOMAIN q : q[i] # t) <=> \A j \in b .. L : s[j] # t
      <3>1. ASSUME \A i \in DOMAIN q : q[i] # t, NEW j \in b .. L PROVE s[j] # t
        <4> DEFINE i == (j - b) + 1
        <4>1. i \in DOMAIN q /\ b + i - 1 = j
          BY <2>3, <2>6
        <4> HIDE DEF i
        <4>2. q[i] # t /\ q[i] = s[b + i - 1]
          BY <2>7, <3>1, <4>1
        <4> QED BY <4>1, <4>2
      <3>2. ASSUME \A j \in b .. L : s[j] # t, NEW i \in DOMAIN q PROVE q[i] # t
        <4>1. b + i - 1 \in b .. L
          BY <2>3, <2>6
        <4>2. s[b + i - 1] # t
          BY <3>2, <4>1
        <4> QED BY <2>7, <4>2
      <3> QED BY <3>1, <3>2
    <2> QED BY <2>8, <2>9 DEF q, b, L
  <1> QED BY <1>2, <1>3

LEMMA TwoOf == ASSUME NEW x, NEW y, x # y PROVE IsFiniteSet({x, y}) /\ Cardinality({x, y}) = 2
  <1>1. IsFiniteSet({x}) /\ Cardinality({x}) = 1
    BY FS_Singleton
  <1>2. y \notin {x} /\ {x} \cup {y} = {x, y}
    OBVIOUS
  <1>3. IsFiniteSet({x} \cup {y}) /\ Cardinality({x} \cup {y}) = 1 + 1
    BY <1>1, <1>2, FS_AddElement
  <1> QED BY <1>2, <1>3

LEMMA ThreeOf ==
    ASSUME NEW x, NEW y, NEW z, x # y, z # x, z # y
    PROVE  IsFiniteSet({x, y, z}) /\ Cardinality({x, y, z}) = 3
  <1>1. IsFiniteSet({x, y}) /\ Cardinality({x, y}) = 2
    BY TwoOf
  <1>2. z \notin {x, y} /\ {x, y} \cup {z} = {x, y, z}
    OBVIOUS
  <1>3. IsFiniteSet({x, y} \cup {z}) /\ Cardinality({x, y} \cup {z}) = 2 + 1
    BY <1>1, <1>2, FS_AddElement
  <1> QED BY <1>2, <1>3

\* Begins(p, t): where the parts of a text that split_string finds begin.
Begins(p, t) == {0} \cup {i \in 1 .. Len(p) : p[i] = t}

LEMMA SplitAt ==
    ASSUME NEW W, NEW p, NEW t, p \in Seq(W), p # <<>>
    PROVE  \E item : /\ split_string(p, t) = {item[i] : i \in Begins(p, t)}
                     /\ \A i \in Begins(p, t) : item[i].at = i
                     /\ DOMAIN item = Begins(p, t) /\ IsFiniteSet(split_string(p, t))
  <1> DEFINE L == Len(p)
             C == {0, L + 1} \cup {i \in DOMAIN p : p[i] = t}
             after(i) == Min({j \in C : j > i})
             part(i) == [at |-> i, text |-> SubSeq(p, i + 1, after(i) - 1)]
             e == L + 1
             I == Begins(p, t)
             item == [i \in I |-> part(i)]
             S == split_string(p, t)
  <1>1. S = {part(i) : i \in C \ {e}}
    BY DEF split_string
  <1>2. L \in Nat /\ DOMAIN p = 1 .. L
    OBVIOUS
  <1>3. C \ {e} = I
    BY <1>2 DEF Begins
  <1> HIDE DEF C, e, S
  <1>4. \A i \in I : part(i).at = i
    OBVIOUS
  <1>5. I \subseteq 0 .. L
    BY <1>2 DEF Begins
  <1> HIDE DEF I, L, part
  <1>6. S = {item[i] : i \in I} /\ \A i \in I : item[i] = part(i)
    BY <1>1, <1>3
  <1>7. IsFiniteSet(I)
    <2>1. 0 \in Int /\ L \in Int
      BY <1>2
    <2>2. IsFiniteSet(0 .. L)
      BY <2>1, FS_Interval
    <2> QED BY <1>5, <2>2, FS_Subset
  <1>8. IsFiniteSet(S)
    <2>1. item \in Surjection(I, S)
      BY <1>6 DEF Surjection
    <2> QED BY <1>7, <2>1, FS_Surjection
  <1>9. \A i \in I : item[i].at = i
    BY <1>4, <1>6
  <1>10. DOMAIN item = I
    OBVIOUS
  <1> HIDE DEF item
  <1> QED BY <1>6, <1>8, <1>9, <1>10 DEF I, S

\* What a parameter is taken for is what it means.
LEMMA ModePair ==
    ASSUME NEW W, NEW p, NEW t, t = "=", p \in Seq(W)
    PROVE  (Cardinality(split_string(p, t)) = 2 /\ Head(p) = "mode" /\ p[2] = t) <=> SetsMode(p)
  <1> DEFINE L == Len(p)
             S == split_string(p, t)
             I == Begins(p, t)
             mode == "mode"
             b == 2
  <1>1. L \in Nat /\ DOMAIN p = 1 .. L
    OBVIOUS
  <1>2. CASE p = <<>>
    <2>1. S = {} /\ L = 0
      BY <1>2 DEF split_string
    <2>2. Cardinality(S) = 0
      BY <2>1, FS_EmptySet
    <2>3. ~SetsMode(p)
      BY <2>1 DEF SetsMode
    <2> QED BY <2>2, <2>3
  <1>3. CASE p # <<>>
    <2>1. L > 0 /\ Head(p) = p[1]
      BY <1>1, <1>3
    <2>2. PICK item : /\ S = {item[i] : i \in I} /\ \A i \in I : item[i].at = i
                      /\ DOMAIN item = I /\ IsFiniteSet(S)
      BY <1>3, SplitAt
    <2>3. I = {0} \cup {i \in 1 .. L : p[i] = t}
      BY DEF Begins
    <2>4. mode # t
      OBVIOUS
    <2>5. L > 1 => (SubSeq(p, 1, 2) = <<mode, t>> <=> p[1] = mode /\ p[2] = t)
      <3> SUFFICES ASSUME L > 1 PROVE SubSeq(p, 1, b) = <<mode, t>> <=> p[1] = mode /\ p[b] = t
        OBVIOUS
      <3> DEFINE c == 1
                 q == SubSeq(p, c, b)
      <3>1. c \in Int /\ b \in Int /\ c <= b /\ (b - c) + 1 = 2 /\ \A j \in c .. b : p[j] \in W
        BY <1>1
      <3>2. c + 1 - 1 = 1 /\ c + 2 - 1 = b
        OBVIOUS
      <3>10. 2 = b /\ c = 1
        OBVIOUS
      <3> HIDE DEF b, c
      <3>3. q \in Seq(W) /\ Len(q) = 2 /\ \A i \in 1 .. 2 : q[i] = p[c + i - 1]
        BY <3>1, SubSeqProperties
      <3>4. q[1] = p[1] /\ q[2] = p[b]
        BY <3>2, <3>3
      <3> HIDE DEF q, mode
      <3>5. (q = <<mode, t>>) <=> (q[1] = mode /\ q[2] = t)
        BY <3>3
      <3> QED BY <3>4, <3>5, <3>10 DEF q
    <2>6. L > 1 => (t \notin Range(SubSeq(p, 3, L)) <=> \A j \in 3 .. L : p[j] # t)
      <3> SUFFICES ASSUME L > 1 PROVE t \notin Range(SubSeq(p, 3, L)) <=> \A j \in 3 .. L : p[j] # t
        OBVIOUS
      <3>1. b \in 0 .. L /\ b + 1 = 3
        BY <1>1
      <3> HIDE DEF b
      <3>2. t \notin Range(SubSeq(p, b + 1, L)) <=> \A j \in b + 1 .. L : p[j] # t
        BY <3>1, TailWords
      <3> QED BY <3>1, <3>2, Zenon
    <2>7. SetsMode(p) <=> L > 1 /\ p[1] = mode /\ p[2] = t /\ \A j \in 3 .. L : p[j] # t
      BY <2>5, <2>6 DEF SetsMode
    <2> HIDE DEF L, S, I, mode, b
    <2>8. ASSUME SetsMode(p) PROVE Cardinality(S) = 2 /\ p[1] = mode /\ p[2] = t
      <3>1. I = {0, 2}
        <4>1. \A i \in 1 .. L : p[i] = t <=> i = 2
          <5> TAKE i \in 1 .. L
          <5>1. i = 1 \/ i = 2 \/ i \in 3 .. L
            BY <1>1
          <5> QED BY <2>4, <2>7, <2>8, <5>1
        <4>2. 2 \in 1 .. L
          BY <1>1, <2>7, <2>8
        <4> QED BY <2>3, <4>1, <4>2
      <3>2. S = {item[0], item[2]}
        BY <2>2, <3>1
      <3>3. item[0] # item[2]
        BY <2>2, <3>1
      <3> QED BY <2>7, <2>8, <3>2, <3>3, TwoOf
    <2>9. ASSUME Cardinality(S) = 2, p[1] = mode, p[2] = t PROVE SetsMode(p)
      <3>1. PICK j \in 1 .. L : p[j] = t
        <4> SUFFICES ASSUME \A j \in 1 .. L : p[j] # t PROVE FALSE
          OBVIOUS
        <4>1. I = {0}
          BY <2>3
        <4>2. S = {item[0]}
          BY <2>2, <4>1
        <4>3. Cardinality(S) = 1
          BY <4>2, FS_Singleton
        <4> QED BY <2>9, <4>3
      <3>2. L > 1
        <4>1. j # 1
          BY <2>4, <2>9, <3>1
        <4> QED BY <1>1, <4>1
      <3>3. ASSUME NEW k \in 3 .. L, p[k] = t PROVE FALSE
        <4>1. k \in 1 .. L /\ 2 \in 1 .. L /\ k # 0 /\ k # 2
          BY <1>1, <3>2
        <4>2. 0 \in I /\ 2 \in I /\ k \in I
          BY <2>3, <2>9, <3>3, <4>1
        <4>3. item[0].at = 0 /\ item[2].at = 2 /\ item[k].at = k
          BY <2>2, <4>2
        <4>4. item[0] # item[2] /\ item[0] # item[k] /\ item[2] # item[k]
          BY <4>1, <4>3
        <4>5. Cardinality({item[0], item[2], item[k]}) = 3
          BY <4>4, ThreeOf
        <4>6. {item[0], item[2], item[k]} \in SUBSET S
          BY <2>2, <4>2
        <4>7. Cardinality({item[0], item[2], item[k]}) <= Cardinality(S)
          BY <2>2, <4>6, FS_Subset
        <4> QED BY <2>9, <4>5, <4>7
      <3> QED BY <2>7, <2>9, <3>2, <3>3
    <2> QED BY <2>1, <2>8, <2>9 DEF S, mode
  <1> QED BY <1>2, <1>3

\* A query of no words has no parameter that is one.
LEMMA NoQuery ==
    ASSUME NEW a \in Asks, Query(a) = <<>>
    PROVE  Len(a.params) \in Nat /\ \A k \in 1 .. Len(a.params) : ~SetsMode(a.params[k])
  <1> DEFINE n == Len(a.params)
             ps == a.params
             s == Tails(a)
             f == FlattenSeq(s)
             W == ExtraWords
             t == "&"
  <1>0. t = "&"
    OBVIOUS
  <1> HIDE DEF t
  <1>1. n \in Nat /\ Query(a) = SubSeq(f, 2, Len(f))
    BY <1>0, TailsRun
  <1>2. \A k \in 1 .. n : Len(ps[k]) \in Nat
    BY <1>0, TailsRun
  <1>3. \A k \in 1 .. n : Len(s[k]) = 1 + Len(ps[k])
    <2> TAKE k \in 1 .. n
    <2> QED BY <1>0, TailsRun, ZenonT(60)
  <1>4. PICK o : Runs(W, o, s, f, n)
    BY <1>0, TailsRun
  <1> HIDE DEF n, ps, W, s, f
  <1>5. /\ o \in [0 .. n -> Nat] /\ f \in Seq(W) /\ Len(f) = o[n]
        /\ \A k, l \in 0 .. n : k <= l => o[k] <= o[l]
        /\ \A k \in 1 .. n : o[k] = o[k - 1] + Len(s[k])
    BY <1>4 DEF Runs
  <1>6. Len(f) \in Nat /\ Len(f) < 2
    <2> SUFFICES ASSUME Len(f) \in Nat, ~(Len(f) < 2) PROVE FALSE
      BY <1>5
    <2> DEFINE b == 2
               c == Len(f)
    <2>1. /\ b \in Int /\ c \in Int /\ b <= c /\ \A j \in b .. c : f[j] \in W
      BY <1>5
    <2>3. Query(a) = SubSeq(f, b, c)
      BY <1>1
    <2> HIDE DEF b, c
    <2>4. Len(SubSeq(f, b, c)) = c - b + 1
      BY <2>1, SubSeqProperties
    <2>5. Len(Query(a)) # 0
      BY <2>1, <2>3, <2>4
    <2> QED BY <2>5
  <1>7. ASSUME NEW k \in 1 .. n, SetsMode(ps[k]) PROVE FALSE
    <2>1. k - 1 \in 0 .. n /\ k \in 0 .. n /\ n \in 0 .. n /\ k <= n
      BY <1>1
    <2>2. Len(ps[k]) \in Nat /\ Len(ps[k]) > 1
      BY <1>2, <1>7 DEF SetsMode
    <2>3. o[k] = o[k - 1] + Len(s[k]) /\ Len(s[k]) = 1 + Len(ps[k])
      BY <1>3, <1>5
    <2>4. o[k - 1] \in Nat /\ o[k] <= o[n] /\ o[n] \in Nat
      BY <1>5, <2>1
    <2> QED BY <1>5, <1>6, <2>2, <2>3, <2>4
  <1> QED BY <1>1, <1>7 DEF n, ps

\* Only what was live or hls before is it after the escapes are resolved.
LEMMA Decoded ==
    ASSUME NEW W, NEW v, v \in Seq(W)
    PROVE  /\ url_decode(v) = <<"hls">> <=> v = <<"hls">>
           /\ url_decode(v) = <<"live">> <=> v \in {<<"live">>, <<"%6Cive">>}
  <1> DEFINE d == url_decode(v)
  <1>1. /\ DOMAIN d = DOMAIN v
        /\ \A i \in DOMAIN v : d[i] = CASE v[i] = "%6Cive" -> "live"
                                        [] v[i] = "+" -> " "
                                        [] OTHER -> v[i]
    BY DEF url_decode
  <1>2. \A i \in DOMAIN v : /\ d[i] = "hls" <=> v[i] = "hls"
                            /\ d[i] = "live" <=> v[i] = "live" \/ v[i] = "%6Cive"
    BY <1>1
  <1> HIDE DEF d
  <1>3. d = [i \in DOMAIN v |-> d[i]]
    BY DEF url_decode, d
  <1>4. DOMAIN v = 1 .. Len(v) /\ Len(v) \in Nat
    OBVIOUS
  <1>5. \A x : d = <<x>> <=> Len(v) = 1 /\ d[1] = x
    <2> TAKE x
    <2>1. ASSUME d = <<x>> PROVE Len(v) = 1 /\ d[1] = x
      <3>1. DOMAIN d = 1 .. 1
        BY <2>1
      <3>2. 1 .. Len(v) = 1 .. 1
        BY <1>1, <1>4, <3>1
      <3>3. Len(v) = 1
        BY <1>4, <3>2
      <3> QED BY <2>1, <3>3
    <2>2. ASSUME Len(v) = 1, d[1] = x PROVE d = <<x>>
      <3>1. DOMAIN v = {1}
        BY <1>4, <2>2
      <3>2. d = [i \in {1} |-> x]
        BY <1>3, <2>2, <3>1
      <3>3. <<x>> = [i \in {1} |-> x]
        OBVIOUS
      <3> QED BY <3>2, <3>3
    <2> QED BY <2>1, <2>2
  <1>6. \A x : v = <<x>> <=> Len(v) = 1 /\ v[1] = x
    BY <1>4
  <1>7. Len(v) = 1 => 1 \in DOMAIN v
    BY <1>4
  <1> QED BY <1>2, <1>5, <1>6, <1>7 DEF d

\* What a query is taken for is what its parameters mean.
LEMMA RouteIs ==
    ASSUME NEW a \in Asks
    PROVE  Route(Query(a)) = Meant(a.params)
  <1> DEFINE q == Query(a)
             n == Len(a.params)
             ps == a.params
             modes == {k \in DOMAIN ps : SetsMode(ps[k])}
             S == split_string(q, "&")
             pairs == {p \in S : /\ Cardinality(split_string(p.text, "=")) = 2
                                 /\ Head(p.text) = "mode"
                                 /\ p.text[2] = "="}
             last == CHOOSE p \in pairs : \A r \in pairs : r.at <= p.at
             said == SubSeq(last.text, 3, Len(last.text))
             M == Max(modes)
             value == SubSeq(ps[M], 3, Len(ps[M]))
             t == "&"
  <1>1. ModeParam(q) = IF pairs = {} THEN <<>> ELSE url_decode(said)
    BY DEF ModeParam
  <1>2. Meant(ps) = IF modes = {} THEN "file"
                    ELSE CASE value = <<"hls">> -> "segment"
                           [] value \in {<<"live">>, <<"%6Cive">>} -> "stream"
                           [] OTHER -> "file"
    BY DEF Meant
  <1>3. pairs = {} => Route(q) = "file"
    <2>1. <<>> # <<"hls">> /\ <<>> # <<"live">>
      OBVIOUS
    <2> HIDE DEF pairs, said, q
    <2> QED BY <1>1, <2>1 DEF Route
  <1>4. CASE q = <<>>
    <2>1. S = {}
      BY <1>4 DEF split_string
    <2>2. pairs = {}
      BY <2>1
    <2>3. DOMAIN ps = 1 .. n
      BY AskFields
    <2>4. modes = {}
      BY <1>4, <2>3, NoQuery
    <2> QED BY <1>2, <1>3, <2>2, <2>4
  <1>5. CASE q # <<>>
    <2> DEFINE W == ExtraWords
    <2>1. PICK o : Listed(n, o, q, ps)
      BY <1>5, QueryIsListed
    <2> DEFINE item(k) == [at |-> o[k - 1], text |-> ps[k]]
    <2>0. t = "&"
      OBVIOUS
    <2>2. /\ q \in Seq(W) /\ ps \in Seq(Seq(W)) /\ DOMAIN ps = 1 .. n /\ n \in Nat
      <3>1. q \in Seq(W)
        BY QueryIs
      <3>2. n \in Nat /\ DOMAIN ps = 1 .. n /\ ps \in Seq(Seq(UrlWords \ {"&"}))
        BY AskFields
      <3>3. UrlWords \ {"&"} \subseteq W
        BY DEF ExtraWords
      <3>4. Seq(UrlWords \ {"&"}) \subseteq Seq(W)
        BY <3>3, SeqMonotonic
      <3> HIDE DEF W, q, n, ps
      <3>5. ps \in Seq(Seq(W))
        BY <3>2, <3>4, SeqMonotonic
      <3> QED BY <3>1, <3>2, <3>5
    <2>10. Len(ps) = n
      OBVIOUS
    <2>3. S = {item(k) : k \in 1 .. n}
      <3> HIDE DEF t, W, n, ps, q
      <3>1. split_string(q, t) = Items(n, o, ps)
        BY <1>5, <2>0, <2>1, <2>2, <2>10, SplitListed
      <3> QED BY <2>0, <3>1, Zenon DEF Items
    <2>4. /\ \A k \in 1 .. n : /\ k - 1 \in 0 .. n /\ k \in 0 .. n
                               /\ ps[k] \in Seq(W) /\ Len(ps[k]) \in Nat
          /\ \A k \in 0 .. n : o[k] \in 0 .. Len(q) + 1
          /\ \A k, l \in 0 .. n : k < l => o[k] < o[l]
          /\ Len(q) \in Nat
      BY <2>1, <2>2, ListedPlaces
    <2> HIDE DEF W, n, ps, q, S, t
    <2>5. \A k \in 1 .. n :
             (/\ Cardinality(split_string(ps[k], "=")) = 2
              /\ Head(ps[k]) = "mode"
              /\ ps[k][2] = "=") <=> SetsMode(ps[k])
      <3> TAKE k \in 1 .. n
      <3> DEFINE p == ps[k]
                 e == "="
      <3>1. p \in Seq(W) /\ e = "="
        BY <2>4
      <3> HIDE DEF p, e
      <3>2. (Cardinality(split_string(p, e)) = 2 /\ Head(p) = "mode" /\ p[2] = e) <=> SetsMode(p)
        BY <3>1, ModePair
      <3> QED BY <3>1, <3>2, Zenon DEF p
    <2>6. \A k \in 1 .. n : item(k).text = ps[k] /\ item(k).at = o[k - 1]
      OBVIOUS
    <2> HIDE DEF item
    <2>7. pairs = {item(k) : k \in modes}
      <3>1. ASSUME NEW p \in pairs PROVE \E k \in modes : p = item(k)
        <4>1. PICK k \in 1 .. n : p = item(k)
          BY <2>3
        <4>2. p.text = ps[k]
          BY <2>6, <4>1
        <4>3. /\ Cardinality(split_string(p.text, "=")) = 2
              /\ Head(p.text) = "mode"
              /\ p.text[2] = "="
          OBVIOUS
        <4>4. SetsMode(ps[k])
          BY <2>5, <4>2, <4>3, Zenon
        <4> QED BY <2>2, <4>1, <4>4
      <3>2. ASSUME NEW k \in modes PROVE item(k) \in pairs
        <4>1. k \in 1 .. n /\ SetsMode(ps[k])
          BY <2>2
        <4>2. item(k) \in S /\ item(k).text = ps[k]
          BY <2>3, <2>6, <4>1
        <4>3. /\ Cardinality(split_string(ps[k], "=")) = 2
              /\ Head(ps[k]) = "mode"
              /\ ps[k][2] = "="
          BY <2>5, <4>1
        <4> QED BY <4>2, <4>3, Zenon
      <3> HIDE DEF pairs, modes
      <3> QED BY <3>1, <3>2
    <2>8. CASE modes = {}
      <3>1. pairs = {}
        <4> HIDE DEF pairs, modes
        <4> QED BY <2>7, <2>8
      <3> HIDE DEF pairs, value, modes
      <3> QED BY <1>2, <1>3, <2>8, <3>1 DEF q, ps
    <2>9. CASE modes # {}
      <3>1. modes \in SUBSET (1 .. n) /\ modes \in SUBSET Int
        BY <2>2
      <3>11. \A k \in modes : SetsMode(ps[k])
        OBVIOUS
      <3> HIDE DEF modes, pairs
      <3>2. PICK m \in modes : \A y \in modes : y <= m
        BY <2>2, <2>9, <3>1, GreatestNumber
      <3>3. M = m
        BY <3>1, <3>2, MaxIs
      <3>4. item(m) \in pairs /\ \A r \in pairs : r.at <= item(m).at
        <4>1. item(m) \in pairs
          BY <2>7
        <4>2. ASSUME NEW k \in modes PROVE item(k).at <= item(m).at
          <5>1. /\ k \in 1 .. n /\ m \in 1 .. n /\ k <= m
            BY <3>1, <3>2
          <5>2. k - 1 \in 0 .. n /\ m - 1 \in 0 .. n /\ (k - 1 < m - 1 \/ k = m)
            BY <2>2, <5>1
          <5>3. o[k - 1] \in Int /\ o[m - 1] \in Int
            BY <2>4, <5>2
          <5>4. o[k - 1] < o[m - 1] \/ o[k - 1] = o[m - 1]
            BY <2>4, <5>2
          <5> QED BY <2>6, <5>1, <5>3, <5>4
        <4> QED BY <2>7, <4>1, <4>2
      <3>5. last \in pairs /\ \A r \in pairs : r.at <= last.at
        BY <3>4
      <3> HIDE DEF last
      <3>6. last = item(m)
        <4>1. PICK k \in modes : last = item(k)
          BY <2>7, <3>5
        <4>2. item(m).at <= item(k).at
          BY <3>4, <3>5, <4>1
        <4>3. k \in 1 .. n /\ m \in 1 .. n /\ k <= m
          BY <3>1, <3>2
        <4>4. k - 1 \in 0 .. n /\ m - 1 \in 0 .. n /\ (k - 1 < m - 1 \/ k = m)
          BY <2>2, <4>3
        <4>5. o[k - 1] \in Int /\ o[m - 1] \in Int /\ o[m - 1] <= o[k - 1]
          BY <2>4, <2>6, <4>2, <4>3, <4>4
        <4>6. ~(k - 1 < m - 1)
          BY <2>4, <4>4, <4>5
        <4> QED BY <4>1, <4>4, <4>6
      <3>7. said = value
        <4>1. last.text = ps[M] 
          BY <2>6, <3>1, <3>3, <3>6
        <4> QED BY <4>1, Zenon
      <3>8. value \in Seq(W)
        <4> DEFINE p == ps[M]
                   b == 3
                   c == Len(p)
        <4>1. p \in Seq(W) /\ c \in Nat /\ c > 1 /\ \A j \in b .. c : p[j] \in W
          <5>1. p \in Seq(W) /\ c \in Nat
            BY <2>4, <3>1, <3>3
          <5>2. SetsMode(p)
            BY <3>3, <3>11
          <5>3. c > 1
            BY <5>2 DEF SetsMode
          <5> QED BY <5>1, <5>3
        <4>2. CASE c = 2
          BY <4>1, <4>2
        <4>3. CASE c # 2
          <5> HIDE DEF p, c
          <5>1. b \in Int /\ c \in Int /\ b <= c
            BY <4>1, <4>3
          <5> HIDE DEF b
          <5>2. SubSeq(p, b, c) \in Seq(W)
            BY <4>1, <5>1, SubSeqProperties
          <5> QED BY <5>2 DEF p, b, c
        <4> QED BY <4>2, <4>3
      <3> HIDE DEF value, said
      <3>9. /\ url_decode(value) = <<"hls">> <=> value = <<"hls">>
            /\ url_decode(value) = <<"live">> <=> value \in {<<"live">>, <<"%6Cive">>}
        BY <3>8, Decoded
      <3>10. ModeParam(q) = url_decode(value)
        BY <1>1, <2>9, <3>4, <3>7
      <3>12. Route(q) = CASE url_decode(value) = <<"hls">> -> "segment"
                          [] url_decode(value) = <<"live">> -> "stream"
                          [] OTHER -> "file"
        BY <3>10, Zenon DEF Route
      <3>13. Meant(ps) = CASE value = <<"hls">> -> "segment"
                           [] value \in {<<"live">>, <<"%6Cive">>} -> "stream"
                           [] OTHER -> "file"
        BY <1>2, <2>9, Zenon DEF ps
      <3>14. <<"hls">> # <<"live">> /\ <<"hls">> # <<"%6Cive">>
        OBVIOUS
      <3>15. CASE value = <<"hls">>
        <4>1. url_decode(value) = <<"hls">> /\ ~(url_decode(value) = <<"live">>)
              /\ ~(value \in {<<"live">>, <<"%6Cive">>})
          BY <3>9, <3>14, <3>15
        <4> QED BY <3>12, <3>13, <3>15, <4>1 DEF q, ps
      <3>16. CASE value # <<"hls">> /\ value \in {<<"live">>, <<"%6Cive">>}
        <4>1. url_decode(value) = <<"live">> /\ ~(url_decode(value) = <<"hls">>)
          BY <3>9, <3>16
        <4> QED BY <3>12, <3>13, <3>16, <4>1 DEF q, ps
      <3>17. CASE value # <<"hls">> /\ ~(value \in {<<"live">>, <<"%6Cive">>})
        <4>1. ~(url_decode(value) = <<"live">>) /\ ~(url_decode(value) = <<"hls">>)
          BY <3>9, <3>17
        <4> QED BY <3>12, <3>13, <3>17, <4>1 DEF q, ps
      <3> QED BY <3>15, <3>16, <3>17
    <2> QED BY <2>8, <2>9
  <1> QED BY <1>4, <1>5

\* A plain request has no question mark behind the URL: what follows the
\* first HTTP has none, and that is no later than the one of the request line.
LEMMA NoLateMark ==
    ASSUME NEW a \in Asks, NEW t, NEW u, t = "HTTP", u = "?",
           ~Has(substr(Text(a), find(Text(a), <<t>>, 1), -1), u)
    PROVE  \A i \in UrlStop(a) + 2 .. Len(Text(a)) : Text(a)[i] # u
  <1> DEFINE x == Text(a)
             L == Len(x)
             n == UrlStop(a)
             W == Words
             T == {i \in 1 .. L : x[i] = t}
  <1>1. x \in Seq(W) /\ L \in Nat /\ x[n + 2] = t
    <2>1. x \in Seq(W) /\ x[n + 2] = "HTTP"
      BY TextIs
    <2>2. L \in Nat
      BY LenText
    <2> QED BY <2>1, <2>2
  <1>2. n \in Nat /\ n + 2 <= L
    <2>1. /\ n \in Nat /\ Len(Lines(a)) \in Nat /\ LineStop(a) = n + 5
          /\ HeadersStop(a) = LineStop(a) + Len(Lines(a)) /\ HeadersStop(a) + 1 <= L
      BY StopsType, LenText
    <2> DEFINE l == Len(Lines(a))
    <2>2. l \in Nat /\ n \in Nat /\ n + 5 + l + 1 <= L
      BY <2>1
    <2> HIDE DEF l, n, L
    <2> QED BY <1>1, <2>2
  <1> HIDE DEF x, L, n, W
  <1>3. T \in SUBSET Nat /\ n + 2 \in T
    BY <1>1, <1>2
  <1>4. PICK h \in T : \A y \in T : h <= y
    BY <1>3, LeastNumber
  <1>5. h \in 1 .. L /\ x[h] = t /\ h <= n + 2 /\ \A j \in 1 .. h - 1 : x[j] # t
    BY <1>1, <1>3, <1>4
  <1>6. find(x, <<t>>, 1) = h
    <2> DEFINE from == 1
    <2>1. from \in Nat /\ from > 0 /\ h \in from .. Len(x) /\ \A j \in from .. h - 1 : x[j] # t
      BY <1>5 DEF L
    <2> HIDE DEF from
    <2>2. find(x, <<t>>, from) = h
      BY <1>1, <1>5, <2>1, FindWord
    <2> QED BY <2>2 DEF from
  <1>7. substr(x, h, -1) = SubSeq(x, h, L)
    BY DEF substr, L
  <1> DEFINE s == SubSeq(x, h, L)
  <1>8. ~Has(s, u)
    BY <1>6, <1>7, Zenon DEF x
  <1>9. /\ h \in Int /\ L \in Int /\ h <= L /\ \A j \in h .. L : x[j] \in W
    BY <1>1, <1>5 DEF L
  <1>10. /\ s \in Seq(W) /\ Len(s) = L - h + 1
         /\ \A i \in 1 .. L - h + 1 : s[i] = x[h + i - 1]
    BY <1>9, SubSeqProperties
  <1> HIDE DEF s
  <1>11. \A i \in 1 .. Len(s) : s[i] # u
    BY <1>8, <1>10, HasMeans
  <1>12. ASSUME NEW i \in n + 2 .. L PROVE x[i] # u
    <2> DEFINE k == (i - h) + 1
    <2>1. k \in 1 .. L - h + 1 /\ h + k - 1 = i /\ k \in 1 .. Len(s)
      BY <1>1, <1>2, <1>5, <1>10
    <2> HIDE DEF k
    <2>2. s[k] = x[h + k - 1] /\ s[k] # u
      BY <1>10, <1>11, <2>1
    <2> QED BY <2>1, <2>2
  <1> QED BY <1>12 DEF n, x, L

-----------------------------------------------------------------------------
(* What is served is what was asked for.                                     *)

LEMMA UnderstoodStep ==
    IInv /\ Next /\ Answered /\ taken = 0 /\ taken' >= HeadLength /\ Plain =>
        /\ req'.vhost = ask.host
        /\ "/" \notin Range(req'.name) /\ "/" \notin Range(req'.ext)
        /\ Path(ask) = <<"/">> \o req'.path \o <<"/">> \o req'.name
        /\ req'.route = ask.wants
  <1> SUFFICES ASSUME IInv, Next, Answered, taken = 0, taken' >= HeadLength, Plain
               PROVE  /\ req'.vhost = ask.host
                      /\ "/" \notin Range(req'.name) /\ "/" \notin Range(req'.ext)
                      /\ Path(ask) = <<"/">> \o req'.path \o <<"/">> \o req'.name
                      /\ req'.route = ask.wants
    OBVIOUS
  <1>1. phase = "parse" /\ phase' = "serve"
    BY DEF Answered
  <1>2. /\ ask \in Asks /\ text = Text(ask) /\ text \in Seq(Words)
        /\ HeadLength = HeadersStop(ask) + 1 /\ HeadersStop(ask) \in Nat
    <2>1. ask \in Asks /\ text = Text(ask) /\ text \in Seq(Words)
      BY TextType DEF IInv
    <2> QED BY <2>1, LenText, Stops DEF HeadLength
  <1>3. Read
    <2>1. taken' # 0
      BY <1>2
    <2>2. ~ReadEnds
      BY <1>1, <2>1 DEF ReadEnds, ParseFails
    <2> QED BY <1>1, <2>2 DEF Next, Arrive, Close, TimesOut, Served, Interrupted, ParseFails
  <1> DEFINE piece == SubSeq(text, taken + 1, taken + Piece)
  <1>4. taken' = taken + Piece /\ req' \in Understood(piece)
    BY <1>1, <1>3 DEF Read, ParseReturns
  <1>5. /\ Piece \in Nat /\ piece \in Seq(Words) /\ Len(piece) = Piece
        /\ \A i \in 1 .. Piece : piece[i] = text[taken + i]
    BY PieceType
  <1>6. Piece <= Len(text) /\ Len(text) \in Nat
    <2>1. /\ arrived \in 0 .. Len(text) /\ taken \in 0 .. arrived /\ Len(text) \in Nat
          /\ size \in Nat /\ size > 0
      BY TextType DEF IInv, TypeOK
    <2>2. Piece <= arrived - taken
      BY <2>1, PieceIs
    <2> QED BY <1>5, <2>1, <2>2
  <1> HIDE DEF piece
  <1>7. \A i \in 1 .. Piece : piece[i] = text[i] /\ i \in 1 .. Len(text)
    <2> TAKE i \in 1 .. Piece
    <2>1. taken + i = i /\ i \in 1 .. Len(text)
      BY <1>5, <1>6
    <2> QED BY <1>5, <2>1
  <1>8. Begun(ask, piece)
    <2>1. HeadersStop(ask) + 1 <= Len(piece)
      BY <1>2, <1>4, <1>5
    <2>2. \A i \in 1 .. HeadersStop(ask) + 1 : i \in 1 .. Piece
      BY <1>2, <1>5, <2>1
    <2>3. \A i \in 1 .. HeadersStop(ask) + 1 : piece[i] = Text(ask)[i]
      BY <1>2, <1>7, <2>2
    <2> QED BY <1>5, <2>1, <2>3 DEF Begun
  <1>9. /\ ask.method = "GET" /\ ask.dirs # <<>>
        /\ ~Has(text, "crossdomain.xml")
        /\ ~Has(text, "<policy-file-request/>")
        /\ ~Has(substr(text, find(text, <<"HTTP">>, 1), -1), "?")
    BY DEF Plain
  <1>10. /\ ~Has(piece, "crossdomain.xml")
         /\ ~Has(piece, "<policy-file-request/>")
    <2>1. ASSUME NEW t, ~Has(text, t) PROVE ~Has(piece, t)
      <3>1. \A j \in 1 .. Len(text) : text[j] # t
        BY <1>2, <2>1, HasMeans
      <3>2. \A j \in 1 .. Len(piece) : piece[j] # t
        BY <1>5, <1>7, <3>1
      <3> QED BY <1>5, <3>2, HasMeans
    <2> QED BY <1>9, <2>1, Zenon
  <1>11. \A i \in UrlStop(ask) + 2 .. Len(piece) : piece[i] # "?"
    <2> DEFINE t == "HTTP"
               u == "?"
    <2>1. t = "HTTP" /\ u = "?" /\ ~Has(substr(Text(ask), find(Text(ask), <<t>>, 1), -1), u)
      BY <1>2, <1>9, Zenon
    <2> HIDE DEF t, u
    <2>2. \A i \in UrlStop(ask) + 2 .. Len(Text(ask)) : Text(ask)[i] # u
      BY <1>2, <2>1, NoLateMark
    <2>3. UrlStop(ask) \in Nat
      BY <1>2, StopsType
    <2>4. \A i \in UrlStop(ask) + 2 .. Len(piece) :
             i \in 1 .. Piece /\ i \in UrlStop(ask) + 2 .. Len(Text(ask))
      BY <1>2, <1>5, <1>6, <2>3
    <2>5. \A i \in UrlStop(ask) + 2 .. Len(piece) : piece[i] # u
      BY <1>2, <1>7, <2>2, <2>4
    <2> QED BY <2>1, <2>5
  <1>12. req' = Parsed(piece)
    <2>1. /\ Has(piece, " ") /\ substr(piece, 1, find(piece, <<" ">>, 1) - 1) = <<"GET">>
          /\ Has(piece, "/") /\ find(piece, <<" ", "HTTP">>, 1) = UrlStop(ask) + 1
      BY <1>2, <1>8, <1>9, RequestLine
    <2>2. UrlStop(ask) + 1 # npos
      <3>1. UrlStop(ask) \in Nat
        BY <1>2, StopsType
      <3> QED BY <3>1 DEF npos
    <2>3. find(piece, <<" ", "HTTP">>, 1) # npos
      BY <2>1, <2>2, Zenon
    <2>4. Understood(piece) = {Parsed(piece)}
      BY <1>10, <2>1, <2>3, Zenon DEF Understood
    <2> QED BY <1>4, <2>4
  <1>13. /\ Parsed(piece).vhost = ask.host /\ Parsed(piece).name = ask.name
         /\ Path(ask) = <<"/">> \o Parsed(piece).path \o <<"/">> \o Parsed(piece).name
         /\ "/" \notin Range(Parsed(piece).name) /\ "/" \notin Range(Parsed(piece).ext)
         /\ Parsed(piece).route = Route(Query(ask))
    BY <1>2, <1>8, <1>9, <1>11, ParsedIs
  <1>14. Route(Query(ask)) = ask.wants
    <2>1. ask.wants = Meant(ask.params)
      BY <1>2, RequestAssumption DEF AsksAssumption
    <2> QED BY <1>2, <2>1, RouteIs, Zenon
  <1> QED BY <1>12, <1>13, <1>14, Zenon

\* The channel, the file and the mode that are served are those that are asked
\* for, when the head of a plain request arrives in one read: parseGetRequest
\* and the mode parameter of handle_play are the inverse of what is written.
THEOREM WholeRequestIsUnderstoodHolds == Spec => WholeRequestIsUnderstood
  <1>1. IInv /\ [Next]_vars =>
            [Answered /\ taken = 0 /\ taken' >= HeadLength /\ Plain =>
               /\ req'.vhost = ask.host
               /\ "/" \notin Range(req'.name) /\ "/" \notin Range(req'.ext)
               /\ Path(ask) = <<"/">> \o req'.path \o <<"/">> \o req'.name
               /\ req'.route = ask.wants]_vars
    BY UnderstoodStep
  <1> QED BY <1>1, InvariantHolds, PTL DEF Spec, WholeRequestIsUnderstood
=============================================================================
