----------------------------- MODULE HttpProofs -----------------------------
(***************************************************************************)
(* The connection's buffer and the parser on it.  A Buffer is a queue of   *)
(* bytes, for every capacity, set of bytes and bound.  The parser finds    *)
(* the requests that were sent and answers all of them, for every script   *)
(* of messages and however their bytes are cut.                            *)
(***************************************************************************)
EXTENDS HttpServer, FiniteSetTheorems, SequenceTheorems, WellFoundedInduction, TLAPS

-----------------------------------------------------------------------------
(* The ring. *)

(* One round of the ring: all the sums and differences of its indices are   *)
(* below twice its size.                                                    *)
LEMMA OneRound ==
  ASSUME NEW s \in Nat \ {0}, NEW a \in 0..(2 * s - 1)
  PROVE  a % s = IF a < s THEN a ELSE a - s
<1>1. a % s \in 0..(s - 1)
  OBVIOUS
<1>2. CASE a < s
  BY <1>2
<1>3. CASE a >= s
  <2>1. a = s * 1 + (a - s) /\ a - s \in 0..(s - 1)
    BY <1>3
  <2> QED
    BY <2>1, <1>3
<1> QED
  BY <1>2, <1>3

(* The cell that is j further than cell w in a ring of s, and how far cell i *)
(* is from cell w, going up and round.                                      *)
Fwd(w, j, s) == (w + j) % s
Gap(w, i, s) == (i - w + s) % s

LEMMA GapIs ==
  ASSUME NEW s \in Nat \ {0}, NEW w \in 0..(s - 1), NEW i \in 0..(s - 1)
  PROVE  /\ Gap(w, i, s) = IF i >= w THEN i - w ELSE i - w + s
         /\ Gap(w, i, s) \in 0..(s - 1)
<1>1. i - w + s \in 0..(2 * s - 1)
  OBVIOUS
<1>2. Gap(w, i, s) = IF i - w + s < s THEN i - w + s ELSE (i - w + s) - s
  BY <1>1, OneRound DEF Gap
<1>3. (i - w + s < s <=> ~(i >= w)) /\ (i - w + s) - s = i - w
  OBVIOUS
<1>4. Gap(w, i, s) = IF i >= w THEN i - w ELSE i - w + s
  BY <1>2, <1>3
<1> QED
  BY <1>4

LEMMA FwdIs ==
  ASSUME NEW s \in Nat \ {0}, NEW w \in 0..(s - 1), NEW j \in 0..s
  PROVE  /\ Fwd(w, j, s) = IF w + j < s THEN w + j ELSE w + j - s
         /\ Fwd(w, j, s) \in 0..(s - 1)
<1> DEFINE a == w + j
<1>1. a \in 0..(2 * s - 1)
  OBVIOUS
<1> HIDE DEF a
<1>2. a % s = IF a < s THEN a ELSE a - s
  BY <1>1, OneRound
<1>3. Fwd(w, j, s) = IF w + j < s THEN w + j ELSE w + j - s
  BY <1>2 DEF a, Fwd
<1> QED
  BY <1>3

LEMMA GapOfFwd ==
  ASSUME NEW s \in Nat \ {0}, NEW w \in 0..(s - 1), NEW j \in 0..(s - 1)
  PROVE  Gap(w, Fwd(w, j, s), s) = j
<1> DEFINE p == Fwd(w, j, s)
<1>0. j \in 0..s
  OBVIOUS
<1>1. (p = IF w + j < s THEN w + j ELSE w + j - s) /\ p \in 0..(s - 1)
  BY <1>0, FwdIs
<1>2. Gap(w, p, s) = IF p >= w THEN p - w ELSE p - w + s
  BY <1>1, GapIs
<1> HIDE DEF p
<1>3. Gap(w, p, s) = j
  <2>1. CASE w + j < s
    BY <1>1, <1>2, <2>1
  <2>2. CASE ~(w + j < s)
    BY <1>1, <1>2, <2>2
  <2> QED
    BY <2>1, <2>2
<1> QED
  BY <1>3 DEF p

(* The cells that Put fills, and those it leaves. *)
LEMMA PutCells ==
  ASSUME NEW s \in Nat \ {0}, NEW c, NEW w \in 0..(s - 1), NEW d \in Seq(Bytes)
  PROVE  \A j \in 0..(s - 1) : Put(c, w, s, d)[Fwd(w, j, s)] =
                                  IF j < Len(d) THEN d[j + 1] ELSE c[Fwd(w, j, s)]
<1>1. Put(c, w, s, d) = [i \in 0..(s - 1) |-> IF Gap(w, i, s) < Len(d)
                                             THEN d[Gap(w, i, s) + 1] ELSE c[i]]
  BY DEF Put, Gap
<1>2. ASSUME NEW j \in 0..(s - 1)
      PROVE  Put(c, w, s, d)[Fwd(w, j, s)] = IF j < Len(d) THEN d[j + 1] ELSE c[Fwd(w, j, s)]
  <2>0. j \in 0..s
    OBVIOUS
  <2>1. Fwd(w, j, s) \in 0..(s - 1) /\ Gap(w, Fwd(w, j, s), s) = j
    BY <2>0, FwdIs, GapOfFwd
  <2> QED
    BY <1>1, <2>1
<1> QED
  BY <1>2

LEMMA PutType ==
  ASSUME NEW s \in Nat \ {0}, NEW w \in 0..(s - 1), NEW d \in Seq(Bytes),
         NEW c \in [0..(s - 1) -> Bytes]
  PROVE  Put(c, w, s, d) \in [0..(s - 1) -> Bytes]
<1>1. Put(c, w, s, d) = [i \in 0..(s - 1) |-> IF Gap(w, i, s) < Len(d)
                                             THEN d[Gap(w, i, s) + 1] ELSE c[i]]
  BY DEF Put, Gap
<1>2. ASSUME NEW i \in 0..(s - 1)
      PROVE  (IF Gap(w, i, s) < Len(d) THEN d[Gap(w, i, s) + 1] ELSE c[i]) \in Bytes
  <2> DEFINE k == Gap(w, i, s)
  <2>1. k \in 0..(s - 1)
    BY GapIs
  <2> HIDE DEF k
  <2>2. CASE k < Len(d)
    <3>1. k + 1 \in 1..Len(d)
      BY <2>1, <2>2
    <3>2. d[k + 1] \in Bytes
      BY <3>1
    <3> QED
      BY <2>2, <3>2 DEF k
  <2>3. CASE ~(k < Len(d))
    BY <2>3 DEF k
  <2> QED
    BY <2>2, <2>3
<1> QED
  BY <1>1, <1>2

-----------------------------------------------------------------------------
(* The content of a ring c of s cells that is read from r and written from w. *)
Held(c, r, w, s) == [i \in 1..Gap(r, w, s) |-> c[Fwd(r, i - 1, s)]]

LEMMA HeldType ==
  ASSUME NEW s \in Nat \ {0}, NEW r \in 0..(s - 1), NEW w \in 0..(s - 1),
         NEW c \in [0..(s - 1) -> Bytes]
  PROVE  /\ Held(c, r, w, s) \in Seq(Bytes)
         /\ Len(Held(c, r, w, s)) = Gap(r, w, s)
         /\ \A i \in 0..(Gap(r, w, s) - 1) : Held(c, r, w, s)[i + 1] = c[Fwd(r, i, s)]
<1> DEFINE n == Gap(r, w, s)
           h == Held(c, r, w, s)
<1>1. n \in 0..(s - 1)
  BY GapIs
<1>2. h = [i \in 1..n |-> c[Fwd(r, i - 1, s)]]
  BY DEF Held
<1> HIDE DEF n, h
<1>3. ASSUME NEW i \in 1..n PROVE c[Fwd(r, i - 1, s)] \in Bytes
  <2>1. i - 1 \in 0..s
    BY <1>1
  <2> QED
    BY <2>1, FwdIs
<1>4. h \in [1..n -> Bytes]
  BY <1>2, <1>3
<1>5. h \in Seq(Bytes) /\ Len(h) = n
  BY <1>1, <1>4
<1>6. ASSUME NEW i \in 0..(n - 1) PROVE h[i + 1] = c[Fwd(r, i, s)]
  <2>1. i + 1 \in 1..n /\ (i + 1) - 1 = i
    BY <1>1
  <2> QED
    BY <2>1, <1>2
<1> QED
  BY <1>5, <1>6 DEF n, h

(* The ring c of s cells, read from r and written from w, holds q. *)
Holds(c, r, w, s, q) == /\ Gap(r, w, s) = Len(q)
                        /\ \A j \in 0..(Len(q) - 1) : c[Fwd(r, j, s)] = q[j + 1]

LEMMA ContentHeld ==
  ASSUME BufferTypeOK
  PROVE  /\ Content = Held(cells, readIndex, writeIndex, size)
         /\ ReadableSize = Gap(readIndex, writeIndex, size)
         /\ ReadableSize \in 0..(size - 1)
         /\ Content \in Seq(Bytes) /\ Len(Content) = ReadableSize
         /\ \A i \in 0..(ReadableSize - 1) : /\ Content[i + 1] = Unread(i)
                                             /\ Unread(i) = cells[Fwd(readIndex, i, size)]
         /\ Holds(cells, readIndex, writeIndex, size, Content)
<1>1. /\ size \in Nat \ {0} /\ readIndex \in 0..(size - 1) /\ writeIndex \in 0..(size - 1)
      /\ cells \in [0..(size - 1) -> Bytes]
  BY DEF BufferTypeOK
<1>2. ReadableSize = Gap(readIndex, writeIndex, size) /\ Content = Held(cells, readIndex, writeIndex, size)
  BY DEF ReadableSize, Content, Held, Unread, Gap, Fwd
<1>3. \A i : Unread(i) = cells[Fwd(readIndex, i, size)]
  BY DEF Unread, Fwd
<1>4. /\ Gap(readIndex, writeIndex, size) \in 0..(size - 1)
      /\ Content \in Seq(Bytes) /\ Len(Content) = ReadableSize
      /\ \A i \in 0..(ReadableSize - 1) : Content[i + 1] = cells[Fwd(readIndex, i, size)]
  BY <1>1, <1>2, HeldType, GapIs DEF Holds
<1> QED
  BY <1>1, <1>2, <1>3, <1>4, HeldType DEF Holds

(* How the next state is shown to be one of a certain content. *)
LEMMA NextContent ==
  ASSUME BufferTypeOK', NEW q \in Seq(Bytes),
         Holds(cells', readIndex', writeIndex', size', q)
  PROVE  Content' = q
<1> DEFINE h == Held(cells', readIndex', writeIndex', size')
<1>1. /\ size' \in Nat \ {0} /\ readIndex' \in 0..(size' - 1) /\ writeIndex' \in 0..(size' - 1)
      /\ cells' \in [0..(size' - 1) -> Bytes]
  BY DEF BufferTypeOK
<1>2. /\ h \in Seq(Bytes) /\ Len(h) = Len(q)
      /\ \A i \in 0..(Len(q) - 1) : h[i + 1] = cells'[Fwd(readIndex', i, size')]
  BY <1>1, HeldType DEF Holds
<1>3. Content' = h
  BY DEF Content, ReadableSize, Unread, Held, Gap, Fwd
<1> HIDE DEF h
<1>4. ASSUME NEW i \in 1..Len(q) PROVE h[i] = q[i]
  <2>1. i - 1 \in 0..(Len(q) - 1) /\ (i - 1) + 1 = i
    OBVIOUS
  <2> QED
    BY <1>2, <2>1 DEF Holds
<1>5. h = q
  BY <1>2, <1>4, SeqEqual
<1> QED
  BY <1>3, <1>5

-----------------------------------------------------------------------------
(* Writing the bytes d into a ring that holds q, where they fit. *)
LEMMA PutAppends ==
  ASSUME NEW s \in Nat \ {0}, NEW r \in 0..(s - 1), NEW w \in 0..(s - 1),
         NEW c, NEW q \in Seq(Bytes), NEW d \in Seq(Bytes),
         Holds(c, r, w, s, q), Len(q) + Len(d) < s
  PROVE  /\ Fwd(w, Len(d), s) \in 0..(s - 1)
         /\ Holds(Put(c, w, s, d), r, Fwd(w, Len(d), s), s, q \o d)
<1> DEFINE n == Len(q)
           L == Len(d)
           e == Fwd(w, L, s)
           qd == q \o d
<1>1. n \in Nat /\ L \in Nat /\ n + L <= s - 1 /\ L \in 0..s
  OBVIOUS
<1>2. n = IF w >= r THEN w - r ELSE w - r + s
  BY GapIs DEF Holds
<1>3. (e = IF w + L < s THEN w + L ELSE w + L - s) /\ e \in 0..(s - 1)
  BY <1>1, FwdIs
<1>4. Gap(r, e, s) = n + L
  <2>1. Gap(r, e, s) = IF e >= r THEN e - r ELSE e - r + s
    BY <1>3, GapIs
  <2> HIDE DEF n, L, e
  <2>2. (IF e >= r THEN e - r ELSE e - r + s) = n + L
    BY <1>1, <1>2, <1>3
  <2> QED
    BY <2>1, <2>2
<1>5. /\ Len(qd) = n + L
      /\ \A i \in 1..(n + L) : qd[i] = IF i <= n THEN q[i] ELSE d[i - n]
  BY ConcatProperties
<1>6. \A i \in 0..(n - 1) : c[Fwd(r, i, s)] = q[i + 1]
  BY DEF Holds
<1>7. \A j \in 0..(s - 1) :
        Put(c, w, s, d)[Fwd(w, j, s)] = IF j < L THEN d[j + 1] ELSE c[Fwd(w, j, s)]
  BY PutCells
<1> HIDE DEF n, L, e, qd
(* Byte j lies j - n cells from the write index, going up and round. *)
<1>8. ASSUME NEW j \in 0..(n + L - 1)
      PROVE  Put(c, w, s, d)[Fwd(r, j, s)] = qd[j + 1]
  <2> DEFINE m == IF j < n THEN j - n + s ELSE j - n
  <2>1. m = IF j < n THEN j - n + s ELSE j - n
    OBVIOUS
  <2> HIDE DEF m
  <2>2. m \in 0..(s - 1) /\ (m < L <=> j >= n) /\ j \in 0..s /\ m \in 0..s
    <3>1. CASE j < n
      BY <2>1, <3>1, <1>1
    <3>2. CASE ~(j < n)
      BY <2>1, <3>2, <1>1
    <3> QED
      BY <3>1, <3>2
  <2>3. Fwd(r, j, s) = Fwd(w, m, s)
    <3>1. Fwd(r, j, s) = IF r + j < s THEN r + j ELSE r + j - s
      BY <2>2, FwdIs
    <3>2. Fwd(w, m, s) = IF w + m < s THEN w + m ELSE w + m - s
      BY <2>2, FwdIs
    <3>3. (IF r + j < s THEN r + j ELSE r + j - s) = (IF w + m < s THEN w + m ELSE w + m - s)
      BY <1>1, <1>2, <2>1, <2>2
    <3> QED
      BY <3>1, <3>2, <3>3
  <2>4. Put(c, w, s, d)[Fwd(w, m, s)] = IF m < L THEN d[m + 1] ELSE c[Fwd(w, m, s)]
    BY <1>7, <2>2
  <2>5. CASE j < n
    <3>1. ~(m < L) /\ j \in 0..(n - 1) /\ j + 1 \in 1..(n + L) /\ j + 1 <= n
      BY <2>2, <2>5, <1>1
    <3>2. Put(c, w, s, d)[Fwd(r, j, s)] = c[Fwd(r, j, s)]
      BY <3>1, <2>3, <2>4
    <3> QED
      BY <3>1, <3>2, <1>5, <1>6
  <2>6. CASE ~(j < n)
    <3>1. /\ m < L /\ m = j - n
          /\ j + 1 \in 1..(n + L) /\ ~(j + 1 <= n) /\ (j + 1) - n = (j - n) + 1
      BY <2>1, <2>2, <2>6, <1>1
    <3>2. Put(c, w, s, d)[Fwd(r, j, s)] = d[(j - n) + 1]
      BY <3>1, <2>3, <2>4
    <3>3. qd[j + 1] = d[(j + 1) - n]
      BY <3>1, <1>5
    <3> QED
      BY <3>1, <3>2, <3>3
  <2> QED
    BY <2>5, <2>6
<1>9. \A j \in 0..(Len(qd) - 1) : Put(c, w, s, d)[Fwd(r, j, s)] = qd[j + 1]
  BY <1>1, <1>5, <1>8
<1> QED
  BY <1>3, <1>4, <1>5, <1>9 DEF Holds, n, L, e, qd

LEMMA WriteInPlaceStep ==
  ASSUME BufferTypeOK, NEW d \in Seq(Bytes), WriteInPlace(d)
  PROVE  BufferTypeOK' /\ Content' = Content \o d
<1>1. /\ size \in Nat \ {0} /\ size \in Nat \ {0, 1}
      /\ readIndex \in 0..(size - 1) /\ writeIndex \in 0..(size - 1)
      /\ cells \in [0..(size - 1) -> Bytes]
  BY DEF BufferTypeOK
<1>2. Content \in Seq(Bytes) /\ Holds(cells, readIndex, writeIndex, size, Content)
  BY ContentHeld
<1>3. Len(Content) + Len(d) < size
  BY <1>1, ContentHeld DEF WriteInPlace, WriteableSize
<1>4. /\ readIndex' = readIndex /\ size' = size /\ answer' = <<>> /\ ok' = TRUE
      /\ cells' = Put(cells, writeIndex, size, d)
      /\ writeIndex' = Fwd(writeIndex, Len(d), size)
  BY DEF WriteInPlace, Fwd
<1>5. /\ writeIndex' \in 0..(size - 1)
      /\ Holds(cells', readIndex', writeIndex', size', Content \o d)
  BY <1>1, <1>2, <1>3, <1>4, PutAppends
<1>6. cells' \in [0..(size - 1) -> Bytes]
  BY <1>1, <1>4, PutType
<1>7. BufferTypeOK'
  BY <1>1, <1>4, <1>5, <1>6 DEF BufferTypeOK
<1>8. Content \o d \in Seq(Bytes)
  BY <1>2
<1> QED
  BY <1>5, <1>7, <1>8, NextContent

(* A ring that grows is large enough for what it holds and what is written. *)
LEMMA NewSizeFits ==
  ASSUME BufferTypeOK, NEW d \in Seq(Bytes), Len(d) > WriteableSize
  PROVE  /\ NewSize(Len(d)) \in Nat \ {0, 1} /\ NewSize(Len(d)) >= size
         /\ ReadableSize + Len(d) < NewSize(Len(d))
<1> DEFINE n == ReadableSize
           L == Len(d)
<1>1. n \in 0..(size - 1) /\ size \in Nat \ {0, 1} /\ L \in Nat
  BY ContentHeld DEF BufferTypeOK
<1>2. NewSize(L) = IF size - n - 1 + size < L THEN size * 2 + L ELSE size * 2
  BY DEF NewSize, WriteableSize
<1> HIDE DEF n, L
<1>3. /\ NewSize(L) \in Nat \ {0, 1} /\ NewSize(L) >= size
      /\ n + L < NewSize(L)
  BY <1>1, <1>2
<1> QED
  BY <1>3 DEF n, L

LEMMA WriteGrownStep ==
  ASSUME BufferTypeOK, BufferAssumption, NEW d \in Seq(Bytes), WriteGrown(d)
  PROVE  BufferTypeOK' /\ Content' = Content \o d
<1> DEFINE n == ReadableSize
           s == NewSize(Len(d))
           b == [i \in 0..(s - 1) |-> IF i < n THEN Unread(i) ELSE Zero]
<1>1. /\ s \in Nat \ {0} /\ s \in Nat \ {0, 1} /\ s >= size /\ n + Len(d) < s
  BY NewSizeFits DEF WriteGrown
<1>2. /\ cells' = Put(b, n, s, d) /\ size' = s /\ writeIndex' = Fwd(n, Len(d), s)
      /\ readIndex' = 0 /\ answer' = <<>> /\ ok' = TRUE
  BY DEF WriteGrown, Fwd
<1>3. /\ Content \in Seq(Bytes) /\ Len(Content) = n /\ n \in Nat
      /\ \A i \in 0..(n - 1) : Content[i + 1] = Unread(i)
  BY ContentHeld
<1>4. /\ b \in [0..(s - 1) -> Bytes]
      /\ \A i \in 0..(n - 1) : b[i] = Content[i + 1]
  <2>1. ASSUME NEW i \in 0..(s - 1) PROVE (IF i < n THEN Unread(i) ELSE Zero) \in Bytes
    <3>1. CASE i < n
      <4>1. i \in 0..(n - 1) /\ i + 1 \in 1..Len(Content)
        BY <3>1, <1>3
      <4>2. Content[i + 1] \in Bytes
        BY <4>1, <1>3
      <4> QED
        BY <3>1, <4>1, <4>2, <1>3
    <3>2. CASE ~(i < n)
      BY <3>2 DEF BufferAssumption
    <3> QED
      BY <3>1, <3>2
  <2>2. ASSUME NEW i \in 0..(n - 1) PROVE i \in 0..(s - 1) /\ i < n
    BY <1>1, <1>3
  <2> QED
    BY <2>1, <2>2, <1>3
<1>5. Content \o d \in Seq(Bytes)
  BY <1>3
<1> HIDE DEF n, s, b
<1>6. 0 \in 0..(s - 1) /\ n \in 0..(s - 1) /\ Len(Content) + Len(d) < s
  BY <1>1, <1>3
<1>7. Holds(b, 0, n, s, Content)
  <2>1. Gap(0, n, s) = IF n >= 0 THEN n - 0 ELSE n - 0 + s
    BY <1>1, <1>6, GapIs
  <2>2. ASSUME NEW j \in 0..(Len(Content) - 1) PROVE b[Fwd(0, j, s)] = Content[j + 1]
    <3>1. j \in 0..s /\ j \in 0..(n - 1) /\ 0 + j < s /\ 0 + j = j
      BY <1>1, <1>3
    <3>2. Fwd(0, j, s) = IF 0 + j < s THEN 0 + j ELSE 0 + j - s
      BY <1>1, <1>6, <3>1, FwdIs
    <3> QED
      BY <1>4, <3>1, <3>2
  <2> QED
    BY <1>3, <2>1, <2>2 DEF Holds
<1>8. /\ writeIndex' \in 0..(s - 1)
      /\ Holds(cells', readIndex', writeIndex', size', Content \o d)
  BY <1>1, <1>2, <1>3, <1>6, <1>7, PutAppends
<1>9. cells' \in [0..(s - 1) -> Bytes]
  BY <1>1, <1>2, <1>4, <1>6, PutType
<1>10. BufferTypeOK'
  BY <1>1, <1>2, <1>6, <1>8, <1>9 DEF BufferTypeOK
<1> QED
  BY <1>5, <1>8, <1>10, NextContent

-----------------------------------------------------------------------------
(* Reading. *)
LEMMA AdvanceStep ==
  ASSUME BufferTypeOK, NEW n \in 0..ReadableSize, NEW k \in 0..ReadableSize, Advance(n, k)
  PROVE  /\ BufferTypeOK'
         /\ Content' = SubSeq(Content, n + 1, Len(Content))
         /\ answer' = SubSeq(Content, 1, k)
<1> DEFINE m == ReadableSize
           e == Fwd(readIndex, n, size)
           q == SubSeq(Content, n + 1, Len(Content))
           a == SubSeq(Content, 1, k)
<1>1. /\ size \in Nat \ {0} /\ size \in Nat \ {0, 1}
      /\ readIndex \in 0..(size - 1) /\ writeIndex \in 0..(size - 1)
      /\ cells \in [0..(size - 1) -> Bytes]
  BY DEF BufferTypeOK
<1>2. /\ Content \in Seq(Bytes) /\ Len(Content) = m
      /\ m = Gap(readIndex, writeIndex, size) /\ m \in 0..(size - 1)
      /\ \A i \in 0..(m - 1) : /\ Content[i + 1] = Unread(i)
                              /\ Unread(i) = cells[Fwd(readIndex, i, size)]
  BY ContentHeld
<1>3. /\ answer' = [i \in 1..k |-> Unread(i - 1)] /\ ok' = TRUE
      /\ readIndex' = e /\ cells' = cells /\ writeIndex' = writeIndex /\ size' = size
  BY DEF Advance, Fwd
<1>4. n \in 0..m /\ k \in 0..m
  OBVIOUS
<1>5. q \in Seq(Bytes) /\ Len(q) = m - n /\ \A i \in 1..(m - n) : q[i] = Content[n + i]
  <2>1. n + 1 \in 1..(Len(Content) + 1) /\ Len(Content) \in 0..Len(Content)
    BY <1>2, <1>4
  <2>2. SubSeq(Content, n + 1, Len(Content)) \in Seq(Bytes)
    BY <1>2, <1>4, <2>1, SubSeqProperties
  <2>3. Len(SubSeq(Content, n + 1, Len(Content))) = m - n
    BY <1>2, <1>4, <2>1, SubSeqProperties
  <2>4. \A i \in 1..(m - n) : SubSeq(Content, n + 1, Len(Content))[i] = Content[n + i]
    BY <1>2, <1>4, <2>1, <2>3, SubSeqProperties
  <2> QED
    BY <2>2, <2>3, <2>4
<1>6. a \in Seq(Bytes) /\ Len(a) = k /\ \A i \in 1..k : a[i] = Content[i]
  BY <1>2, <1>4, SubSeqProperties
<1> HIDE DEF m, q, a, e
<1>7. n \in 0..size /\ n < size
  BY <1>1, <1>2, <1>4
<1>8. (e = IF readIndex + n < size THEN readIndex + n ELSE readIndex + n - size) /\ e \in 0..(size - 1)
  BY <1>1, <1>7, FwdIs DEF e
<1>9. m = IF writeIndex >= readIndex THEN writeIndex - readIndex ELSE writeIndex - readIndex + size
  BY <1>1, <1>2, GapIs
<1>10. Holds(cells, e, writeIndex, size, q)
  <2>1. Gap(e, writeIndex, size) = m - n
    <3>1. Gap(e, writeIndex, size) = IF writeIndex >= e THEN writeIndex - e ELSE writeIndex - e + size
      BY <1>1, <1>8, GapIs
    <3>2. (IF writeIndex >= e THEN writeIndex - e ELSE writeIndex - e + size) = m - n
      BY <1>1, <1>2, <1>4, <1>8, <1>9
    <3> QED
      BY <3>1, <3>2
  <2>2. ASSUME NEW j \in 0..(m - n - 1) PROVE cells[Fwd(e, j, size)] = q[j + 1]
    <3>1. /\ j \in 0..size /\ n + j \in 0..size /\ n + j \in 0..(m - 1)
          /\ j + 1 \in 1..(m - n) /\ n + (j + 1) = (n + j) + 1
      BY <1>1, <1>2, <1>4
    <3>2. Fwd(e, j, size) = IF e + j < size THEN e + j ELSE e + j - size
      BY <1>1, <1>8, <3>1, FwdIs
    <3>3. Fwd(readIndex, n + j, size) = IF readIndex + (n + j) < size THEN readIndex + (n + j)
                                        ELSE readIndex + (n + j) - size
      BY <1>1, <3>1, FwdIs
    <3>4. (IF e + j < size THEN e + j ELSE e + j - size) =
          IF readIndex + (n + j) < size THEN readIndex + (n + j) ELSE readIndex + (n + j) - size
      BY <1>1, <1>2, <1>4, <1>8, <3>1
    <3>5. Fwd(e, j, size) = Fwd(readIndex, n + j, size)
      BY <3>2, <3>3, <3>4
    <3>6. q[j + 1] = Content[(n + j) + 1]
      BY <1>5, <3>1
    <3>7. Content[(n + j) + 1] = cells[Fwd(readIndex, n + j, size)]
      BY <1>2, <3>1
    <3> QED
      BY <3>5, <3>6, <3>7
  <2> QED
    BY <1>2, <1>4, <1>5, <2>1, <2>2 DEF Holds
<1>11. answer' = a
  <2>1. ASSUME NEW i \in 1..k PROVE Unread(i - 1) = a[i]
    <3>1. i - 1 \in 0..(m - 1) /\ (i - 1) + 1 = i
      BY <1>2, <1>4
    <3> QED
      BY <3>1, <1>2, <1>6
  <2>2. a = [i \in 1..k |-> a[i]]
    BY <1>6
  <2> QED
    BY <1>3, <2>1, <2>2
<1>12. BufferTypeOK'
  BY <1>1, <1>3, <1>6, <1>8, <1>11 DEF BufferTypeOK
<1>13. Content' = q
  BY <1>3, <1>5, <1>10, <1>12, NextContent
<1> QED
  BY <1>11, <1>12, <1>13 DEF q, a

-----------------------------------------------------------------------------
LEMMA InitStep ==
  ASSUME BufferAssumption, BufferInit
  PROVE  BufferTypeOK /\ Content = <<>>
<1>1. /\ size = Capacity + 1 /\ cells = [i \in 0..Capacity |-> Zero]
      /\ readIndex = 0 /\ writeIndex = 0 /\ answer = <<>> /\ ok = TRUE
      /\ Capacity \in Nat \ {0} /\ Zero \in Bytes
  BY DEF BufferInit, BufferAssumption
<1>2. BufferTypeOK
  <2>1. size - 1 = Capacity /\ size \in Nat \ {0, 1}
    BY <1>1
  <2>2. answer \in Seq(Bytes) /\ ok \in BOOLEAN
    BY <1>1
  <2> QED
    BY <1>1, <2>1, <2>2 DEF BufferTypeOK
<1>3. ReadableSize = 0
  <2>1. Gap(readIndex, writeIndex, size) = IF writeIndex >= readIndex THEN writeIndex - readIndex
                                           ELSE writeIndex - readIndex + size
    BY <1>2, GapIs DEF BufferTypeOK
  <2> QED
    BY <1>1, <1>2, <2>1, ContentHeld
<1>4. Content \in Seq(Bytes) /\ Len(Content) = 0
  BY <1>2, <1>3, ContentHeld
<1> QED
  BY <1>2, <1>4, EmptySeq

LEMMA ClearStep ==
  ASSUME BufferTypeOK, Clear
  PROVE  BufferTypeOK' /\ Content' = <<>>
<1>1. /\ size \in Nat \ {0} /\ size \in Nat \ {0, 1} /\ 0 \in 0..(size - 1)
      /\ cells \in [0..(size - 1) -> Bytes]
  BY DEF BufferTypeOK
<1>2. /\ readIndex' = 0 /\ writeIndex' = 0 /\ size' = size /\ cells' = cells
      /\ answer' = <<>> /\ ok' = TRUE
  BY DEF Clear
<1>3. BufferTypeOK'
  BY <1>1, <1>2 DEF BufferTypeOK
<1>4. Holds(cells', readIndex', writeIndex', size', <<>>)
  <2>1. Gap(0, 0, size) = IF 0 >= 0 THEN 0 - 0 ELSE 0 - 0 + size
    BY <1>1, GapIs
  <2>2. Len(<<>>) = 0 /\ 0..(Len(<<>>) - 1) = {}
    OBVIOUS
  <2> QED
    BY <1>2, <2>1, <2>2 DEF Holds
<1>5. <<>> \in Seq(Bytes)
  OBVIOUS
<1> QED
  BY <1>3, <1>4, <1>5, NextContent

LEMMA FailsStep ==
  ASSUME BufferTypeOK, Fails
  PROVE  BufferTypeOK' /\ Content' = Content
<1>1. /\ cells' = cells /\ readIndex' = readIndex /\ writeIndex' = writeIndex /\ size' = size
      /\ answer' = <<>> /\ ok' = FALSE
  BY DEF Fails
<1>2. Content' = Content
  BY <1>1 DEF Content, ReadableSize, Unread
<1>3. answer' \in Seq(Bytes)
  BY <1>1
<1>4. ok' \in BOOLEAN
  BY <1>1
<1> QED
  BY <1>1, <1>2, <1>3, <1>4 DEF BufferTypeOK

(* Each call of a Buffer is that call of a queue. *)
LEMMA CallStep ==
  ASSUME BufferTypeOK, BufferAssumption, BufferNext
  PROVE  BufferTypeOK' /\ Queue!Next
<1>1. /\ Content \in Seq(Bytes) /\ Len(Content) = ReadableSize /\ ReadableSize \in Nat
      /\ \A i \in 0..(ReadableSize - 1) : Content[i + 1] = Unread(i)
  BY ContentHeld DEF BufferTypeOK
<1>2. ASSUME NEW d \in Seq(Bytes), Write(d) \/ WriteFails(d)
      PROVE  BufferTypeOK' /\ Queue!Next
  <2>1. call' = <<"write", d>>
    BY <1>2 DEF Write, WriteFails
  <2>2. CASE WriteInPlace(d) \/ WriteGrown(d)
    <3>1. BufferTypeOK' /\ Content' = Content \o d
      BY <2>2, WriteInPlaceStep, WriteGrownStep
    <3>2. answer' = <<>> /\ ok' = TRUE
      BY <2>2 DEF WriteInPlace, WriteGrown
    <3>3. Queue!Write(d)
      BY <3>1, <3>2 DEF Queue!Write
    <3> QED
      BY <2>1, <3>1, <3>3 DEF Queue!Next
  <2>3. CASE Fails
    <3>1. BufferTypeOK' /\ Content' = Content
      BY <2>3, FailsStep
    <3>2. Queue!Write(d)
      BY <2>3, <3>1 DEF Fails, Queue!Write, Queue!Fail
    <3> QED
      BY <2>1, <3>1, <3>2 DEF Queue!Next
  <2> QED
    BY <1>2, <2>2, <2>3 DEF Write, WriteFails
<1>3. ASSUME NEW n \in Nat, Read(n)
      PROVE  BufferTypeOK' /\ Queue!Next
  <2>1. call' = <<"read", n>>
    BY <1>3 DEF Read
  <2>2. CASE n <= ReadableSize /\ Advance(n, n)
    <3>1. n \in 0..ReadableSize
      BY <1>1, <2>2
    <3>2. /\ BufferTypeOK' /\ Content' = SubSeq(Content, n + 1, Len(Content))
          /\ answer' = SubSeq(Content, 1, n)
      BY <2>2, <3>1, AdvanceStep
    <3>3. Queue!Read(n)
      BY <1>1, <2>2, <3>2 DEF Advance, Queue!Read, Queue!Take
    <3> QED
      BY <2>1, <3>2, <3>3 DEF Queue!Next
  <2>3. CASE n > ReadableSize /\ Fails
    <3>1. BufferTypeOK' /\ Content' = Content
      BY <2>3, FailsStep
    <3>2. Queue!Read(n)
      BY <1>1, <2>3, <3>1 DEF Fails, Queue!Read, Queue!Fail
    <3> QED
      BY <2>1, <3>1, <3>2 DEF Queue!Next
  <2> QED
    BY <1>3, <2>2, <2>3 DEF Read
<1>4. ASSUME NEW n \in Nat, MoveReadIndex(n)
      PROVE  BufferTypeOK' /\ Queue!Next
  <2>1. call' = <<"skip", n>>
    BY <1>4 DEF MoveReadIndex
  <2>2. CASE n <= ReadableSize /\ Advance(n, 0)
    <3>1. n \in 0..ReadableSize /\ 0 \in 0..ReadableSize
      BY <1>1, <2>2
    <3>2. /\ BufferTypeOK' /\ Content' = SubSeq(Content, n + 1, Len(Content))
          /\ answer' = SubSeq(Content, 1, 0)
      BY <2>2, <3>1, AdvanceStep
    <3>3. Queue!Skip(n)
      BY <1>1, <2>2, <3>2 DEF Advance, Queue!Skip, Queue!Take
    <3> QED
      BY <2>1, <3>2, <3>3 DEF Queue!Next
  <2>3. CASE n > ReadableSize /\ Fails
    <3>1. BufferTypeOK' /\ Content' = Content
      BY <2>3, FailsStep
    <3>2. Queue!Skip(n)
      BY <1>1, <2>3, <3>1 DEF Fails, Queue!Skip, Queue!Fail
    <3> QED
      BY <2>1, <3>1, <3>2 DEF Queue!Next
  <2> QED
    BY <1>4, <2>2, <2>3 DEF MoveReadIndex
<1>5. ASSUME NEW all \in BOOLEAN, ReadLine(all)
      PROVE  BufferTypeOK' /\ Queue!Next
  <2>1. call' = <<"line", all>>
    BY <1>5 DEF ReadLine
  <2>2. ASSUME NEW n \in 0..(ReadableSize - 1), Unread(n) = Newline,
               \A i \in 0..(n - 1) : Unread(i) # Newline, Advance(n + 1, n)
        PROVE  BufferTypeOK' /\ Queue!ReadLine(all)
    <3>1. /\ n + 1 \in 0..ReadableSize /\ n \in 0..ReadableSize
          /\ n + 1 \in 1..Len(Content) /\ (n + 1) - 1 = n
      BY <1>1
    <3>2. /\ BufferTypeOK' /\ Content' = SubSeq(Content, (n + 1) + 1, Len(Content))
          /\ answer' = SubSeq(Content, 1, n)
      BY <2>2, <3>1, AdvanceStep
    <3>3. Content[n + 1] = Newline
      BY <1>1, <2>2
    <3>4. ASSUME NEW i \in 1..n PROVE Content[i] # Newline
      <4>1. i - 1 \in 0..(n - 1) /\ i - 1 \in 0..(ReadableSize - 1) /\ (i - 1) + 1 = i
        BY <1>1
      <4> QED
        BY <1>1, <2>2, <4>1
    <3>5. Queue!Take(n + 1, n)
      BY <2>2, <3>2 DEF Advance, Queue!Take
    <3> QED
      BY <3>1, <3>2, <3>3, <3>4, <3>5 DEF Queue!ReadLine
  <2>3. ASSUME \A i \in 0..(ReadableSize - 1) : Unread(i) # Newline,
               Advance(IF all THEN ReadableSize ELSE 0, IF all THEN ReadableSize ELSE 0)
        PROVE  BufferTypeOK' /\ Queue!ReadLine(all)
    <3> DEFINE n == IF all THEN ReadableSize ELSE 0
    <3>1. n \in 0..ReadableSize
      BY <1>1
    <3>2. Advance(n, n)
      BY <2>3
    <3> HIDE DEF n
    <3>3. /\ BufferTypeOK' /\ Content' = SubSeq(Content, n + 1, Len(Content))
          /\ answer' = SubSeq(Content, 1, n)
      BY <3>1, <3>2, AdvanceStep
    <3>4. ASSUME NEW i \in 1..Len(Content) PROVE Content[i] # Newline
      <4>1. i - 1 \in 0..(ReadableSize - 1) /\ (i - 1) + 1 = i
        BY <1>1
      <4> QED
        BY <1>1, <2>3, <4>1
    <3>5. Queue!Take(n, n)
      BY <3>2, <3>3 DEF Advance, Queue!Take
    <3>6. IF all THEN Queue!Take(Len(Content), Len(Content)) ELSE Queue!Take(0, 0)
      BY <1>1, <3>5 DEF n
    <3> QED
      BY <3>3, <3>4, <3>6 DEF Queue!ReadLine
  <2>4. BufferTypeOK' /\ Queue!ReadLine(all)
    BY <1>5, <2>2, <2>3 DEF ReadLine
  <2> QED
    BY <2>1, <2>4 DEF Queue!Next
<1>6. ASSUME Clear
      PROVE  BufferTypeOK' /\ Queue!Next
  <2>1. BufferTypeOK' /\ Content' = <<>>
    BY <1>6, ClearStep
  <2> QED
    BY <1>6, <2>1 DEF Clear, Queue!Next, Queue!Clear
<1> QED
  BY <1>2, <1>3, <1>4, <1>5, <1>6 DEF BufferNext

(* The indices stay within the vector and the vector keeps its size, through *)
(* every write, growth, read and clearing (buffer.cpp).                      *)
THEOREM BufferTypeCorrect == BufferSpec => []BufferTypeOK
<1>1. BufferInit => BufferTypeOK
  BY BufferAssumption, InitStep
<1>2. BufferTypeOK /\ [BufferNext]_bufferVars => BufferTypeOK'
  <2> SUFFICES ASSUME BufferTypeOK, [BufferNext]_bufferVars
               PROVE  BufferTypeOK'
    OBVIOUS
  <2>1. CASE BufferNext
    BY <2>1, BufferAssumption, CallStep
  <2>2. CASE UNCHANGED bufferVars
    BY <2>2 DEF bufferVars, BufferTypeOK
  <2> QED
    BY <2>1, <2>2
<1> QED
  BY <1>1, <1>2, PTL DEF BufferSpec

(* A Buffer is a queue of bytes: what is read is what was written, in its    *)
(* order, wherever the indices stand and whenever the vector grew.           *)
THEOREM BufferIsQueue == BufferSpec => ImplementsByteQueue
<1>1. BufferInit => Queue!Init
  <2> SUFFICES ASSUME BufferInit
               PROVE  Queue!Init
    OBVIOUS
  <2>1. Content = <<>>
    BY BufferAssumption, InitStep
  <2> QED
    BY <2>1 DEF BufferInit, Queue!Init
<1>2. BufferTypeOK /\ [BufferNext]_bufferVars => [Queue!Next]_(Queue!queueVars)
  <2> SUFFICES ASSUME BufferTypeOK, [BufferNext]_bufferVars
               PROVE  [Queue!Next]_(Queue!queueVars)
    OBVIOUS
  <2>1. CASE BufferNext
    BY <2>1, BufferAssumption, CallStep
  <2>2. CASE UNCHANGED bufferVars
    BY <2>2 DEF bufferVars, Queue!queueVars, Content, ReadableSize, Unread
  <2> QED
    BY <2>1, <2>2
<1> QED
  BY <1>1, <1>2, BufferTypeCorrect, PTL DEF BufferSpec, ImplementsByteQueue, Queue!Spec

-----------------------------------------------------------------------------
(* Induction over numbers, from the well-founded order of finite sets. *)

(* Every set of numbers has a least. *)
LEMMA LeastOf ==
  ASSUME NEW S \in SUBSET Nat, S # {}
  PROVE  \E n \in S : \A m \in S : n <= m
<1> DEFINE T == {0..n : n \in S}
<1>1. \A n \in S : 0..n \in SUBSET Nat /\ IsFiniteSet(0..n)
  BY FS_Interval
<1>2. T \subseteq FiniteSubsetsOf(Nat) /\ T # {}
  BY <1>1 DEF FiniteSubsetsOf
<1>3. PICK X \in T : \A Y \in T : ~(<<Y, X>> \in StrictSubsetOrdering(Nat))
  BY <1>2, FS_StrictSubsetOrderingWellFounded, WFMin, Zenon
<1>4. PICK n \in S : X = 0..n
  OBVIOUS
<1>5. ASSUME NEW m \in S, m < n PROVE FALSE
  <2>1. 0..m \in T /\ 0..m \subseteq 0..n /\ 0..m # 0..n
    <3>1. n \in 0..n /\ n \notin 0..m
      BY <1>5
    <3> QED BY <1>5, <3>1
  <2> QED BY <2>1, <1>1, <1>3, <1>4 DEF StrictSubsetOrdering
<1> QED BY <1>5

(* A set that holds 0 and with a number the next holds them all. *)
LEMMA SetInduction ==
  ASSUME NEW S \in SUBSET Nat, 0 \in S, \A n \in S : n + 1 \in S
  PROVE  S = Nat
<1> SUFFICES ASSUME S # Nat PROVE FALSE
  OBVIOUS
<1>1. PICK n \in Nat \ S : \A m \in Nat \ S : n <= m
  BY LeastOf
<1>2. n # 0 /\ n - 1 \in Nat
  BY <1>1
<1>3. n - 1 \in S
  BY <1>1, <1>2
<1> QED BY <1>1, <1>2, <1>3

-----------------------------------------------------------------------------
(* What follows the first parts of a text made of parts. *)

(* w is a and then b. *)
Joins(w, a, b) == w = a \o b

(* r[i] is what the parts from i on come to. *)
IsTails(S, r, ss) == /\ r \in [1..(Len(ss) + 1) -> Seq(S)] /\ r[Len(ss) + 1] = <<>>
                     /\ \A i \in 1..Len(ss) : r[i] = ss[i] \o r[i + 1]

(* f[i] is what the first i parts come to; it is how FlattenSeq counts. *)
Upto(f, ss, n) == f = [i \in 1..n |-> IF i = 1 THEN ss[i] ELSE f[i - 1] \o ss[i]]

LEMMA UptoExists ==
  ASSUME NEW ss, NEW n \in Nat
  PROVE  \E f : Upto(f, ss, n)
<1> DEFINE T == {k \in Nat : \E f : Upto(f, ss, k)}
<1>1. 0 \in T
  <2> DEFINE f == [i \in 1..0 |-> <<>>]
  <2>1. f = [i \in 1..0 |-> IF i = 1 THEN ss[i] ELSE f[i - 1] \o ss[i]]
    OBVIOUS
  <2>2. Upto(f, ss, 0)
    BY <2>1 DEF Upto
  <2> QED BY <2>2
<1>2. ASSUME NEW k \in T PROVE k + 1 \in T
  <2>1. PICK f : Upto(f, ss, k)
    OBVIOUS
  <2> DEFINE g == [i \in 1..(k + 1) |-> IF i = 1 THEN ss[i] ELSE f[i - 1] \o ss[i]]
  <2>2. ASSUME NEW i \in 1..(k + 1), i # 1 PROVE f[i - 1] = g[i - 1]
    <3>1. i - 1 \in 1..k /\ i - 1 \in 1..(k + 1)
      BY <2>2
    <3>2. f[i - 1] = IF i - 1 = 1 THEN ss[i - 1] ELSE f[(i - 1) - 1] \o ss[i - 1]
      BY <2>1, <3>1, Zenon DEF Upto
    <3> QED BY <3>1, <3>2
  <2>3. g = [i \in 1..(k + 1) |-> IF i = 1 THEN ss[i] ELSE g[i - 1] \o ss[i]]
    BY <2>2
  <2> HIDE DEF g
  <2>4. Upto(g, ss, k + 1)
    BY <2>3 DEF Upto
  <2> QED BY <2>4
<1>3. T = Nat
  <2>1. T \in SUBSET Nat
    OBVIOUS
  <2> HIDE DEF T
  <2> QED BY <1>1, <1>2, <2>1, SetInduction
<1> QED BY <1>3

LEMMA FlattenIs ==
  ASSUME NEW S, NEW ss \in Seq(Seq(S)), ss # <<>>
  PROVE  \E f : Upto(f, ss, Len(ss)) /\ FlattenSeq(ss) = f[Len(ss)]
<1>1. Len(ss) \in Nat \ {0}
  BY EmptySeq
<1> DEFINE f == CHOOSE f : Upto(f, ss, Len(ss))
<1>2. Upto(f, ss, Len(ss))
  BY <1>1, UptoExists
<1>3. FlattenSeq(ss) = f[Len(ss)]
  BY <1>1 DEF FlattenSeq, Upto
<1> QED BY <1>2, <1>3

LEMMA JoinsMore ==
  ASSUME NEW S, NEW p \in Seq(S), NEW q \in Seq(S), NEW c \in Seq(S), NEW t, Joins(t, p, q)
  PROVE  Joins(t \o c, p, q \o c) /\ q \o c \in Seq(S)
<1>1. (p \o q) \o c = p \o (q \o c)
  BY ConcatAssociative
<1>2. t = p \o q
  BY DEF Joins
<1>3. Joins(t \o c, p, q \o c)
  BY <1>1, <1>2 DEF Joins
<1>4. q \o c \in Seq(S)
  BY ConcatProperties
<1> QED BY <1>3, <1>4

LEMMA UptoStep ==
  ASSUME NEW ss, NEW f, NEW c \in Nat, Upto(f, ss, c)
  PROVE  /\ c > 0 => f[1] = ss[1]
         /\ \A i \in 1..c : i > 1 => f[i] = f[i - 1] \o ss[i]
<1>1. \A i \in 1..c : f[i] = IF i = 1 THEN ss[i] ELSE f[i - 1] \o ss[i]
  <2> TAKE i \in 1..c
  <2> QED BY Zenon DEF Upto
<1>2. ASSUME c > 0 PROVE f[1] = ss[1]
  <2>1. 1 \in 1..c
    BY <1>2
  <2> QED BY <1>1, <2>1
<1>3. ASSUME NEW i \in 1..c, i > 1 PROVE f[i] = f[i - 1] \o ss[i]
  <2>1. i # 1
    BY <1>3
  <2> QED BY <1>1, <2>1
<1> QED BY <1>2, <1>3

(* The parts from i on, for as many parts as n. *)
TailsUpto(S, r, ss, f, n) ==
  /\ r \in [1..(n + 1) -> Seq(S)] /\ r[n + 1] = <<>>
  /\ \A i \in 1..n : r[i] = ss[i] \o r[i + 1]
  /\ n > 0 => r[1] = f[n]

LEMMA TailsStep ==
  ASSUME NEW S, NEW c \in Nat, NEW ss \in [1..c -> Seq(S)], NEW f, Upto(f, ss, c),
         NEW n \in Nat, n + 1 <= c, NEW r, TailsUpto(S, r, ss, f, n)
  PROVE  TailsUpto(S, [i \in 1..(n + 2) |-> IF i = n + 2 THEN <<>> ELSE r[i] \o ss[n + 1]], ss, f, n + 1)
<1> DEFINE q == [i \in 1..(n + 2) |-> IF i = n + 2 THEN <<>> ELSE r[i] \o ss[n + 1]]
<1>0. (c > 0 => f[1] = ss[1]) /\ \A i \in 1..c : i > 1 => f[i] = f[i - 1] \o ss[i]
  BY UptoStep, Zenon
<1>1. n + 1 \in 1..c
  OBVIOUS
<1>2. ss[n + 1] \in Seq(S) /\ <<>> \in Seq(S)
  BY <1>1, EmptySeq
<1>3. \A i \in 1..(n + 1) : r[i] \in Seq(S)
  BY DEF TailsUpto
<1>4. \A i \in 1..(n + 1) : q[i] = r[i] \o ss[n + 1] /\ q[i] \in Seq(S)
  <2> TAKE i \in 1..(n + 1)
  <2>1. i \in 1..(n + 2) /\ i # n + 2
    OBVIOUS
  <2>2. q[i] = r[i] \o ss[n + 1]
    BY <2>1
  <2>3. r[i] \in Seq(S)
    BY <1>3
  <2>4. r[i] \o ss[n + 1] \in Seq(S)
    BY <1>2, <2>3, ConcatProperties
  <2> QED BY <2>2, <2>4
<1>5. q[n + 2] = <<>>
  OBVIOUS
<1>6. q \in [1..(n + 2) -> Seq(S)]
  <2>1. \A i \in 1..(n + 2) : q[i] \in Seq(S)
    <3>1. \A i \in 1..(n + 2) : i \in 1..(n + 1) \/ i = n + 2
      OBVIOUS
    <3> HIDE DEF q
    <3> QED BY <1>2, <1>4, <1>5, <3>1
  <2>2. \A i \in 1..(n + 2) : (IF i = n + 2 THEN <<>> ELSE r[i] \o ss[n + 1]) \in Seq(S)
    BY <2>1, Zenon
  <2> QED BY <2>2, Zenon
<1> HIDE DEF q
<1>7. \A i \in 1..(n + 1) : q[i] = ss[i] \o q[i + 1]
  <2>1. q[n + 1] = ss[n + 1] \o q[n + 2]
    <3>1. r[n + 1] = <<>> /\ n + 1 \in 1..(n + 1)
      BY DEF TailsUpto
    <3>2. q[n + 1] = <<>> \o ss[n + 1]
      BY <1>4, <3>1
    <3> QED BY <1>2, <1>5, <3>2, ConcatEmptySeq
  <2>2. ASSUME NEW i \in 1..n PROVE q[i] = ss[i] \o q[i + 1]
    <3>1. i \in 1..(n + 1) /\ i + 1 \in 1..(n + 1) /\ i \in 1..c
      BY <1>1
    <3>2. r[i] = ss[i] \o r[i + 1]
      BY DEF TailsUpto
    <3>3. q[i + 1] = r[i + 1] \o ss[n + 1]
      BY <1>4, <3>1
    <3>4. ss[i] \in Seq(S) /\ r[i + 1] \in Seq(S)
      BY <1>3, <3>1
    <3>5. r[i] \o ss[n + 1] = ss[i] \o q[i + 1]
      <4> DEFINE a == ss[i]
                 b == r[i + 1]
                 g == ss[n + 1]
                 d == r[i]
                 e == q[i + 1]
      <4>1. a \in Seq(S) /\ b \in Seq(S) /\ g \in Seq(S) /\ Joins(d, a, b) /\ e = b \o g
        BY <1>2, <3>2, <3>3, <3>4 DEF Joins
      <4> HIDE DEF a, b, g, d, e
      <4>2. Joins(d \o g, a, b \o g)
        BY <4>1, JoinsMore
      <4>3. d \o g = a \o e
        BY <4>1, <4>2 DEF Joins
      <4> QED BY <4>3 DEF a, b, g, d, e
    <3> QED BY <1>4, <3>1, <3>5
  <2>3. \A i \in 1..(n + 1) : i \in 1..n \/ i = n + 1
    OBVIOUS
  <2>4. \A i \in 1..(n + 1) : i = n + 1 => i + 1 = n + 2
    OBVIOUS
  <2> QED BY <2>1, <2>2, <2>3, <2>4
<1>8. q[1] = f[n + 1]
  <2>1. CASE n = 0
    <3>1. n + 1 = 1 /\ n + 2 = 2 /\ 1 \in 1..(n + 1) /\ 1 + 1 = 2
      BY <2>1
    <3>2. q[1] = ss[1] \o <<>> /\ ss[1] \in Seq(S)
      BY <1>2, <1>5, <1>7, <3>1, Zenon
    <3>3. ss[1] \o <<>> = ss[1]
      BY <3>2, ConcatEmptySeq
    <3>4. f[1] = ss[1]
      <4>1. c > 0
        BY <1>1
      <4> QED BY <1>0, <4>1
    <3> QED BY <3>1, <3>2, <3>3, <3>4
  <2>2. CASE n > 0
    <3>1. r[1] = f[n]
      BY <2>2 DEF TailsUpto
    <3>2. f[n + 1] = f[n] \o ss[n + 1]
      <4>1. n + 1 > 1 /\ (n + 1) - 1 = n
        BY <2>2
      <4> QED BY <1>0, <1>1, <4>1
    <3>3. 1 \in 1..(n + 1)
      BY <2>2
    <3> QED BY <1>4, <3>1, <3>2, <3>3
  <2> QED BY <2>1, <2>2
<1>9. (n + 1) + 1 = n + 2 /\ n + 1 > 0
  OBVIOUS
<1>10. TailsUpto(S, q, ss, f, n + 1)
  BY <1>5, <1>6, <1>7, <1>8, <1>9 DEF TailsUpto
<1> QED BY <1>10 DEF q

LEMMA TailsExist ==
  ASSUME NEW S, NEW ss \in Seq(Seq(S))
  PROVE  \E r : IsTails(S, r, ss) /\ r[1] = FlattenSeq(ss)
<1>1. Len(ss) \in Nat
  BY LenProperties
<1>2. CASE ss = <<>>
  <2>1. FlattenSeq(ss) = <<>> /\ Len(ss) = 0
    BY <1>2 DEF FlattenSeq
  <2> DEFINE r == [i \in 1..1 |-> <<>>]
  <2>2. r \in [1..1 -> Seq(S)] /\ r[1] = <<>>
    BY EmptySeq
  <2> HIDE DEF r
  <2>3. IsTails(S, r, ss)
    BY <2>1, <2>2 DEF IsTails
  <2> QED BY <2>1, <2>2, <2>3
<1>3. CASE ss # <<>>
  <2>1. Len(ss) > 0
    BY <1>3, EmptySeq
  <2>2. PICK f : Upto(f, ss, Len(ss)) /\ FlattenSeq(ss) = f[Len(ss)]
    BY <1>3, FlattenIs
  <2> DEFINE T == {n \in Nat : n <= Len(ss) => \E r : TailsUpto(S, r, ss, f, n)}
  <2>3. 0 \in T
    <3> DEFINE r == [i \in 1..1 |-> <<>>]
    <3>1. r \in [1..1 -> Seq(S)] /\ r[1] = <<>>
      BY EmptySeq
    <3> HIDE DEF r
    <3>2. TailsUpto(S, r, ss, f, 0)
      BY <3>1 DEF TailsUpto
    <3> QED BY <3>2
  <2>4. ASSUME NEW n \in T PROVE n + 1 \in T
    <3>1. n \in Nat
      OBVIOUS
    <3>2. ASSUME n + 1 <= Len(ss) PROVE \E r : TailsUpto(S, r, ss, f, n + 1)
      <4>1. n <= Len(ss)
        BY <1>1, <3>1, <3>2
      <4>2. PICK r : TailsUpto(S, r, ss, f, n)
        BY <4>1
      <4>3. ss \in [1..Len(ss) -> Seq(S)]
        BY LenProperties
      <4> QED BY <1>1, <2>2, <3>1, <3>2, <4>2, <4>3, TailsStep
    <3> QED BY <3>1, <3>2
  <2>5. T = Nat
    <3>1. T \in SUBSET Nat
      OBVIOUS
    <3> HIDE DEF T
    <3> QED BY <2>3, <2>4, <3>1, SetInduction
  <2>6. PICK r : TailsUpto(S, r, ss, f, Len(ss))
    BY <1>1, <2>5
  <2> QED BY <2>1, <2>2, <2>6 DEF TailsUpto, IsTails
<1> QED BY <1>2, <1>3

-----------------------------------------------------------------------------
(* Reading from bytes of which a part has come. *)

LEMMA Arrives ==
  ASSUME NEW S, NEW a \in Seq(S), NEW b, NEW c \in Seq(S), NEW d \in Seq(S), NEW w,
         Joins(w, a, b), Joins(b, c, d)
  PROVE  Joins(w, a \o c, d)
<1>1. (a \o c) \o d = a \o (c \o d)
  BY ConcatAssociative
<1>2. b = c \o d /\ w = a \o b
  BY DEF Joins
<1> QED BY <1>1, <1>2 DEF Joins

LEMMA FirstsEqual ==
  ASSUME NEW S, NEW a \in Seq(S), NEW b \in Seq(S), NEW c \in Seq(S), NEW d \in Seq(S),
         NEW w, Joins(w, a, b), Joins(w, c, d), Len(c) <= Len(a)
  PROVE  \A i \in 1..Len(c) : c[i] = a[i]
<1>1. Len(a) \in Nat /\ Len(c) \in Nat /\ Len(b) \in Nat /\ Len(d) \in Nat
  BY LenProperties
<1> TAKE i \in 1..Len(c)
<1>2. i \in 1..(Len(a) + Len(b)) /\ i \in 1..(Len(c) + Len(d)) /\ i <= Len(a) /\ i <= Len(c)
  BY <1>1
<1>3. (a \o b)[i] = a[i]
  BY <1>2, ConcatProperties
<1>4. (c \o d)[i] = c[i]
  BY <1>2, ConcatProperties
<1>5. a \o b = c \o d
  BY DEF Joins
<1> QED BY <1>3, <1>4, <1>5

LEMMA FirstsOf ==
  ASSUME NEW S, NEW s \in Seq(S), NEW n \in Nat, n <= Len(s)
  PROVE  /\ SubSeq(s, 1, n) \in Seq(S) /\ Len(SubSeq(s, 1, n)) = n
         /\ \A i \in 1..n : SubSeq(s, 1, n)[i] = s[i]
<1> DEFINE u == SubSeq(s, 1, n)
<1>1. \A i \in 1..n : s[i] \in S
  <2>1. \A i \in 1..n : i \in 1..Len(s)
    BY LenProperties
  <2> QED BY <2>1, ElementOfSeq
<1>2. /\ u \in Seq(S) /\ Len(u) = IF 1 <= n THEN n - 1 + 1 ELSE 0
      /\ \A i \in 1..(n - 1 + 1) : u[i] = s[1 + i - 1]
  <2>1. 1 \in Int /\ n \in Int
    OBVIOUS
  <2> QED BY <1>1, <2>1, SubSeqProperties
<1> HIDE DEF u
<1>3. u \in Seq(S) /\ Len(u) = n /\ \A i \in 1..n : u[i] = s[i]
  BY <1>2
<1> QED BY <1>3 DEF u

LEMMA SameFirsts ==
  ASSUME NEW S, NEW a \in Seq(S), NEW b \in Seq(S), NEW c \in Seq(S), NEW d \in Seq(S),
         NEW w, Joins(w, a, b), Joins(w, c, d), Len(c) <= Len(a), NEW n \in Nat, n <= Len(c)
  PROVE  SubSeq(a, 1, n) = SubSeq(c, 1, n)
<1> DEFINE u == SubSeq(a, 1, n)
           v == SubSeq(c, 1, n)
<1>0. Len(a) \in Nat /\ Len(c) \in Nat /\ n <= Len(a)
  BY LenProperties
<1>1. u \in Seq(S) /\ Len(u) = n /\ \A i \in 1..n : u[i] = a[i]
  BY <1>0, FirstsOf
<1>2. v \in Seq(S) /\ Len(v) = n /\ \A i \in 1..n : v[i] = c[i]
  BY FirstsOf
<1>3. \A i \in 1..n : c[i] = a[i]
  <2>1. \A i \in 1..Len(c) : c[i] = a[i]
    BY FirstsEqual
  <2>2. \A i \in 1..n : i \in 1..Len(c)
    BY <1>0
  <2> QED BY <2>1, <2>2
<1> HIDE DEF u, v
<1>4. Len(u) = Len(v) /\ \A i \in 1..Len(u) : u[i] = v[i]
  BY <1>1, <1>2, <1>3
<1>5. u = v
  BY <1>1, <1>2, <1>4, SeqEqual
<1> QED BY <1>5 DEF u, v

(* What has come begins with c when c is no longer. *)
LEMMA Split ==
  ASSUME NEW S, NEW a \in Seq(S), NEW b \in Seq(S), NEW c \in Seq(S), NEW d \in Seq(S),
         NEW w, Joins(w, a, b), Joins(w, c, d), Len(c) <= Len(a)
  PROVE  /\ c = SubSeq(a, 1, Len(c)) /\ SubSeq(a, Len(c) + 1, Len(a)) \in Seq(S)
         /\ Joins(d, SubSeq(a, Len(c) + 1, Len(a)), b)
<1> DEFINE t == SubSeq(a, Len(c) + 1, Len(a))
           p == SubSeq(a, 1, Len(c))
<1>1. Len(a) \in Nat /\ Len(c) \in Nat /\ Len(b) \in Nat /\ Len(d) \in Nat
  BY LenProperties
<1>2. \A i \in 1..Len(c) : c[i] = a[i] /\ a[i] \in S
  <2>1. \A i \in 1..Len(c) : c[i] = a[i]
    BY FirstsEqual
  <2>2. \A i \in 1..Len(c) : i \in 1..Len(a)
    BY <1>1
  <2> QED BY <2>1, <2>2, ElementOfSeq
<1>3. p \in Seq(S) /\ Len(p) = Len(c) /\ \A i \in 1..Len(c) : p[i] = a[i]
  BY <1>1, FirstsOf
<1>4. t \in Seq(S)
  <2>1. Len(c) + 1 \in Int /\ Len(a) \in Int
    BY <1>1
  <2>2. \A i \in (Len(c) + 1)..Len(a) : i \in 1..Len(a)
    BY <1>1
  <2>3. \A i \in (Len(c) + 1)..Len(a) : a[i] \in S
    BY <2>2, ElementOfSeq
  <2> QED BY <2>1, <2>3, SubSeqProperties
<1>5. p \o t = a
  <2>1. 1 \in 1..(Len(a) + 1) /\ Len(c) \in (1 - 1)..Len(a) /\ Len(a) \in Len(c)..Len(a)
    BY <1>1
  <2>2. p \o t = SubSeq(a, 1, Len(a))
    BY <2>1, ConcatAdjacentSubSeq
  <2> QED BY <2>2, SubSeqFull
<1> HIDE DEF t, p
<1>6. c = p
  BY <1>2, <1>3, SeqEqual
<1>0. a \o b = c \o d
  BY DEF Joins
<1>7. d = t \o b
  <2>1. Joins(a, c, t)
    BY <1>5, <1>6 DEF Joins
  <2>2. Joins(a \o b, c, t \o b) /\ t \o b \in Seq(S)
    BY <1>4, <2>1, JoinsMore
  <2>3. c \o (t \o b) = c \o d
    BY <1>0, <2>2 DEF Joins
  <2> QED BY <2>2, <2>3, ConcatSimplifications
<1> QED BY <1>4, <1>6, <1>7 DEF t, p, Joins

(* A line as it is sent, and its text as it is read. *)
LEMMA LineShape ==
  ASSUME BufferAssumption, HttpAssumption, NEW l \in Seq(Bytes \ {Newline})
  PROVE  /\ l \in Seq(Bytes) /\ CRLF \in Seq(Bytes) /\ <<Return>> \in Seq(Bytes)
         /\ l \o CRLF \in Seq(Bytes) /\ Len(l \o CRLF) = Len(l) + 2 /\ Len(l) \in Nat
         /\ (l \o CRLF)[Len(l) + 2] = Newline
         /\ \A i \in 1..(Len(l) + 1) : (l \o CRLF)[i] # Newline
         /\ l \o <<Return>> = SubSeq(l \o CRLF, 1, Len(l) + 1)
<1>1. Return \in Bytes /\ Newline \in Bytes /\ Return # Newline
  BY DEF HttpAssumption, BufferAssumption
<1>2. l \in Seq(Bytes) /\ Len(l) \in Nat
  BY SeqMonotonic, LenProperties
<1>3. /\ CRLF \in Seq(Bytes) /\ Len(CRLF) = 2 /\ CRLF[1] = Return /\ CRLF[2] = Newline
      /\ <<Return>> \in Seq(Bytes) /\ Len(<<Return>>) = 1 /\ <<Return>>[1] = Return
  BY <1>1 DEF CRLF
<1> DEFINE s == l \o CRLF
           r == l \o <<Return>>
<1>4. /\ s \in Seq(Bytes) /\ Len(s) = Len(l) + 2
      /\ \A i \in 1..(Len(l) + 2) : s[i] = IF i <= Len(l) THEN l[i] ELSE CRLF[i - Len(l)]
  <2>1. /\ s \in Seq(Bytes) /\ Len(s) = Len(l) + Len(CRLF)
        /\ \A i \in 1..(Len(l) + Len(CRLF)) : s[i] = IF i <= Len(l) THEN l[i] ELSE CRLF[i - Len(l)]
    <3>1. l \in Seq(Bytes) /\ CRLF \in Seq(Bytes)
      BY <1>2, <1>3
    <3> QED BY <3>1, ConcatProperties
  <2> HIDE DEF s
  <2> QED BY <1>3, <2>1
<1>5. /\ r \in Seq(Bytes) /\ Len(r) = Len(l) + 1
      /\ \A i \in 1..(Len(l) + 1) : r[i] = IF i <= Len(l) THEN l[i] ELSE <<Return>>[i - Len(l)]
  BY <1>2, <1>3, ConcatProperties
<1> HIDE DEF s, r
<1>6. s[Len(l) + 2] = Newline
  <2>1. Len(l) + 2 \in 1..(Len(l) + 2) /\ ~(Len(l) + 2 <= Len(l)) /\ (Len(l) + 2) - Len(l) = 2
    BY <1>2
  <2>2. s[Len(l) + 2] = CRLF[2]
    BY <1>4, <2>1
  <2> QED BY <1>3, <2>2
<1>7. \A i \in 1..(Len(l) + 1) : s[i] = r[i] /\ s[i] # Newline /\ s[i] \in Bytes
  <2> TAKE i \in 1..(Len(l) + 1)
  <2>1. CASE i <= Len(l)
    <3>1. i \in 1..Len(l) /\ i \in 1..(Len(l) + 2)
      BY <1>2, <2>1
    <3>2. l[i] \in Bytes \ {Newline}
      BY <3>1, ElementOfSeq
    <3> QED BY <1>4, <1>5, <2>1, <3>1, <3>2
  <2>2. CASE i = Len(l) + 1
    <3>1. ~(i <= Len(l)) /\ i - Len(l) = 1 /\ i \in 1..(Len(l) + 2)
      BY <1>2, <2>2
    <3>2. s[i] = CRLF[1] /\ r[i] = <<Return>>[1]
      BY <1>4, <1>5, <3>1
    <3> QED BY <1>1, <1>3, <3>2
  <2> QED BY <1>2, <2>1, <2>2
<1>8. r = SubSeq(s, 1, Len(l) + 1)
  <2> DEFINE u == SubSeq(s, 1, Len(l) + 1)
  <2>1. Len(l) + 1 \in Nat /\ Len(l) + 1 <= Len(s)
    BY <1>2, <1>4
  <2>2. u \in Seq(Bytes) /\ Len(u) = Len(l) + 1 /\ \A i \in 1..(Len(l) + 1) : u[i] = s[i]
    BY <1>4, <2>1, FirstsOf
  <2> HIDE DEF u
  <2>3. Len(u) = Len(r) /\ \A i \in 1..Len(u) : u[i] = r[i]
    BY <1>5, <1>7, <2>2
  <2>4. u = r
    BY <1>5, <2>2, <2>3, SeqEqual
  <2> QED BY <2>4 DEF u
<1> QED BY <1>2, <1>3, <1>4, <1>6, <1>7, <1>8 DEF s, r

LEMMA TextIs ==
  ASSUME BufferAssumption, HttpAssumption, NEW l \in Seq(Bytes \ {Newline})
  PROVE  l \o <<Return>> # <<>> /\ Text(l \o <<Return>>) = l
<1>1. l \in Seq(Bytes) /\ <<Return>> \in Seq(Bytes) /\ Len(l) \in Nat
  BY LineShape
<1> DEFINE r == l \o <<Return>>
<1>2. /\ r \in Seq(Bytes) /\ Len(r) = Len(l) + 1
      /\ \A i \in 1..(Len(l) + 1) : r[i] = IF i <= Len(l) THEN l[i] ELSE <<Return>>[i - Len(l)]
  BY <1>1, ConcatProperties
<1> HIDE DEF r
<1>3. r[Len(r)] = Return
  BY <1>1, <1>2
<1>4. SubSeq(r, 1, Len(r) - 1) = l
  <2> DEFINE u == SubSeq(r, 1, Len(l))
  <2>1. Len(r) - 1 = Len(l) /\ Len(l) <= Len(r)
    BY <1>1, <1>2
  <2>2. u \in Seq(Bytes) /\ Len(u) = Len(l) /\ \A i \in 1..Len(l) : u[i] = r[i]
    BY <1>1, <1>2, <2>1, FirstsOf
  <2>3. \A i \in 1..Len(l) : i \in 1..(Len(l) + 1) /\ i <= Len(l)
    BY <1>1
  <2>4. \A i \in 1..Len(l) : r[i] = l[i]
    BY <1>2, <2>3
  <2> HIDE DEF u
  <2>5. u = l
    BY <1>1, <2>2, <2>4, SeqEqual
  <2> QED BY <2>1, <2>5 DEF u
<1>5. r # <<>>
  BY <1>1, <1>2, EmptySeq
<1> QED BY <1>3, <1>4, <1>5 DEF Text, r

NoLineIn(s) == \A j \in 1..Len(s) : s[j] # Newline

LEMMA ContentHeldNext ==
  BufferTypeOK' => (Content \in Seq(Bytes) /\ ReadableSize = Len(Content))'
<1>1. BufferTypeOK => Content \in Seq(Bytes) /\ ReadableSize = Len(Content)
  BY ContentHeld
<1> QED BY <1>1, PTL

(* ReadLine takes what is before the first newline, or nothing. *)
LEMMA ReadLineStep ==
  ASSUME BufferTypeOK, ReadLine(FALSE)
  PROVE  /\ BufferTypeOK' /\ Content \in Seq(Bytes) /\ Content' \in Seq(Bytes)
         /\ ReadableSize' = Len(Content')
         /\ \/ \E n \in 1..Len(Content) :
                 /\ Content[n] = Newline /\ \A j \in 1..(n - 1) : Content[j] # Newline
                 /\ answer' = SubSeq(Content, 1, n - 1)
                 /\ Content' = SubSeq(Content, n + 1, Len(Content))
            \/ NoLineIn(Content) /\ answer' = <<>> /\ Content' = Content
<1>1. /\ ReadableSize \in Nat /\ Content \in Seq(Bytes) /\ Len(Content) = ReadableSize
      /\ \A i \in 0..(ReadableSize - 1) : Content[i + 1] = Unread(i)
  BY ContentHeld DEF BufferTypeOK
<1>2. ASSUME NEW n \in 0..(ReadableSize - 1), Unread(n) = Newline,
             \A i \in 0..(n - 1) : Unread(i) # Newline, Advance(n + 1, n)
      PROVE  /\ BufferTypeOK'
             /\ \E k \in 1..Len(Content) :
                 /\ Content[k] = Newline /\ \A j \in 1..(k - 1) : Content[j] # Newline
                 /\ answer' = SubSeq(Content, 1, k - 1)
                 /\ Content' = SubSeq(Content, k + 1, Len(Content))
  <2>1. n + 1 \in 0..ReadableSize /\ n \in 0..ReadableSize
    BY <1>1, <1>2
  <2>2. /\ BufferTypeOK' /\ answer' = SubSeq(Content, 1, n)
        /\ Content' = SubSeq(Content, (n + 1) + 1, Len(Content))
    BY <1>2, <2>1, AdvanceStep
  <2>3. n + 1 \in 1..Len(Content) /\ (n + 1) - 1 = n
    BY <1>1, <1>2
  <2>4. Content[n + 1] = Newline
    BY <1>1, <1>2
  <2>5. \A j \in 1..((n + 1) - 1) : Content[j] # Newline
    <3> TAKE j \in 1..((n + 1) - 1)
    <3>1. j - 1 \in 0..(n - 1) /\ j - 1 \in 0..(ReadableSize - 1) /\ (j - 1) + 1 = j
      BY <1>1, <1>2
    <3> QED BY <1>1, <1>2, <3>1
  <2> QED BY <2>2, <2>3, <2>4, <2>5
<1>3. ASSUME \A i \in 0..(ReadableSize - 1) : Unread(i) # Newline, Advance(0, 0)
      PROVE  BufferTypeOK' /\ NoLineIn(Content) /\ answer' = <<>> /\ Content' = Content
  <2>1. 0 \in 0..ReadableSize
    BY <1>1
  <2>2. /\ BufferTypeOK' /\ answer' = SubSeq(Content, 1, 0)
        /\ Content' = SubSeq(Content, 0 + 1, Len(Content))
    BY <1>3, <2>1, AdvanceStep
  <2>3. answer' = <<>>
    BY <2>2, SubSeqEmpty
  <2>4. Content' = Content
    BY <1>1, <2>2, SubSeqFull
  <2>5. NoLineIn(Content)
    <3> SUFFICES ASSUME NEW j \in 1..Len(Content) PROVE Content[j] # Newline
      BY DEF NoLineIn
    <3>1. j - 1 \in 0..(ReadableSize - 1) /\ (j - 1) + 1 = j
      BY <1>1
    <3> QED BY <1>1, <1>3, <3>1
  <2> QED BY <2>2, <2>3, <2>4, <2>5
<1>4. \/ \E n \in 0..(ReadableSize - 1) :
           /\ Unread(n) = Newline /\ \A i \in 0..(n - 1) : Unread(i) # Newline
           /\ Advance(n + 1, n)
      \/ (\A i \in 0..(ReadableSize - 1) : Unread(i) # Newline) /\ Advance(0, 0)
  BY DEF ReadLine
<1>5. BufferTypeOK'
  BY <1>2, <1>3, <1>4
<1>6. Content' \in Seq(Bytes) /\ ReadableSize' = Len(Content')
  BY <1>5, ContentHeldNext
<1> QED BY <1>1, <1>2, <1>3, <1>4, <1>5, <1>6

(* Of w, which is the line l and then x, some has come and y has not. *)
LEMMA LineRead ==
  ASSUME BufferAssumption, HttpAssumption, BufferTypeOK, ReadLine(FALSE),
         NEW l \in Seq(Bytes \ {Newline}), NEW x \in Seq(Bytes), NEW y \in Seq(Bytes),
         NEW w, Joins(w, Content, y), Joins(w, l \o CRLF, x)
  PROVE  \/ answer' = l \o <<Return>> /\ Joins(x, Content', y)
         \/ /\ answer' = <<>> /\ Content' = Content /\ NoLineIn(Content)
            /\ Len(Content) <= Len(l) + 1
<1> DEFINE s == l \o CRLF
           c == Content
<1>1. /\ s \in Seq(Bytes) /\ Len(s) = Len(l) + 2 /\ Len(l) \in Nat /\ s[Len(l) + 2] = Newline
      /\ \A i \in 1..(Len(l) + 1) : s[i] # Newline
      /\ l \o <<Return>> = SubSeq(s, 1, Len(l) + 1)
  BY LineShape
<1>2. c \in Seq(Bytes) /\ Len(c) \in Nat
  BY ReadLineStep, LenProperties
<1>3. Joins(w, c, y) /\ Joins(w, s, x)
  OBVIOUS
<1>4. \/ \E n \in 1..Len(c) : /\ c[n] = Newline /\ \A j \in 1..(n - 1) : c[j] # Newline
                              /\ answer' = SubSeq(c, 1, n - 1)
                              /\ Content' = SubSeq(c, n + 1, Len(c))
      \/ NoLineIn(c) /\ answer' = <<>> /\ Content' = c
  BY ReadLineStep
<1> HIDE DEF s, c
<1>5. ASSUME Len(s) <= Len(c)
      PROVE  /\ \A i \in 1..(Len(l) + 1) : c[i] # Newline
             /\ c[Len(l) + 2] = Newline /\ Len(l) + 2 \in 1..Len(c)
             /\ SubSeq(c, 1, Len(l) + 1) = SubSeq(s, 1, Len(l) + 1)
             /\ Joins(x, SubSeq(c, Len(s) + 1, Len(c)), y)
  <2>1. c \in Seq(Bytes) /\ s \in Seq(Bytes) /\ x \in Seq(Bytes) /\ y \in Seq(Bytes)
    BY <1>1, <1>2
  <2>2. \A i \in 1..Len(s) : s[i] = c[i]
    BY <1>3, <1>5, <2>1, FirstsEqual
  <2>3. Len(l) + 2 \in 1..Len(s) /\ Len(l) + 2 \in 1..Len(c)
    BY <1>1, <1>2, <1>5
  <2>4. \A i \in 1..(Len(l) + 1) : i \in 1..Len(s)
    BY <1>1
  <2>5. SubSeq(c, 1, Len(l) + 1) = SubSeq(s, 1, Len(l) + 1)
    <3> DEFINE k == Len(l) + 1
    <3>1. k \in Nat /\ k <= Len(s)
      BY <1>1, <1>2, <1>5
    <3> HIDE DEF k
    <3>2. SubSeq(c, 1, k) = SubSeq(s, 1, k)
      BY <1>3, <1>5, <2>1, <3>1, SameFirsts
    <3> QED BY <3>2 DEF k
  <2>6. Joins(x, SubSeq(c, Len(s) + 1, Len(c)), y)
    BY <1>3, <1>5, <2>1, Split
  <2> QED BY <1>1, <2>2, <2>3, <2>4, <2>5, <2>6
<1>6. ASSUME ~(Len(s) <= Len(c)) PROVE NoLineIn(c) /\ Len(c) <= Len(l) + 1
  <2>1. c \in Seq(Bytes) /\ s \in Seq(Bytes) /\ x \in Seq(Bytes) /\ y \in Seq(Bytes) /\ Len(c) <= Len(s)
    BY <1>1, <1>2, <1>6
  <2>2. \A i \in 1..Len(c) : c[i] = s[i]
    BY <1>3, <2>1, FirstsEqual
  <2>3. \A i \in 1..Len(c) : i \in 1..(Len(l) + 1)
    BY <1>1, <1>2, <1>6
  <2>4. Len(c) <= Len(l) + 1
    BY <1>1, <1>2, <1>6
  <2> QED BY <1>1, <2>2, <2>3, <2>4 DEF NoLineIn
<1>7. CASE NoLineIn(c) /\ answer' = <<>> /\ Content' = c
  <2>1. ~(Len(s) <= Len(c))
    BY <1>5, <1>7 DEF NoLineIn
  <2> QED BY <1>6, <1>7, <2>1 DEF c
<1>8. ASSUME NEW n \in 1..Len(c), c[n] = Newline, \A j \in 1..(n - 1) : c[j] # Newline,
             answer' = SubSeq(c, 1, n - 1), Content' = SubSeq(c, n + 1, Len(c))
      PROVE  answer' = l \o <<Return>> /\ Joins(x, Content', y)
  <2>1. Len(s) <= Len(c)
    BY <1>6, <1>8 DEF NoLineIn
  <2>2. n = Len(l) + 2
    <3>1. ASSUME n < Len(l) + 2 PROVE FALSE
      <4>1. n \in 1..(Len(l) + 1)
        BY <1>1, <3>1
      <4> QED BY <1>5, <1>8, <2>1, <4>1
    <3>2. ASSUME n > Len(l) + 2 PROVE FALSE
      <4>1. Len(l) + 2 \in 1..(n - 1)
        BY <1>1, <3>2
      <4> QED BY <1>5, <1>8, <2>1, <4>1
    <3> QED BY <1>1, <3>1, <3>2
  <2>3. n - 1 = Len(l) + 1 /\ n + 1 = Len(s) + 1
    BY <1>1, <2>2
  <2>4. answer' = SubSeq(c, 1, Len(l) + 1) /\ Content' = SubSeq(c, Len(s) + 1, Len(c))
    BY <1>8, <2>3
  <2>5. answer' = l \o <<Return>>
    BY <1>1, <1>5, <2>1, <2>4
  <2>6. Joins(x, Content', y)
    BY <1>5, <2>1, <2>4
  <2> QED BY <2>5, <2>6
<1> QED BY <1>4, <1>7, <1>8

(* Of w, which is b and then x, some has come and y has not. *)
LEMMA BodyRead ==
  ASSUME BufferTypeOK, NEW b \in Seq(Bytes), NEW x \in Seq(Bytes), NEW y \in Seq(Bytes),
         NEW w, Joins(w, Content, y), Joins(w, b, x),
         Read(IF ReadableSize >= Len(b) THEN Len(b) ELSE ReadableSize)
  PROVE  /\ ReadableSize \in Nat /\ BufferTypeOK' /\ answer' \in Seq(Bytes)
         /\ ReadableSize >= Len(b) => answer' = b /\ Joins(x, Content', y)
         /\ ReadableSize < Len(b) => /\ Content' = <<>>
                                     /\ \E t \in Seq(Bytes) : /\ b = answer' \o t /\ Len(t) > 0
                                                              /\ Joins(t \o x, Content', y)
<1> DEFINE c == Content
           n == IF ReadableSize >= Len(b) THEN Len(b) ELSE ReadableSize
<1>1. /\ c \in Seq(Bytes) /\ Len(c) = ReadableSize /\ ReadableSize \in Nat /\ Len(b) \in Nat
  BY ContentHeld, LenProperties DEF BufferTypeOK
<1>2. n \in 0..ReadableSize
  BY <1>1
<1>3. Advance(n, n)
  <2>1. ~(n > ReadableSize)
    BY <1>1, <1>2
  <2> HIDE DEF n
  <2>2. Read(n)
    BY DEF n
  <2> QED BY <2>1, <2>2 DEF Read
<1> HIDE DEF n
<1>4. /\ BufferTypeOK' /\ answer' = SubSeq(c, 1, n) /\ Content' = SubSeq(c, n + 1, Len(c))
  BY <1>2, <1>3, AdvanceStep
<1> HIDE DEF c
<1>5. Joins(w, c, y) /\ Joins(w, b, x)
  BY DEF c
<1>6. ASSUME ReadableSize >= Len(b) PROVE answer' = b /\ Joins(x, Content', y)
  <2>1. n = Len(b) /\ Len(b) <= Len(c)
    BY <1>1, <1>6 DEF n
  <2>2. b = SubSeq(c, 1, Len(b)) /\ Joins(x, SubSeq(c, Len(b) + 1, Len(c)), y)
    BY <1>1, <1>5, <2>1, Split
  <2> QED BY <1>4, <2>1, <2>2
<1>7. ASSUME ReadableSize < Len(b)
      PROVE  /\ Content' = <<>>
             /\ \E t \in Seq(Bytes) : b = answer' \o t /\ Len(t) > 0 /\ Joins(t \o x, Content', y)
  <2>1. n = Len(c) /\ Len(c) <= Len(b) /\ Len(c) < Len(b) /\ Len(c) \in Nat
    BY <1>1, <1>7 DEF n
  <2>2. answer' = c
    BY <1>1, <1>4, <2>1, SubSeqFull
  <2>3. Content' = <<>>
    BY <1>4, <2>1, SubSeqEmpty
  <2> DEFINE t == SubSeq(b, Len(c) + 1, Len(b))
  <2>4. c = SubSeq(b, 1, Len(c)) /\ t \in Seq(Bytes) /\ Joins(y, t, x)
    BY <1>1, <1>5, <2>1, Split
  <2>5. b = c \o t
    <3>1. 1 \in 1..(Len(b) + 1) /\ Len(c) \in (1 - 1)..Len(b) /\ Len(b) \in Len(c)..Len(b)
      BY <1>1, <2>1
    <3>2. SubSeq(b, 1, Len(c)) \o t = SubSeq(b, 1, Len(b))
      BY <3>1, ConcatAdjacentSubSeq
    <3> QED BY <2>4, <3>2, SubSeqFull
  <2> HIDE DEF t
  <2>6. Len(t) > 0
    <3>1. Len(b) = Len(c) + Len(t) /\ Len(t) \in Nat
      BY <1>1, <2>4, <2>5, ConcatProperties, LenProperties
    <3> QED BY <1>1, <2>1, <3>1
  <2>7. Joins(t \o x, <<>>, y)
    <3>1. y = t \o x
      BY <2>4 DEF Joins
    <3> QED BY <3>1, ConcatEmptySeq DEF Joins
  <2> QED BY <2>2, <2>3, <2>4, <2>5, <2>6, <2>7
<1>8. answer' \in Seq(Bytes)
  BY <1>4 DEF BufferTypeOK
<1> QED BY <1>1, <1>4, <1>6, <1>7, <1>8

-----------------------------------------------------------------------------
(* The messages as they are sent. *)

Rendered == [i \in DOMAIN script |-> Render(script[i])]
After == CHOOSE r : IsTails(Bytes, r, Rendered) /\ r[1] = FlattenSeq(Rendered)

(* What follows the request line, from header h on. *)
Fields(m) == [i \in DOMAIN m.headers |-> m.headers[i] \o CRLF]
FieldsAfter(m) == CHOOSE r : IsTails(Bytes, r, Fields(m)) /\ r[1] = FlattenSeq(Fields(m))
FromHeader(m, h) == (FieldsAfter(m)[h] \o CRLF) \o m.body

LEMMA FunctionIsSeq ==
  ASSUME NEW S, NEW n \in Nat, NEW f \in [1..n -> S]
  PROVE  f \in Seq(S) /\ Len(f) = n
OBVIOUS

LEMMA MovedOut ==
  ASSUME NEW S, NEW p \in Seq(S), NEW q \in Seq(S), NEW c \in Seq(S), NEW d \in Seq(S), NEW x \in Seq(S),
         NEW t, Joins(t, p, q)
  PROVE  Joins(((t \o c) \o d) \o x, p, ((q \o c) \o d) \o x)
<1>1. Joins(t \o c, p, q \o c) /\ q \o c \in Seq(S)
  BY JoinsMore
<1>2. Joins((t \o c) \o d, p, (q \o c) \o d) /\ (q \o c) \o d \in Seq(S)
  BY <1>1, JoinsMore
<1> QED BY <1>2, JoinsMore

LEMMA FieldsTail ==
  ASSUME BufferAssumption, HttpAssumption, ClientAssumption, NEW m \in Messages
  PROVE  IsTails(Bytes, FieldsAfter(m), Fields(m)) /\ FieldsAfter(m)[1] = FlattenSeq(Fields(m))
         /\ Len(Fields(m)) = Len(m.headers) /\ Len(m.headers) \in Nat
         /\ \A i \in 1..Len(m.headers) : /\ Fields(m)[i] = m.headers[i] \o CRLF
                                         /\ m.headers[i] \in Seq(Bytes \ {Newline}) /\ m.headers[i] # <<>>
<1>1. m.headers \in Seq(Seq(Bytes \ {Newline}) \ {<<>>})
  BY DEF ClientAssumption
<1>2. Len(m.headers) \in Nat /\ DOMAIN m.headers = 1..Len(m.headers)
  BY <1>1, LenProperties
<1>3. \A i \in 1..Len(m.headers) : m.headers[i] \in Seq(Bytes \ {Newline}) /\ m.headers[i] # <<>>
  BY <1>1, ElementOfSeq
<1>4. \A i \in 1..Len(m.headers) : m.headers[i] \o CRLF \in Seq(Bytes)
  BY <1>3, LineShape
<1>5. Fields(m) = [i \in 1..Len(m.headers) |-> m.headers[i] \o CRLF]
  BY <1>2 DEF Fields
<1>6. Fields(m) \in [1..Len(m.headers) -> Seq(Bytes)]
  BY <1>4, <1>5, Zenon
<1>7. Fields(m) \in Seq(Seq(Bytes)) /\ Len(Fields(m)) = Len(m.headers)
  BY <1>2, <1>6, FunctionIsSeq
<1>8. \E r : IsTails(Bytes, r, Fields(m)) /\ r[1] = FlattenSeq(Fields(m))
  BY <1>7, TailsExist
<1> QED BY <1>2, <1>3, <1>5, <1>7, <1>8 DEF FieldsAfter

LEMMA HeaderTypes ==
  ASSUME BufferAssumption, HttpAssumption, ClientAssumption, NEW m \in Messages
  PROVE  /\ Len(m.headers) \in Nat /\ CRLF \in Seq(Bytes)
         /\ m.line \in Seq(Bytes \ {Newline}) /\ m.line \o CRLF \in Seq(Bytes) /\ m.body \in Seq(Bytes)
         /\ FieldsAfter(m)[1] = FlattenSeq(Fields(m)) /\ FieldsAfter(m)[Len(m.headers) + 1] = <<>>
         /\ \A h \in 1..(Len(m.headers) + 1) : FieldsAfter(m)[h] \in Seq(Bytes)
         /\ \A h \in 1..Len(m.headers) :
              /\ m.headers[h] \in Seq(Bytes \ {Newline}) /\ m.headers[h] # <<>>
              /\ m.headers[h] \o CRLF \in Seq(Bytes)
              /\ Joins(FieldsAfter(m)[h], m.headers[h] \o CRLF, FieldsAfter(m)[h + 1])
<1>1. /\ IsTails(Bytes, FieldsAfter(m), Fields(m)) /\ FieldsAfter(m)[1] = FlattenSeq(Fields(m))
      /\ Len(Fields(m)) = Len(m.headers) /\ Len(m.headers) \in Nat
      /\ \A i \in 1..Len(m.headers) : /\ Fields(m)[i] = m.headers[i] \o CRLF
                                      /\ m.headers[i] \in Seq(Bytes \ {Newline}) /\ m.headers[i] # <<>>
  BY FieldsTail
<1>2. m.line \in Seq(Bytes \ {Newline}) /\ m.body \in Seq(Bytes)
  BY DEF ClientAssumption
<1>3. m.line \o CRLF \in Seq(Bytes) /\ CRLF \in Seq(Bytes)
  BY <1>2, LineShape
<1> DEFINE r == FieldsAfter(m)
           f == Fields(m)
           k == Len(m.headers)
<1>4. /\ r \in [1..(k + 1) -> Seq(Bytes)] /\ r[k + 1] = <<>>
      /\ \A i \in 1..k : r[i] = f[i] \o r[i + 1]
  BY <1>1, Zenon DEF IsTails
<1>5. \A h \in 1..k : m.headers[h] \o CRLF \in Seq(Bytes)
  BY <1>1, LineShape
<1>6. \A h \in 1..k : Joins(r[h], m.headers[h] \o CRLF, r[h + 1])
  <2> TAKE h \in 1..k
  <2>1. r[h] = f[h] \o r[h + 1] /\ f[h] = m.headers[h] \o CRLF
    BY <1>1, <1>4
  <2> QED BY <2>1 DEF Joins
<1> QED BY <1>1, <1>2, <1>3, <1>4, <1>5, <1>6

LEMMA FromHeaderType ==
  ASSUME BufferAssumption, HttpAssumption, ClientAssumption, NEW m \in Messages,
         NEW h \in 1..(Len(m.headers) + 1), NEW x \in Seq(Bytes)
  PROVE  FromHeader(m, h) \o x \in Seq(Bytes) /\ m.body \o x \in Seq(Bytes)
<1> DEFINE t == FieldsAfter(m)[h]
<1>1. t \in Seq(Bytes) /\ CRLF \in Seq(Bytes) /\ m.body \in Seq(Bytes)
  BY HeaderTypes
<1> HIDE DEF t
<1>2. t \o CRLF \in Seq(Bytes)
  BY <1>1, ConcatProperties
<1>3. (t \o CRLF) \o m.body \in Seq(Bytes)
  BY <1>1, <1>2, ConcatProperties
<1>4. ((t \o CRLF) \o m.body) \o x \in Seq(Bytes)
  BY <1>3, ConcatProperties
<1>5. m.body \o x \in Seq(Bytes)
  BY <1>1, ConcatProperties
<1> QED BY <1>4, <1>5 DEF FromHeader, t

(* A message is its line, then its headers, the empty line and its body. *)
LEMMA MessageStart ==
  ASSUME BufferAssumption, HttpAssumption, ClientAssumption, NEW m \in Messages, NEW x \in Seq(Bytes)
  PROVE  Joins(Render(m) \o x, m.line \o CRLF, FromHeader(m, 1) \o x)
<1> DEFINE p == m.line \o CRLF
           q == FieldsAfter(m)[1]
<1>1. p \in Seq(Bytes) /\ CRLF \in Seq(Bytes) /\ m.body \in Seq(Bytes) /\ q \in Seq(Bytes)
  <2>1. 1 \in 1..(Len(m.headers) + 1)
    BY HeaderTypes
  <2> QED BY <2>1, HeaderTypes
<1>2. q = FlattenSeq([i \in DOMAIN m.headers |-> m.headers[i] \o CRLF])
  BY HeaderTypes, Zenon DEF Fields
<1>3. Render(m) = ((p \o q) \o CRLF) \o m.body
  BY <1>2 DEF Render
<1>4. FromHeader(m, 1) = (q \o CRLF) \o m.body
  BY DEF FromHeader
<1> HIDE DEF p, q
<1>5. Joins((((p \o q) \o CRLF) \o m.body) \o x, p, ((q \o CRLF) \o m.body) \o x)
  <2>1. Joins(p \o q, p, q)
    BY DEF Joins
  <2>2. p \in Seq(Bytes) /\ CRLF \in Seq(Bytes) /\ m.body \in Seq(Bytes) /\ q \in Seq(Bytes)
    BY <1>1
  <2> QED BY <2>1, <2>2, MovedOut
<1> QED BY <1>3, <1>4, <1>5 DEF p

LEMMA HeaderNext ==
  ASSUME BufferAssumption, HttpAssumption, ClientAssumption, NEW m \in Messages,
         NEW h \in 1..Len(m.headers), NEW x \in Seq(Bytes)
  PROVE  Joins(FromHeader(m, h) \o x, m.headers[h] \o CRLF, FromHeader(m, h + 1) \o x)
<1> DEFINE p == m.headers[h] \o CRLF
           q == FieldsAfter(m)[h + 1]
           t == FieldsAfter(m)[h]
<1>0. h + 1 \in 1..(Len(m.headers) + 1)
  <2>1. Len(m.headers) \in Nat
    BY HeaderTypes
  <2> QED BY <2>1
<1>1. p \in Seq(Bytes) /\ CRLF \in Seq(Bytes) /\ m.body \in Seq(Bytes) /\ q \in Seq(Bytes)
  BY <1>0, HeaderTypes
<1>2. Joins(t, p, q)
  BY HeaderTypes
<1>3. FromHeader(m, h) = (t \o CRLF) \o m.body /\ FromHeader(m, h + 1) = (q \o CRLF) \o m.body
  BY DEF FromHeader
<1> HIDE DEF p, q, t
<1>4. Joins(((t \o CRLF) \o m.body) \o x, p, ((q \o CRLF) \o m.body) \o x)
  BY <1>1, <1>2, MovedOut
<1> QED BY <1>3, <1>4 DEF p

LEMMA EmptyFirst ==
  ASSUME NEW S, NEW c \in Seq(S), NEW b \in Seq(S), NEW x \in Seq(S)
  PROVE  Joins(((<<>> \o c) \o b) \o x, <<>> \o c, b \o x)
<1>1. (c \o b) \o x = c \o (b \o x)
  BY ConcatAssociative
<1>2. <<>> \o c = c
  BY ConcatEmptySeq
<1> QED BY <1>1, <1>2 DEF Joins

LEMMA HeadersDone ==
  ASSUME BufferAssumption, HttpAssumption, ClientAssumption, NEW m \in Messages, NEW x \in Seq(Bytes)
  PROVE  Joins(FromHeader(m, Len(m.headers) + 1) \o x, <<>> \o CRLF, m.body \o x)
<1>1. CRLF \in Seq(Bytes) /\ m.body \in Seq(Bytes) /\ FieldsAfter(m)[Len(m.headers) + 1] = <<>>
  BY HeaderTypes
<1>2. FromHeader(m, Len(m.headers) + 1) = (<<>> \o CRLF) \o m.body
  BY <1>1 DEF FromHeader
<1>3. Joins(((<<>> \o CRLF) \o m.body) \o x, <<>> \o CRLF, m.body \o x)
  BY <1>1, EmptyFirst
<1> QED BY <1>2, <1>3

LEMMA RenderType ==
  ASSUME BufferAssumption, HttpAssumption, ClientAssumption, NEW m \in Messages
  PROVE  Render(m) \in Seq(Bytes)
<1> DEFINE p == m.line \o CRLF
           q == FieldsAfter(m)[1]
<1>1. p \in Seq(Bytes) /\ CRLF \in Seq(Bytes) /\ m.body \in Seq(Bytes) /\ q \in Seq(Bytes)
  <2>1. 1 \in 1..(Len(m.headers) + 1)
    BY HeaderTypes
  <2> QED BY <2>1, HeaderTypes
<1>2. q = FlattenSeq([i \in DOMAIN m.headers |-> m.headers[i] \o CRLF])
  BY HeaderTypes, Zenon DEF Fields
<1>3. Render(m) = ((p \o q) \o CRLF) \o m.body
  BY <1>2 DEF Render
<1> HIDE DEF p, q
<1>4. p \o q \in Seq(Bytes)
  BY <1>1, ConcatProperties
<1>5. (p \o q) \o CRLF \in Seq(Bytes)
  BY <1>1, <1>4, ConcatProperties
<1>6. ((p \o q) \o CRLF) \o m.body \in Seq(Bytes)
  BY <1>1, <1>5, ConcatProperties
<1> QED BY <1>3, <1>6

LEMMA AfterIs ==
  ASSUME BufferAssumption, HttpAssumption, ClientAssumption, script \in Seq(Messages)
  PROVE  /\ Len(script) \in Nat /\ After[1] = FlattenSeq(Rendered) /\ After[Len(script) + 1] = <<>>
         /\ \A i \in 1..(Len(script) + 1) : After[i] \in Seq(Bytes)
         /\ \A i \in 1..Len(script) : /\ script[i] \in Messages
                                      /\ After[i] = Render(script[i]) \o After[i + 1]
<1>1. Len(script) \in Nat /\ DOMAIN script = 1..Len(script)
  BY LenProperties
<1>2. \A i \in 1..Len(script) : script[i] \in Messages
  BY ElementOfSeq
<1>3. \A i \in 1..Len(script) : Render(script[i]) \in Seq(Bytes)
  BY <1>2, RenderType
<1>4. Rendered = [i \in 1..Len(script) |-> Render(script[i])]
  BY <1>1 DEF Rendered
<1>5. Rendered \in [1..Len(script) -> Seq(Bytes)]
  BY <1>3, <1>4, Zenon
<1>6. Rendered \in Seq(Seq(Bytes)) /\ Len(Rendered) = Len(script)
  BY <1>1, <1>5, FunctionIsSeq
<1>7. IsTails(Bytes, After, Rendered) /\ After[1] = FlattenSeq(Rendered)
  BY <1>6, TailsExist DEF After
<1> DEFINE n == Len(script)
<1>8. /\ After \in [1..(n + 1) -> Seq(Bytes)] /\ After[n + 1] = <<>>
      /\ \A i \in 1..n : After[i] = Rendered[i] \o After[i + 1]
  BY <1>6, <1>7, Zenon DEF IsTails
<1>9. \A i \in 1..n : Rendered[i] = Render(script[i])
  BY <1>4
<1> QED BY <1>1, <1>2, <1>7, <1>8, <1>9

-----------------------------------------------------------------------------
(* The invariant: what of the script the parser has taken, at each stage.   *)

Index == Len(answers) + 1
Now   == script[Index]
Later == After[Index + 1]

(* A client's messages have an end; those answered were taken as meant, and *)
(* only the last of them may have ended the connection.                     *)
Answered ==
  /\ Len(answers) <= Len(script)
  /\ \A j \in 1..Len(answers) : /\ answers[j].request = Outcome(script[j])
                                /\ Ends(script[j]) <=> closing /\ j = Len(answers)
  /\ closing => Len(answers) > 0

(* What is left of a body is a number. *)
BodyBound ==
  /\ accept \in {"line", "headers"} => request.body = <<>>
  /\ accept = "body" /\ "chunked" \notin request.headers => Len(request.body) <= GetBodyLength

Phases ==
  /\ phase = "idle" => ~closing
  /\ phase = "closed" => closing
  /\ accept \in {"accepted", "error"} => phase = "parse"
  /\ ~closing /\ (phase = "parse" \/ accept # "line") => Index <= Len(script)
  /\ ~closing /\ phase = "turn" /\ Content = <<>> => accept = "line"

(* The first n headers of m, and what they say. *)
FirstKnown(m, n) == \A j \in 1..n : Known(m.headers[j], Headers)
FirstNames(m, n) == {m.headers[j][1] : j \in 1..n}

LineTaken == request.line = Now.line /\ Known(Now.line, DOMAIN Lines)

AtLine == request = NoRequest /\ Joins(After[Index], Content, rest)

AtHeader(h) ==
  /\ h \in 1..(Len(Now.headers) + 1)
  /\ FirstKnown(Now, h - 1) /\ request.headers = FirstNames(Now, h - 1)
  /\ Joins(FromHeader(Now, h) \o Later, Content, rest)

AtHeaders == LineTaken /\ \E h \in 1..(Len(Now.headers) + 1) : AtHeader(h)

AtBody ==
  /\ LineTaken
  /\ FirstKnown(Now, Len(Now.headers)) /\ request.headers = FirstNames(Now, Len(Now.headers))
  /\ \E b \in Seq(Bytes) : /\ Now.body = request.body \o b
                           /\ Joins(b \o Later, Content, rest)

AtEnd == Good(Now) /\ request = Meant(Now) /\ Joins(Later, Content, rest)

(* The callback has returned because what has come does not end. *)
Waiting == IF accept = "body" THEN Content = <<>> /\ Len(request.body) < Len(Now.body)
                              ELSE NoLineIn(Content)

InStep ==
  /\ accept = "line" => AtLine
  /\ accept = "headers" => AtHeaders
  /\ accept = "body" => AtBody
  /\ accept = "accepted" => AtEnd
  /\ accept = "error" => ~Good(Now)
  /\ phase = "idle" => Waiting

HttpInv ==
  /\ TypeOK /\ script \in Seq(Messages)
  /\ Answered /\ BodyBound /\ Phases
  /\ ~closing => InStep

Records == [status : Nat, reason : Nat, request : Requests]

LEMMA SameScript ==
  ASSUME UNCHANGED <<script, answers>>
  PROVE  After' = After /\ Index' = Index /\ Now' = Now /\ Later' = Later
<1>1. After' = After /\ Index' = Index
  BY DEF After, Rendered, Index
<1> QED BY <1>1 DEF Now, Later

LEMMA SameBuffer ==
  ASSUME BufferTypeOK, UNCHANGED bufferVars
  PROVE  BufferTypeOK' /\ Content' = Content /\ ReadableSize' = ReadableSize
BY DEF BufferTypeOK, bufferVars, Content, ReadableSize, Unread

LEMMA WriteStep ==
  ASSUME BufferAssumption, BufferTypeOK, NEW d \in Seq(Bytes), Write(d)
  PROVE  BufferTypeOK' /\ Content' = Content \o d
BY WriteInPlaceStep, WriteGrownStep DEF Write

LEMMA TextType ==
  ASSUME NEW s \in Seq(Bytes), s # <<>>
  PROVE  Text(s) \in Seq(Bytes)
<1>1. Len(s) \in Nat
  BY LenProperties
<1>2. Len(s) - 1 \in Nat /\ Len(s) - 1 <= Len(s)
  BY <1>1, EmptySeq
<1>3. SubSeq(s, 1, Len(s) - 1) \in Seq(Bytes)
  BY <1>2, FirstsOf
<1> QED BY <1>3 DEF Text

LEMMA CutIn ==
  ASSUME NEW S, NEW s \in Seq(S), NEW n \in 1..Len(s)
  PROVE  /\ SubSeq(s, 1, n) \in Seq(S) /\ SubSeq(s, n + 1, Len(s)) \in Seq(S)
         /\ Joins(s, SubSeq(s, 1, n), SubSeq(s, n + 1, Len(s)))
         /\ Len(SubSeq(s, 1, n)) > 0
<1>1. Len(s) \in Nat
  BY LenProperties
<1>2. SubSeq(s, 1, n) \in Seq(S) /\ Len(SubSeq(s, 1, n)) = n
  <2>1. n \in Nat /\ n <= Len(s)
    BY <1>1
  <2> QED BY <2>1, FirstsOf
<1>3. SubSeq(s, n + 1, Len(s)) \in Seq(S)
  <2>1. \A i \in (n + 1)..Len(s) : s[i] \in S
    <3>1. \A i \in (n + 1)..Len(s) : i \in 1..Len(s)
      BY <1>1
    <3> QED BY <3>1, ElementOfSeq
  <2>2. n + 1 \in Int /\ Len(s) \in Int
    BY <1>1
  <2> QED BY <2>1, <2>2, SubSeqProperties
<1>4. SubSeq(s, 1, n) \o SubSeq(s, n + 1, Len(s)) = s
  <2>1. 1 \in 1..(Len(s) + 1) /\ n \in (1 - 1)..Len(s) /\ Len(s) \in n..Len(s)
    BY <1>1
  <2>2. SubSeq(s, 1, n) \o SubSeq(s, n + 1, Len(s)) = SubSeq(s, 1, Len(s))
    BY <2>1, ConcatAdjacentSubSeq
  <2> QED BY <2>2, SubSeqFull
<1> QED BY <1>1, <1>2, <1>3, <1>4 DEF Joins

-----------------------------------------------------------------------------
(* Types. *)

TypeInv == TypeOK /\ BodyBound

LEMMA ArriveTypes ==
  ASSUME BufferAssumption, TypeInv, Arrive
  PROVE  /\ TypeInv'
         /\ \E d \in Seq(Bytes) : Len(d) > 0 /\ Content' = Content \o d /\ Joins(rest, d, rest')
<1>1. PICK n \in 1..Len(rest) : /\ Write(SubSeq(rest, 1, n))
                                /\ rest' = SubSeq(rest, n + 1, Len(rest))
  BY DEF Arrive
<1>2. rest \in Seq(Bytes) /\ BufferTypeOK
  BY DEF TypeInv, TypeOK
<1> DEFINE d == SubSeq(rest, 1, n)
<1>3. d \in Seq(Bytes) /\ rest' \in Seq(Bytes) /\ Joins(rest, d, rest') /\ Len(d) > 0
  BY <1>1, <1>2, CutIn
<1>4. Write(d)
  BY <1>1
<1> HIDE DEF d
<1>5. BufferTypeOK' /\ Content' = Content \o d
  BY <1>2, <1>3, <1>4, WriteStep
<1>6. UNCHANGED <<contextVars, closing, answers>> /\ phase' = "turn"
  BY DEF Arrive
<1>7. TypeOK'
  BY <1>3, <1>5, <1>6 DEF TypeInv, TypeOK, contextVars
<1>8. BodyBound'
  BY <1>6 DEF TypeInv, BodyBound, GetBodyLength, contextVars
<1> QED BY <1>3, <1>5, <1>7, <1>8 DEF TypeInv

LEMMA TurnTypes ==
  ASSUME TypeInv, TurnBegins
  PROVE  TypeInv'
<1>1. BufferTypeOK' /\ UNCHANGED <<rest, contextVars, closing, answers>>
      /\ phase' \in {"parse", "closed", "idle"}
  BY SameBuffer DEF TypeInv, TypeOK, TurnBegins, Quiet
<1>2. TypeOK'
  BY <1>1 DEF TypeInv, TypeOK, contextVars
<1>3. BodyBound'
  BY <1>1 DEF TypeInv, BodyBound, GetBodyLength, contextVars
<1> QED BY <1>2, <1>3 DEF TypeInv

LEMMA LineTypes ==
  ASSUME TypeInv, ParseRequestLine
  PROVE  TypeInv'
<1>1. BufferTypeOK' /\ answer' \in Seq(Bytes)
  BY ReadLineStep DEF TypeInv, TypeOK, ParseRequestLine, BufferTypeOK
<1>2. /\ UNCHANGED <<rest, closing, answers>> /\ accept = "line" /\ phase = "parse"
      /\ request.body = <<>> /\ request \in Requests
  BY DEF TypeInv, TypeOK, BodyBound, ParseRequestLine, Parsing
<1>3. CASE UNCHANGED <<accept, request>> /\ status' = status /\ phase' \in {"idle", "closed"}
  BY <1>1, <1>2, <1>3 DEF TypeInv, TypeOK, BodyBound
<1>4. CASE /\ UNCHANGED <<request, phase>>
           /\ accept' = "error" /\ status' \in {400, 414, 501}
  BY <1>1, <1>2, <1>4 DEF TypeInv, TypeOK, BodyBound
<1>5. CASE /\ answer' # <<>> /\ request' = [request EXCEPT !.line = Text(answer')]
           /\ accept' = "headers" /\ UNCHANGED <<status, phase>>
  <2>1. Text(answer') \in Seq(Bytes)
    BY <1>1, <1>5, TextType
  <2>2. request' \in Requests /\ request'.body = <<>>
    BY <1>2, <1>5, <2>1 DEF Requests
  <2> QED BY <1>1, <1>2, <1>5, <2>2 DEF TypeInv, TypeOK, BodyBound
<1> QED BY <1>3, <1>4, <1>5 DEF ParseRequestLine, NoLine, WaitForMore, Refuse, Quiet, contextVars

LEMMA HeaderTypesKept ==
  ASSUME TypeInv, ParseHeader
  PROVE  TypeInv'
<1>1. BufferTypeOK' /\ answer' \in Seq(Bytes)
  BY ReadLineStep DEF TypeInv, TypeOK, ParseHeader, BufferTypeOK
<1>2. /\ UNCHANGED <<rest, closing, answers>> /\ accept = "headers" /\ phase = "parse"
      /\ request.body = <<>> /\ request \in Requests
  BY DEF TypeInv, TypeOK, BodyBound, ParseHeader, Parsing
<1>3. CASE UNCHANGED <<accept, request>> /\ status' = status /\ phase' \in {"idle", "closed"}
  BY <1>1, <1>2, <1>3 DEF TypeInv, TypeOK, BodyBound
<1>4. CASE /\ UNCHANGED <<request, phase>>
           /\ accept' = "error" /\ status' \in {400, 414, 501}
  BY <1>1, <1>2, <1>4 DEF TypeInv, TypeOK, BodyBound
<1>5. CASE accept' = "body" /\ UNCHANGED <<status, request, phase>>
  <2>1. TypeOK'
    BY <1>1, <1>2, <1>5 DEF TypeInv, TypeOK
  <2>2. Len(request'.body) = 0 /\ GetBodyLength' \in Nat
    BY <1>2, <1>5, HttpAssumption DEF GetBodyLength, HttpAssumption
  <2>3. BodyBound'
    BY <1>5, <2>2 DEF BodyBound
  <2> QED BY <2>1, <2>3 DEF TypeInv
<1>6. CASE \E x \in Headers : SetHeader(x) /\ UNCHANGED <<accept, status, phase>>
  <2>1. PICK x \in Headers : SetHeader(x)
    BY <1>6
  <2> DEFINE H == {x} \union (IF x \in {"keepalive", "close"}
                              THEN request.headers \ {"keepalive", "close"} ELSE request.headers)
  <2>2. H \in SUBSET Headers
    BY <1>2 DEF Requests
  <2>3. request' = [request EXCEPT !.headers = H]
    BY <2>1 DEF SetHeader
  <2> HIDE DEF H
  <2>4. request' \in Requests /\ request'.body = <<>>
    BY <1>2, <2>2, <2>3 DEF Requests
  <2> QED BY <1>1, <1>2, <1>6, <2>4 DEF TypeInv, TypeOK, BodyBound
<1> QED BY <1>3, <1>4, <1>5, <1>6
        DEF ParseHeader, NoLine, WaitForMore, Refuse, Quiet, contextVars, Known

LEMMA BodyTypes ==
  ASSUME HttpAssumption, TypeInv, ParseBody
  PROVE  TypeInv'
<1> DEFINE left == GetBodyLength - Len(request.body)
           n == IF ReadableSize >= left THEN left ELSE ReadableSize
<1>1. /\ UNCHANGED <<rest, closing, answers>> /\ accept = "body" /\ phase = "parse"
      /\ request \in Requests /\ BufferTypeOK
  BY DEF TypeInv, TypeOK, ParseBody, Parsing
<1>2. CASE "chunked" \in request.headers /\ Refuse(501) /\ UNCHANGED bufferVars
  <2>1. BufferTypeOK'
    BY <1>1, <1>2, SameBuffer
  <2> QED BY <1>1, <1>2, <2>1 DEF TypeInv, TypeOK, BodyBound, Refuse
<1>3. ASSUME "chunked" \notin request.headers, Read(n),
             request' = [request EXCEPT !.body = @ \o answer'], UNCHANGED status,
             \/ ReadableSize >= left /\ accept' = "accepted" /\ UNCHANGED phase
             \/ ReadableSize < left /\ UNCHANGED accept /\ phase' = Quiet
      PROVE  TypeInv'
  <2>1. /\ Len(request.body) \in Nat /\ GetBodyLength \in Nat /\ Len(request.body) <= GetBodyLength
        /\ request.body \in Seq(Bytes)
    BY <1>1, <1>3, LenProperties DEF GetBodyLength, HttpAssumption, TypeInv, BodyBound, Requests
  <2>2. Len(Content) = ReadableSize /\ ReadableSize \in Nat /\ Content \in Seq(Bytes)
    BY <1>1, ContentHeld DEF BufferTypeOK
  <2>3. n \in 0..ReadableSize /\ n <= left
    BY <2>1, <2>2
  <2>4. Advance(n, n)
    <3>1. ~(n > ReadableSize)
      BY <2>2, <2>3
    <3> HIDE DEF n
    <3>2. Read(n)
      BY <1>3
    <3> QED BY <3>1, <3>2 DEF Read
  <2> HIDE DEF n
  <2>5. BufferTypeOK' /\ answer' = SubSeq(Content, 1, n)
    BY <1>1, <2>3, <2>4, AdvanceStep
  <2>6. answer' \in Seq(Bytes) /\ Len(answer') = n
    <3>1. n \in Nat /\ n <= Len(Content)
      BY <2>2, <2>3
    <3>2. SubSeq(Content, 1, n) \in Seq(Bytes) /\ Len(SubSeq(Content, 1, n)) = n
      BY <2>2, <3>1, FirstsOf
    <3> QED BY <2>5, <3>2
  <2> DEFINE b == request.body \o answer'
  <2>7. b \in Seq(Bytes) /\ Len(b) = Len(request.body) + n
    <3> DEFINE c == request.body
               e == answer'
    <3>1. c \in Seq(Bytes) /\ e \in Seq(Bytes)
      BY <2>1, <2>6
    <3> HIDE DEF c, e
    <3>2. c \o e \in Seq(Bytes) /\ Len(c \o e) = Len(c) + Len(e)
      BY <3>1, ConcatProperties
    <3>3. b = c \o e
      BY DEF c, e
    <3> HIDE DEF b
    <3>4. b \in Seq(Bytes) /\ Len(b) = Len(c) + Len(e)
      BY <3>2, <3>3
    <3> QED BY <2>6, <3>4 DEF c, e
  <2>8. request' = [request EXCEPT !.body = b]
    BY <1>3
  <2> HIDE DEF b
  <2>9. /\ request' \in Requests /\ request'.body = b /\ request'.headers = request.headers
    BY <1>1, <2>7, <2>8 DEF Requests
  <2>10. GetBodyLength' = GetBodyLength
    BY <2>9 DEF GetBodyLength
  <2>11. Len(request'.body) <= GetBodyLength'
    <3>1. n \in Int
      BY <2>2, <2>3
    <3> QED BY <2>1, <2>3, <2>7, <2>9, <2>10, <3>1
  <2>12. TypeOK'
    BY <1>1, <1>3, <2>5, <2>9 DEF TypeInv, TypeOK, Quiet
  <2>13. BodyBound'
    BY <1>1, <1>3, <2>11 DEF BodyBound
  <2> QED BY <2>12, <2>13 DEF TypeInv
<1> QED BY <1>2, <1>3 DEF ParseBody

LEMMA AnswerTypes ==
  ASSUME TypeInv, NEW a \in [status : Nat, reason : Nat, request : Requests], SendResponse(a)
  PROVE  answers' \in Seq([status : Nat, reason : Nat, request : Requests])
<1>1. answers \in Seq([status : Nat, reason : Nat, request : Requests])
  BY DEF TypeInv, TypeOK
<1> DEFINE R == [status : Nat, reason : Nat, request : Requests]
<1>2. answers \in Seq(R) /\ a \in R
  BY <1>1
<1> HIDE DEF R
<1>3. Append(answers, a) \in Seq(R)
  BY <1>2, AppendProperties
<1> QED BY <1>2, <1>3 DEF SendResponse, R

LEMMA ResetTypes ==
  ASSUME Reset
  PROVE  accept' = "line" /\ status' = 200 /\ request' \in Requests /\ request'.body = <<>>
BY DEF Reset, NoRequest, Requests

LEMMA RespondTypes ==
  ASSUME TypeInv, Respond
  PROVE  TypeInv'
<1>1. request \in Requests /\ BufferTypeOK' /\ rest' = rest /\ rest \in Seq(Bytes)
  BY SameBuffer DEF TypeInv, TypeOK, Respond
<1>2. PICK s \in Statuses(request) :
        SendResponse([status |-> s, reason |-> s, request |-> request])
  BY DEF Respond
<1>3. s \in Nat
  BY DEF Statuses
<1>4. answers' \in Seq([status : Nat, reason : Nat, request : Requests])
  <2>1. [status |-> s, reason |-> s, request |-> request] \in [status : Nat, reason : Nat, request : Requests]
    BY <1>1, <1>3
  <2> QED BY <1>2, <2>1, AnswerTypes
<1>5. phase' \in {"idle", "turn", "parse", "closed"} /\ closing' \in BOOLEAN
  BY DEF Respond, CloseConn, TypeInv, TypeOK
<1>6. accept' = "line" /\ status' = 200 /\ request' \in Requests /\ request'.body = <<>>
  BY ResetTypes DEF Respond
<1> QED BY <1>1, <1>4, <1>5, <1>6 DEF TypeInv, TypeOK, BodyBound

LEMMA RespondErrorTypes ==
  ASSUME TypeInv, RespondError
  PROVE  TypeInv'
<1>1. BufferTypeOK' /\ rest' = rest /\ rest \in Seq(Bytes)
  BY ClearStep DEF TypeInv, TypeOK, RespondError
<1>2. answers' \in Seq([status : Nat, reason : Nat, request : Requests])
  <2>1. [status |-> ErrorPage(status), reason |-> status, request |-> NoRequest]
          \in [status : Nat, reason : Nat, request : Requests]
    BY DEF TypeInv, TypeOK, ErrorPage, NoRequest, Requests
  <2> QED BY <2>1, AnswerTypes DEF RespondError
<1>3. phase' \in {"idle", "turn", "parse", "closed"} /\ closing' \in BOOLEAN
  BY DEF RespondError, CloseConn
<1>4. accept' = "line" /\ status' = 200 /\ request' \in Requests /\ request'.body = <<>>
  BY ResetTypes DEF RespondError
<1> QED BY <1>1, <1>2, <1>3, <1>4 DEF TypeInv, TypeOK, BodyBound

LEMMA FlattenType ==
  ASSUME script \in Seq(Messages), ClientAssumption
  PROVE  FlattenSeq(Rendered) \in Seq(Bytes) /\ After[1] = FlattenSeq(Rendered)
<1>1. /\ Len(script) \in Nat /\ After[1] = FlattenSeq(Rendered)
      /\ \A i \in 1..(Len(script) + 1) : After[i] \in Seq(Bytes)
  BY BufferAssumption, HttpAssumption, AfterIs
<1>2. 1 \in 1..(Len(script) + 1)
  BY <1>1
<1> QED BY <1>1, <1>2

LEMMA ScriptSent ==
  ASSUME Init
  PROVE  script \in Seq(Messages) /\ rest = FlattenSeq(Rendered)
<1>1. PICK n \in 1..MaxMessages : script \in [1..n -> Messages]
  BY DEF Init
<1>2. n \in Nat
  BY HttpAssumption DEF HttpAssumption
<1>3. script \in Seq(Messages)
  BY <1>1, <1>2, FunctionIsSeq
<1> QED BY <1>3 DEF Init, Rendered

LEMMA InitTypes ==
  ASSUME Init
  PROVE  TypeInv
<1>1. rest \in Seq(Bytes)
  BY ScriptSent, FlattenType, ClientAssumption
<1>2. BufferTypeOK
  BY BufferAssumption, InitStep DEF Init
<1>3. /\ request \in Requests /\ request.body = <<>> /\ accept = "line" /\ status = 200
      /\ phase = "idle" /\ closing = FALSE /\ answers = <<>>
  BY DEF Init, NoRequest, Requests
<1>4. answers \in Seq([status : Nat, reason : Nat, request : Requests])
  BY <1>3
<1> QED BY <1>1, <1>2, <1>3, <1>4 DEF TypeInv, TypeOK, BodyBound

LEMMA NextTypes ==
  ASSUME TypeInv, Next
  PROVE  TypeInv' /\ script' = script
<1>1. TypeInv'
  BY ArriveTypes, TurnTypes, LineTypes, HeaderTypesKept, BodyTypes, RespondTypes, RespondErrorTypes,
     BufferAssumption, HttpAssumption
  DEF Next, OnMessage
<1>2. script' = script
  BY DEF Next, OnMessage, Arrive, TurnBegins, ParseRequestLine, ParseHeader, ParseBody, Parsing,
         Respond, RespondError
<1> QED BY <1>1, <1>2

LEMMA StutterTypes ==
  ASSUME TypeInv, UNCHANGED vars
  PROVE  TypeInv'
<1>1. BufferTypeOK'
  BY SameBuffer DEF TypeInv, TypeOK, vars
<1>2. TypeOK'
  BY <1>1 DEF TypeInv, TypeOK, vars, contextVars
<1>3. BodyBound'
  BY DEF TypeInv, BodyBound, GetBodyLength, vars, contextVars
<1> QED BY <1>2, <1>3 DEF TypeInv

(* The parser's state, its buffer and what was answered keep their types,   *)
(* whatever has come and however it was cut.                                *)
THEOREM HttpTypeCorrect == Spec => []TypeOK
<1>1. Init => TypeInv
  BY InitTypes
<1>2. TypeInv /\ [Next]_vars => TypeInv'
  BY NextTypes, StutterTypes
<1>3. TypeInv => TypeOK
  BY DEF TypeInv
<1> QED BY <1>1, <1>2, <1>3, PTL DEF Spec

-----------------------------------------------------------------------------
(* Where the parser stands. *)

LEMMA Standing ==
  ASSUME ClientAssumption, HttpInv
  PROVE  /\ TypeInv /\ BufferTypeOK /\ request \in Requests
         /\ Len(answers) \in Nat /\ Len(script) \in Nat /\ Index \in 1..(Len(script) + 1)
         /\ rest \in Seq(Bytes) /\ Content \in Seq(Bytes) /\ Len(Content) = ReadableSize
         /\ ReadableSize \in Nat /\ After[Index] \in Seq(Bytes) /\ After[Len(script) + 1] = <<>>
         /\ Index <= Len(script) =>
              /\ Now \in Messages /\ Later \in Seq(Bytes) /\ After[Index] = Render(Now) \o Later
<1>1. TypeInv /\ BufferTypeOK /\ rest \in Seq(Bytes) /\ request \in Requests
      /\ answers \in Seq([status : Nat, reason : Nat, request : Requests])
  BY DEF HttpInv, TypeInv, TypeOK
<1>2. Len(answers) \in Nat
  BY <1>1, LenProperties
<1>3. /\ Len(script) \in Nat /\ After[Len(script) + 1] = <<>>
      /\ \A i \in 1..(Len(script) + 1) : After[i] \in Seq(Bytes)
      /\ \A i \in 1..Len(script) : /\ script[i] \in Messages
                                   /\ After[i] = Render(script[i]) \o After[i + 1]
  BY AfterIs, BufferAssumption, HttpAssumption DEF HttpInv
<1>4. Len(answers) <= Len(script)
  BY DEF HttpInv, Answered
<1>5. Index \in 1..(Len(script) + 1)
  BY <1>2, <1>3, <1>4 DEF Index
<1>6. After[Index] \in Seq(Bytes)
  BY <1>3, <1>5
<1>7. Content \in Seq(Bytes) /\ Len(Content) = ReadableSize /\ ReadableSize \in Nat
  BY <1>1, ContentHeld DEF BufferTypeOK
<1>8. ASSUME Index <= Len(script)
      PROVE  Now \in Messages /\ Later \in Seq(Bytes) /\ After[Index] = Render(Now) \o Later
  <2>1. Index \in 1..Len(script) /\ Index + 1 \in 1..(Len(script) + 1)
    BY <1>3, <1>5, <1>8
  <2> QED BY <1>3, <2>1 DEF Now, Later
<1> QED BY <1>1, <1>2, <1>3, <1>5, <1>6, <1>7, <1>8

LEMMA AnsweredKept ==
  ASSUME Answered, UNCHANGED <<script, answers, closing>>
  PROVE  Answered'
BY DEF Answered

(* A stage of the parser, of which what it does in step is still to prove. *)
LEMMA ParseKeeps ==
  ASSUME ClientAssumption, HttpInv, NEW stage, Parsing(stage), TypeInv',
         phase' \in {"parse", Quiet}, accept' \in {"accepted", "error"} => phase' = "parse",
         ~closing => InStep'
  PROVE  HttpInv'
<1>1. UNCHANGED <<script, rest, closing, answers>> /\ phase = "parse"
  BY DEF Parsing
<1>2. Answered'
  BY <1>1, AnsweredKept DEF HttpInv
<1>3. Index' = Index /\ Len(script)' = Len(script)
  BY <1>1, SameScript
<1>4. Phases'
  BY <1>1, <1>3 DEF HttpInv, Phases, Quiet
<1> QED BY <1>1, <1>2, <1>4 DEF HttpInv, TypeInv

LEMMA LongIsNotGood ==
  ASSUME HttpAssumption, NEW l, NEW S, Known(l, S)
  PROVE  Len(l) <= MaxLine /\ Len(l) + 1 <= MaxLine
BY DEF Known, HttpAssumption

LEMMA LineStays ==
  ASSUME ClientAssumption, HttpInv, ParseRequestLine, ~closing
  PROVE  InStep'
<1>1. /\ UNCHANGED <<script, rest, closing, answers>> /\ phase = "parse" /\ accept = "line"
      /\ ReadLine(FALSE)
  BY DEF ParseRequestLine, Parsing
<1>2. After' = After /\ Index' = Index /\ Now' = Now /\ Later' = Later
  BY <1>1, SameScript
<1>3. /\ BufferTypeOK /\ request \in Requests /\ rest \in Seq(Bytes) /\ Content \in Seq(Bytes)
      /\ Index <= Len(script) /\ Now \in Messages /\ Later \in Seq(Bytes)
      /\ After[Index] = Render(Now) \o Later
  BY <1>1, Standing DEF HttpInv, Phases
<1>4. request = NoRequest /\ Joins(After[Index], Content, rest)
  BY <1>1 DEF HttpInv, InStep, AtLine
<1> DEFINE x == FromHeader(Now, 1) \o Later
           l == Now.line
<1>5. /\ Len(Now.headers) \in Nat /\ 1 \in 1..(Len(Now.headers) + 1)
      /\ l \in Seq(Bytes \ {Newline})
  <2>1. Len(Now.headers) \in Nat /\ Now.line \in Seq(Bytes \ {Newline})
    BY <1>3, HeaderTypes, BufferAssumption, HttpAssumption
  <2> QED BY <2>1
<1>6. x \in Seq(Bytes)
  BY <1>3, <1>5, FromHeaderType, BufferAssumption, HttpAssumption
<1>7. Joins(After[Index], l \o CRLF, x)
  BY <1>3, MessageStart, BufferAssumption, HttpAssumption
<1>8. Len(l) \in Nat /\ Len(Content') = ReadableSize' /\ ReadableSize' \in Nat
  <2>1. BufferTypeOK'
    BY <1>1, <1>3, ReadLineStep
  <2> QED BY <1>1, <1>3, <1>5, <2>1, ReadLineStep, LenProperties
<1> HIDE DEF x, l
<1>9. \/ answer' = l \o <<Return>> /\ Joins(x, Content', rest)
      \/ /\ answer' = <<>> /\ Content' = Content /\ NoLineIn(Content)
         /\ Len(Content) <= Len(l) + 1
  BY <1>1, <1>3, <1>4, <1>5, <1>6, <1>7, LineRead, BufferAssumption, HttpAssumption
<1>10. CASE answer' = l \o <<Return>> /\ Joins(x, Content', rest)
  <2>1. answer' # <<>> /\ Text(answer') = l
    BY <1>5, <1>10, TextIs, BufferAssumption, HttpAssumption
  <2>2. ASSUME (Refuse(414) /\ Len(l) > MaxLine) \/ (Refuse(400) /\ ~Known(l, DOMAIN Lines))
        PROVE  InStep'
    <3>1. ~Known(l, DOMAIN Lines)
      BY <1>8, <2>2, LongIsNotGood, HttpAssumption DEF HttpAssumption
    <3>2. ~Good(Now)'
      BY <1>2, <3>1 DEF Good, l
    <3>3. accept' = "error" /\ phase' = "parse"
      BY <1>1, <2>2 DEF Refuse
    <3> QED BY <3>2, <3>3 DEF InStep
  <2>3. ASSUME Known(l, DOMAIN Lines), request' = [request EXCEPT !.line = l],
               accept' = "headers", UNCHANGED <<status, phase>>
        PROVE  InStep'
    <3>1. request'.line = l /\ request'.headers = {}
      BY <1>3, <1>4, <2>3 DEF Requests, NoRequest
    <3>2. LineTaken'
      BY <1>2, <2>3, <3>1 DEF LineTaken, l
    <3>3. FirstKnown(Now, 1 - 1) /\ FirstNames(Now, 1 - 1) = {}
      BY DEF FirstKnown, FirstNames
    <3>4. AtHeader(1)'
      BY <1>1, <1>2, <1>5, <1>10, <3>1, <3>3 DEF AtHeader, x
    <3>5. AtHeaders'
      BY <1>2, <1>5, <3>2, <3>4 DEF AtHeaders
    <3> QED BY <1>1, <2>3, <3>5 DEF InStep
  <2>4. \/ NoLine
        \/ Len(Text(answer')) > MaxLine /\ Refuse(414)
        \/ ~Known(Text(answer'), DOMAIN Lines) /\ Refuse(400)
        \/ /\ Known(Text(answer'), DOMAIN Lines)
           /\ request' = [request EXCEPT !.line = Text(answer')]
           /\ accept' = "headers" /\ UNCHANGED <<status, phase>>
    BY DEF ParseRequestLine
  <2>5. ~NoLine
    BY <2>1 DEF NoLine
  <2> QED BY <2>1, <2>2, <2>3, <2>4, <2>5
<1>11. CASE answer' = <<>> /\ Content' = Content /\ NoLineIn(Content) /\ Len(Content) <= Len(l) + 1
  <2>1. CASE WaitForMore
    <3>1. AtLine'
      BY <1>1, <1>2, <1>4, <1>11, <2>1 DEF AtLine, WaitForMore, contextVars
    <3>2. Waiting' /\ accept' = "line"
      BY <1>1, <1>11, <2>1 DEF Waiting, WaitForMore, contextVars
    <3> QED BY <3>1, <3>2 DEF InStep
  <2>2. CASE ReadableSize' > MaxLine /\ Refuse(414)
    <3>1. ~Known(l, DOMAIN Lines)
      <4>1. MaxLine \in Nat
        BY HttpAssumption DEF HttpAssumption
      <4>2. ~(Len(l) + 1 <= MaxLine)
        BY <1>8, <1>11, <2>2, <4>1
      <4> QED BY <4>2, LongIsNotGood, HttpAssumption
    <3>2. ~Good(Now)'
      BY <1>2, <3>1 DEF Good, l
    <3>3. accept' = "error" /\ phase' = "parse"
      BY <1>1, <2>2 DEF Refuse
    <3> QED BY <3>2, <3>3 DEF InStep
  <2> QED BY <1>11, <2>1, <2>2 DEF ParseRequestLine, NoLine
<1> QED BY <1>9, <1>10, <1>11

LEMMA OneIsAll ==
  ASSUME NEW S, NEW s \in Seq(S), Len(s) = 1
  PROVE  s = <<s[1]>>
<1>1. s[1] \in S
  BY ElementOfSeq
<1>2. <<s[1]>> \in Seq(S) /\ Len(<<s[1]>>) = 1 /\ <<s[1]>>[1] = s[1]
  BY <1>1
<1> DEFINE t == <<s[1]>>
<1>3. t \in Seq(S) /\ Len(t) = 1 /\ t[1] = s[1]
  BY <1>2
<1> HIDE DEF t
<1>4. \A i \in 1..Len(s) : s[i] = t[i]
  BY <1>3
<1>5. s = t
  BY <1>3, <1>4, SeqEqual
<1> QED BY <1>5 DEF t

LEMMA NameOf ==
  ASSUME BufferAssumption, HttpAssumption, ClientAssumption, NEW m \in Messages,
         NEW j \in 1..Len(m.headers), Known(m.headers[j], Headers)
  PROVE  m.headers[j][1] \in Headers /\ Has(m, m.headers[j][1])
<1>1. m.headers[j] \in Seq(Bytes \ {Newline})
  BY HeaderTypes
<1>2. Len(m.headers[j]) = 1 /\ m.headers[j][1] \in Headers
  BY DEF Known
<1>3. m.headers[j] = <<m.headers[j][1]>>
  BY <1>1, <1>2, OneIsAll
<1>4. j \in DOMAIN m.headers
  <2>1. m.headers \in Seq(Seq(Bytes \ {Newline}) \ {<<>>})
    BY DEF ClientAssumption
  <2> QED BY <2>1, LenProperties
<1> QED BY <1>2, <1>3, <1>4 DEF Has

LEMMA NamesGrow ==
  ASSUME BufferAssumption, HttpAssumption, ClientAssumption, NEW m \in Messages,
         NEW h \in 1..Len(m.headers), request \in Requests,
         FirstKnown(m, h - 1), Known(m.headers[h], Headers),
         request.headers = FirstNames(m, h - 1), SetHeader(m.headers[h][1])
  PROVE  /\ FirstKnown(m, (h + 1) - 1) /\ request'.headers = FirstNames(m, (h + 1) - 1)
         /\ request'.line = request.line /\ request'.body = request.body
<1> DEFINE x == m.headers[h][1]
           k == Len(m.headers)
<1>0. k \in Nat /\ h \in 1..k
  BY HeaderTypes
<1>1. \A j \in 1..((h + 1) - 1) : j \in 1..(h - 1) \/ j = h
  BY <1>0
<1>2. FirstKnown(m, (h + 1) - 1)
  BY <1>1 DEF FirstKnown
<1>3. FirstNames(m, (h + 1) - 1) = FirstNames(m, h - 1) \union {x}
  <2>1. \A j \in 1..(h - 1) : j \in 1..((h + 1) - 1)
    BY <1>0
  <2>2. h \in 1..((h + 1) - 1)
    BY <1>0
  <2> QED BY <1>1, <2>1, <2>2 DEF FirstNames
<1>4. ASSUME NEW y \in FirstNames(m, h - 1) PROVE Has(m, y)
  <2>1. PICK j \in 1..(h - 1) : y = m.headers[j][1]
    BY DEF FirstNames
  <2>2. j \in 1..k
    BY <1>0, <2>1
  <2> QED BY <2>1, <2>2, NameOf DEF FirstKnown
<1>5. Has(m, x)
  BY <1>0, NameOf
<1>6. ~(Has(m, "keepalive") /\ Has(m, "close"))
  BY DEF ClientAssumption
<1> HIDE DEF x
<1> DEFINE F == FirstNames(m, h - 1)
           H == {x} \union (IF x \in {"keepalive", "close"}
                            THEN F \ {"keepalive", "close"} ELSE F)
<1>7. H = F \union {x}
  BY <1>4, <1>5, <1>6
<1>8. request' = [request EXCEPT !.headers = H]
  BY DEF SetHeader, x
<1> HIDE DEF H, F
<1>9. request'.headers = H /\ request'.line = request.line /\ request'.body = request.body
  BY <1>8 DEF Requests
<1> QED BY <1>2, <1>3, <1>7, <1>9 DEF F

LEMMA UnknownIsNotGood ==
  ASSUME BufferAssumption, HttpAssumption, ClientAssumption, NEW m \in Messages,
         NEW h \in 1..Len(m.headers), ~Known(m.headers[h], Headers)
  PROVE  ~Good(m)
<1>1. h \in DOMAIN m.headers
  <2>1. m.headers \in Seq(Seq(Bytes \ {Newline}) \ {<<>>})
    BY DEF ClientAssumption
  <2> QED BY <2>1, LenProperties
<1> QED BY <1>1 DEF Good, Known

LEMMA HeaderStays ==
  ASSUME ClientAssumption, HttpInv, ParseHeader, ~closing
  PROVE  InStep'
<1>1. /\ UNCHANGED <<script, rest, closing, answers>> /\ phase = "parse" /\ accept = "headers"
      /\ ReadLine(FALSE)
  BY DEF ParseHeader, Parsing
<1>2. After' = After /\ Index' = Index /\ Now' = Now /\ Later' = Later
  BY <1>1, SameScript
<1>3. /\ BufferTypeOK /\ request \in Requests /\ rest \in Seq(Bytes) /\ Content \in Seq(Bytes)
      /\ Index <= Len(script) /\ Now \in Messages /\ Later \in Seq(Bytes)
  BY <1>1, Standing DEF HttpInv, Phases
<1>4. LineTaken /\ \E h \in 1..(Len(Now.headers) + 1) : AtHeader(h)
  BY <1>1 DEF HttpInv, InStep, AtHeaders
<1>5. Len(Now.headers) \in Nat /\ Now.body \in Seq(Bytes)
  BY <1>3, HeaderTypes, BufferAssumption, HttpAssumption
<1>6. PICK h \in 1..(Len(Now.headers) + 1) : AtHeader(h)
  BY <1>4
<1>7. request.body = <<>>
  BY <1>1 DEF HttpInv, BodyBound
<1>8. MaxLine \in Nat /\ MaxLine > 1
  BY HttpAssumption DEF HttpAssumption
<1>9. Len(Content') = ReadableSize' /\ ReadableSize' \in Nat
  <2>1. BufferTypeOK'
    BY <1>1, <1>3, ReadLineStep
  <2> QED BY <1>1, <1>3, <2>1, ReadLineStep, LenProperties
<1> DEFINE y == FromHeader(Now, h) \o Later
<1>10. Joins(y, Content, rest)
  BY <1>6 DEF AtHeader
<1> HIDE DEF y
<1>11. \/ NoLine
       \/ /\ answer' # <<>>
          /\ \/ /\ Text(answer') = <<>> /\ accept' = "body" /\ UNCHANGED <<status, request, phase>>
             \/ Len(Text(answer')) > MaxLine /\ Refuse(414)
             \/ /\ Text(answer') # <<>> /\ ~Known(Text(answer'), Headers) /\ Refuse(400)
             \/ /\ Known(Text(answer'), Headers) /\ SetHeader(Text(answer')[1])
                /\ UNCHANGED <<accept, status, phase>>
  BY DEF ParseHeader
<1>12. ASSUME NoLine, Content' = Content, NoLineIn(Content), ReadableSize' > MaxLine => ~Good(Now)
       PROVE  InStep'
  <2>1. CASE WaitForMore
    <3>1. AtHeader(h)'
      BY <1>1, <1>2, <1>6, <1>12, <2>1 DEF AtHeader, WaitForMore, contextVars
    <3>2. LineTaken'
      BY <1>2, <1>4, <2>1 DEF LineTaken, WaitForMore, contextVars
    <3>3. AtHeaders'
      BY <1>2, <3>1, <3>2 DEF AtHeaders
    <3>4. Waiting' /\ accept' = "headers"
      BY <1>1, <1>12, <2>1 DEF Waiting, WaitForMore, contextVars
    <3> QED BY <3>3, <3>4 DEF InStep
  <2>2. CASE ReadableSize' > MaxLine /\ Refuse(414)
    <3>1. ~Good(Now)'
      BY <1>2, <1>12, <2>2
    <3>2. accept' = "error" /\ phase' = "parse"
      BY <1>1, <2>2 DEF Refuse
    <3> QED BY <3>1, <3>2 DEF InStep
  <2> QED BY <1>12, <2>1, <2>2 DEF NoLine
<1>13. CASE h \in 1..Len(Now.headers)
  <2> DEFINE l == Now.headers[h]
             x == FromHeader(Now, h + 1) \o Later
  <2>1. l \in Seq(Bytes \ {Newline}) /\ l # <<>> /\ h + 1 \in 1..(Len(Now.headers) + 1)
    <3>1. \A i \in 1..Len(Now.headers) : Now.headers[i] \in Seq(Bytes \ {Newline}) /\ Now.headers[i] # <<>>
      BY <1>3, HeaderTypes, BufferAssumption, HttpAssumption
    <3>2. h + 1 \in 1..(Len(Now.headers) + 1)
      BY <1>5, <1>13
    <3> QED BY <1>13, <3>1, <3>2
  <2>2. x \in Seq(Bytes)
    BY <1>3, <2>1, FromHeaderType, BufferAssumption, HttpAssumption
  <2>3. Joins(y, l \o CRLF, x)
    BY <1>3, <1>13, HeaderNext, BufferAssumption, HttpAssumption DEF y
  <2>4. Len(l) \in Nat
    BY <2>1, LenProperties
  <2>5. ~Known(l, Headers) => ~Good(Now)
    BY <1>3, <1>13, UnknownIsNotGood, BufferAssumption, HttpAssumption
  <2> HIDE DEF l, x
  <2>6. \/ answer' = l \o <<Return>> /\ Joins(x, Content', rest)
        \/ /\ answer' = <<>> /\ Content' = Content /\ NoLineIn(Content)
           /\ Len(Content) <= Len(l) + 1
    BY <1>1, <1>3, <1>10, <2>1, <2>2, <2>3, LineRead, BufferAssumption, HttpAssumption
  <2>7. CASE answer' = l \o <<Return>> /\ Joins(x, Content', rest)
    <3>1. answer' # <<>> /\ Text(answer') = l
      BY <2>1, <2>7, TextIs, BufferAssumption, HttpAssumption
    <3>2. ASSUME (Refuse(414) /\ Len(l) > MaxLine) \/ (Refuse(400) /\ ~Known(l, Headers))
          PROVE  InStep'
      <4>1. ~Known(l, Headers)
        BY <1>8, <2>4, <3>2, LongIsNotGood, HttpAssumption
      <4>2. ~Good(Now)'
        BY <1>2, <2>5, <4>1
      <4>3. accept' = "error" /\ phase' = "parse"
        BY <1>1, <3>2 DEF Refuse
      <4> QED BY <4>2, <4>3 DEF InStep
    <3>3. ASSUME Known(l, Headers), SetHeader(l[1]), UNCHANGED <<accept, status, phase>>
          PROVE  InStep'
      <4>1. /\ FirstKnown(Now, (h + 1) - 1) /\ request'.headers = FirstNames(Now, (h + 1) - 1)
            /\ request'.line = request.line
        <5>1. /\ FirstKnown(Now, h - 1) /\ request.headers = FirstNames(Now, h - 1)
              /\ Known(Now.headers[h], Headers) /\ SetHeader(Now.headers[h][1])
          BY <1>6, <3>3 DEF AtHeader, l
        <5> QED BY <1>3, <1>13, <5>1, NamesGrow, BufferAssumption, HttpAssumption
      <4>2. AtHeader(h + 1)'
        BY <1>1, <1>2, <2>1, <2>7, <4>1 DEF AtHeader, x
      <4>3. LineTaken'
        BY <1>2, <1>4, <4>1 DEF LineTaken
      <4>4. AtHeaders'
        BY <1>2, <2>1, <4>2, <4>3 DEF AtHeaders
      <4> QED BY <1>1, <3>3, <4>4 DEF InStep
    <3>4. ~NoLine
      BY <3>1 DEF NoLine
    <3>5. l # <<>>
      BY <2>1
    <3> QED BY <1>11, <3>1, <3>2, <3>3, <3>4, <3>5
  <2>8. CASE answer' = <<>> /\ Content' = Content /\ NoLineIn(Content) /\ Len(Content) <= Len(l) + 1
    <3>1. ReadableSize' > MaxLine => ~Good(Now)
      <4>1. ReadableSize' > MaxLine => ~(Len(l) + 1 <= MaxLine)
        BY <1>8, <1>9, <2>4, <2>8
      <4> QED BY <2>5, <4>1, LongIsNotGood, HttpAssumption
    <3>2. NoLine
      BY <1>11, <2>8
    <3> QED BY <1>12, <2>8, <3>1, <3>2
  <2> QED BY <2>6, <2>7, <2>8
<1>14. CASE h = Len(Now.headers) + 1
  <2> DEFINE x == Now.body \o Later
             e == <<>>
  <2>1. x \in Seq(Bytes) /\ e \in Seq(Bytes \ {Newline}) /\ Len(e) = 0
    BY <1>3, <1>5, ConcatProperties
  <2>2. Joins(y, e \o CRLF, x)
    BY <1>3, <1>14, HeadersDone, BufferAssumption, HttpAssumption DEF y
  <2> HIDE DEF x, e
  <2>3. \/ answer' = e \o <<Return>> /\ Joins(x, Content', rest)
        \/ /\ answer' = <<>> /\ Content' = Content /\ NoLineIn(Content)
           /\ Len(Content) <= Len(e) + 1
    BY <1>1, <1>3, <1>10, <2>1, <2>2, LineRead, BufferAssumption, HttpAssumption
  <2>4. CASE answer' = e \o <<Return>> /\ Joins(x, Content', rest)
    <3>1. answer' # <<>> /\ Text(answer') = e
      BY <2>1, <2>4, TextIs, BufferAssumption, HttpAssumption
    <3>2. ~Known(e, Headers) /\ ~(Len(e) > MaxLine) /\ e = <<>>
      BY <1>8, <2>1 DEF Known, e
    <3>3. ~NoLine
      BY <3>1 DEF NoLine
    <3>4. accept' = "body" /\ UNCHANGED <<status, request, phase>>
      BY <1>11, <3>1, <3>2, <3>3
    <3>5. (h - 1 = Len(Now.headers)) /\ FirstKnown(Now, h - 1) /\ request.headers = FirstNames(Now, h - 1)
      BY <1>5, <1>6, <1>14 DEF AtHeader
    <3>6. \E b \in Seq(Bytes) : Now.body = request.body \o b /\ Joins(b \o Later, Content', rest)
      <4>1. Now.body = <<>> \o Now.body
        BY <1>5, ConcatEmptySeq
      <4>2. Joins(Now.body \o Later, Content', rest)
        BY <2>4 DEF x
      <4> QED BY <1>5, <1>7, <4>1, <4>2
    <3>7. AtBody'
      BY <1>1, <1>2, <1>4, <3>4, <3>5, <3>6 DEF AtBody, LineTaken
    <3> QED BY <1>1, <3>4, <3>7 DEF InStep
  <2>5. CASE answer' = <<>> /\ Content' = Content /\ NoLineIn(Content) /\ Len(Content) <= Len(e) + 1
    <3>1. ~(ReadableSize' > MaxLine)
      BY <1>3, <1>8, <1>9, <2>1, <2>5, LenProperties
    <3>2. NoLine
      BY <1>11, <2>5
    <3> QED BY <1>12, <2>5, <3>1, <3>2
  <2> QED BY <2>3, <2>4, <2>5
<1>15. h \in 1..Len(Now.headers) \/ h = Len(Now.headers) + 1
  BY <1>5
<1> QED BY <1>13, <1>14, <1>15

(* What the headers say of the body, when they are all known. *)
LEMMA LengthSaid ==
  ASSUME BufferAssumption, HttpAssumption, ClientAssumption, NEW m \in Messages,
         FirstKnown(m, Len(m.headers)), request.headers = FirstNames(m, Len(m.headers)),
         request.line = m.line, Known(m.line, DOMAIN Lines)
  PROVE  /\ "chunked" \in request.headers => ~Good(m)
         /\ "chunked" \notin request.headers =>
              /\ Good(m) /\ Len(m.body) = GetBodyLength
              /\ Meant(m) = [line |-> request.line, headers |-> request.headers, body |-> m.body]
<1>1. Len(m.headers) \in Nat /\ DOMAIN m.headers = 1..Len(m.headers)
  <2>1. m.headers \in Seq(Seq(Bytes \ {Newline}) \ {<<>>})
    BY DEF ClientAssumption
  <2> QED BY <2>1, LenProperties
<1>2. \A i \in DOMAIN m.headers : Known(m.headers[i], Headers)
  BY <1>1 DEF FirstKnown
<1>3. ASSUME "chunked" \in request.headers PROVE ~Good(m)
  <2>1. PICK j \in DOMAIN m.headers : m.headers[j][1] = "chunked"
    BY <1>1, <1>3 DEF FirstNames
  <2> QED BY <2>1 DEF Good, Known
<1>4. ASSUME "chunked" \notin request.headers
      PROVE  /\ Good(m) /\ Len(m.body) = GetBodyLength
             /\ Meant(m) = [line |-> request.line, headers |-> request.headers, body |-> m.body]
  <2>1. Good(m)
    <3>1. \A i \in DOMAIN m.headers : m.headers[i][1] # "chunked"
      BY <1>1, <1>4 DEF FirstNames
    <3> QED BY <1>2, <3>1 DEF Good, Known
  <2>2. "length" \in request.headers <=> Has(m, "length")
    <3>1. ASSUME "length" \in request.headers PROVE Has(m, "length")
      <4>1. PICK j \in 1..Len(m.headers) : m.headers[j][1] = "length"
        BY <3>1 DEF FirstNames
      <4>2. Known(m.headers[j], Headers)
        BY <1>1, <1>2
      <4> QED BY <4>1, <4>2, NameOf
    <3>2. ASSUME Has(m, "length") PROVE "length" \in request.headers
      <4>1. PICK j \in 1..Len(m.headers) : m.headers[j] = <<"length">>
        BY <1>1, <3>2 DEF Has
      <4>2. m.headers[j][1] = "length"
        BY <4>1
      <4> QED BY <4>2 DEF FirstNames
    <3> QED BY <3>1, <3>2
  <2>3. Len(m.body) = GetBodyLength
    <3>1. Len(m.body) = IF Has(m, "length") THEN BodyLength ELSE 0
      BY <2>1 DEF ClientAssumption
    <3> QED BY <2>2, <3>1 DEF GetBodyLength
  <2>4. Meant(m) = [line |-> request.line, headers |-> request.headers, body |-> m.body]
    BY <1>1 DEF Meant, FirstNames
  <2> QED BY <2>1, <2>3, <2>4
<1> QED BY <1>3, <1>4

LEMMA BodyStays ==
  ASSUME ClientAssumption, HttpInv, ParseBody, ~closing
  PROVE  InStep'
<1>1. /\ UNCHANGED <<script, rest, closing, answers>> /\ phase = "parse" /\ accept = "body"
  BY DEF ParseBody, Parsing
<1>2. After' = After /\ Index' = Index /\ Now' = Now /\ Later' = Later
  BY <1>1, SameScript
<1>3. /\ BufferTypeOK /\ request \in Requests /\ rest \in Seq(Bytes) /\ Content \in Seq(Bytes)
      /\ Now \in Messages /\ Later \in Seq(Bytes)
  BY <1>1, Standing DEF HttpInv, Phases
<1>4. /\ LineTaken /\ FirstKnown(Now, Len(Now.headers))
      /\ request.headers = FirstNames(Now, Len(Now.headers))
      /\ \E b \in Seq(Bytes) : Now.body = request.body \o b /\ Joins(b \o Later, Content, rest)
  BY <1>1 DEF HttpInv, InStep, AtBody
<1>5. /\ "chunked" \in request.headers => ~Good(Now)
      /\ "chunked" \notin request.headers =>
           /\ Good(Now) /\ Len(Now.body) = GetBodyLength
           /\ Meant(Now) = [line |-> request.line, headers |-> request.headers, body |-> Now.body]
  <2>1. request.line = Now.line /\ Known(Now.line, DOMAIN Lines)
    BY <1>4 DEF LineTaken
  <2> QED BY <1>3, <1>4, <2>1, LengthSaid, BufferAssumption, HttpAssumption
<1>6. PICK b \in Seq(Bytes) : Now.body = request.body \o b /\ Joins(b \o Later, Content, rest)
  BY <1>4
<1> DEFINE left == GetBodyLength - Len(request.body)
<1>7. CASE "chunked" \in request.headers /\ Refuse(501)
  <2>1. accept' = "error" /\ phase' = "parse"
    BY <1>1, <1>7 DEF Refuse
  <2>2. ~Good(Now)'
    BY <1>2, <1>5, <1>7
  <2> QED BY <2>1, <2>2 DEF InStep
<1>8. ASSUME "chunked" \notin request.headers,
             Read(IF ReadableSize >= left THEN left ELSE ReadableSize),
             request' = [request EXCEPT !.body = @ \o answer'],
             \/ ReadableSize >= left /\ accept' = "accepted" /\ UNCHANGED phase
             \/ ReadableSize < left /\ UNCHANGED accept /\ phase' = Quiet
      PROVE  InStep'
  <2> DEFINE c == request.body
             a == answer'
             x == Later
             y == rest
  <2>1. c \in Seq(Bytes) /\ Len(c) \in Nat /\ Len(b) \in Nat
    BY <1>3, LenProperties DEF Requests
  <2>2. left = Len(b)
    <3>1. Len(Now.body) = GetBodyLength /\ Len(c \o b) = Len(c) + Len(b) /\ Now.body = c \o b
      BY <1>5, <1>6, <1>8, <2>1, ConcatProperties
    <3> QED BY <2>1, <3>1
  <2>3. x \in Seq(Bytes) /\ y \in Seq(Bytes)
    BY <1>3
  <2>4. Joins(b \o x, Content, y) /\ Joins(b \o x, b, x)
    BY <1>6 DEF Joins
  <2>5. Read(IF ReadableSize >= Len(b) THEN Len(b) ELSE ReadableSize)
    BY <1>8, <2>2
  <2> HIDE DEF x, y
  <2>6. /\ ReadableSize \in Nat /\ a \in Seq(Bytes)
        /\ ReadableSize >= Len(b) => a = b /\ Joins(x, Content', y)
        /\ ReadableSize < Len(b) => /\ Content' = <<>>
                                    /\ \E t \in Seq(Bytes) : /\ b = a \o t /\ Len(t) > 0
                                                             /\ Joins(t \o x, Content', y)
    BY <1>3, <2>3, <2>4, <2>5, BodyRead
  <2> HIDE DEF c, a
  <2>7. request' = [request EXCEPT !.body = c \o a]
    BY <1>8 DEF c, a
  <2>8. request'.line = request.line /\ request'.headers = request.headers /\ request'.body = c \o a
    BY <1>3, <2>7 DEF Requests
  <2>9. CASE ReadableSize >= Len(b) /\ accept' = "accepted" /\ UNCHANGED phase
    <3>1. c \o a = Now.body
      BY <1>6, <2>6, <2>9 DEF c
    <3>2. request' = [line |-> request.line, headers |-> request.headers, body |-> c \o a]
      BY <1>3, <2>7 DEF Requests
    <3>3. request' = Meant(Now)
      BY <1>5, <1>8, <3>1, <3>2
    <3>4. Joins(Later, Content', rest)
      BY <2>6, <2>9 DEF x, y
    <3>5. AtEnd'
      BY <1>1, <1>2, <1>5, <1>8, <3>3, <3>4 DEF AtEnd
    <3> QED BY <1>1, <2>9, <3>5 DEF InStep
  <2>10. CASE ReadableSize < Len(b) /\ UNCHANGED accept /\ phase' = Quiet
    <3>1. PICK t \in Seq(Bytes) : b = a \o t /\ Len(t) > 0 /\ Joins(t \o x, Content', y)
      BY <2>6, <2>10
    <3>2. Now.body = (c \o a) \o t
      <4> DEFINE w == Now.body
      <4>1. Joins(w, c, b) /\ Joins(b, a, t)
        BY <1>6, <3>1 DEF c, Joins
      <4> HIDE DEF w
      <4>2. Joins(w, c \o a, t)
        BY <2>1, <2>6, <4>1, Arrives
      <4> QED BY <4>2 DEF Joins, w
    <3>3. Joins(t \o Later, Content', rest)
      BY <3>1 DEF x, y
    <3>4. AtBody'
      <4>1. LineTaken'
        BY <1>2, <1>4, <2>8 DEF LineTaken
      <4>2. Now'.body = request'.body \o t /\ Joins(t \o Later', Content', rest')
        BY <1>1, <1>2, <2>8, <3>2, <3>3
      <4>3. FirstKnown(Now', Len(Now'.headers)) /\ request'.headers = FirstNames(Now', Len(Now'.headers))
        BY <1>2, <1>4, <2>8
      <4> QED BY <4>1, <4>2, <4>3 DEF AtBody
    <3>5. Waiting'
      <4>1. Len(c \o a) \in Nat /\ Len(t) \in Nat /\ Len((c \o a) \o t) = Len(c \o a) + Len(t)
        <5>1. c \o a \in Seq(Bytes)
          BY <2>1, <2>6, ConcatProperties
        <5> QED BY <5>1, LenProperties, ConcatProperties
      <4>2. Len(request'.body) < Len(Now'.body)
        BY <1>2, <2>8, <3>1, <3>2, <4>1
      <4>3. Content' = <<>>
        BY <2>6, <2>10
      <4>4. accept' = "body"
        BY <1>1, <2>10
      <4> QED BY <4>2, <4>3, <4>4 DEF Waiting
    <3> QED BY <1>1, <2>10, <3>4, <3>5 DEF InStep
  <2>11. ReadableSize >= left <=> ReadableSize >= Len(b)
    BY <2>2
  <2>12. ReadableSize < left <=> ReadableSize < Len(b)
    BY <2>2
  <2> QED BY <1>8, <2>9, <2>10, <2>11, <2>12
<1> QED BY <1>7, <1>8 DEF ParseBody

LEMMA ArriveStays ==
  ASSUME ClientAssumption, HttpInv, Arrive
  PROVE  HttpInv'
<1>1. /\ UNCHANGED <<script, accept, status, request, closing, answers>>
      /\ phase = "idle" /\ phase' = "turn"
  BY DEF Arrive, contextVars
<1>2. After' = After /\ Index' = Index /\ Now' = Now /\ Later' = Later
  BY <1>1, SameScript
<1>3. TypeInv /\ rest \in Seq(Bytes) /\ Content \in Seq(Bytes)
  BY Standing
<1>4. TypeInv'
  BY <1>3, ArriveTypes, BufferAssumption
<1>5. PICK d \in Seq(Bytes) : Len(d) > 0 /\ Content' = Content \o d /\ Joins(rest, d, rest')
  BY <1>3, ArriveTypes, BufferAssumption
<1>6. rest' \in Seq(Bytes)
  BY <1>4 DEF TypeInv, TypeOK
<1>7. \A w : Joins(w, Content, rest) => Joins(w, Content', rest')
  <2> TAKE w
  <2> DEFINE a == Content
             b == rest
             e == rest'
  <2>1. a \in Seq(Bytes) /\ e \in Seq(Bytes) /\ Joins(b, d, e)
    BY <1>3, <1>5, <1>6
  <2> HIDE DEF a, b, e
  <2>2. Joins(w, a, b) => Joins(w, a \o d, e)
    BY <2>1, Arrives
  <2> QED BY <1>5, <2>2 DEF a, b, e
<1>8. Content' # <<>>
  <2>1. Len(Content \o d) = Len(Content) + Len(d) /\ Len(Content) \in Nat /\ Len(d) \in Nat
    BY <1>3, ConcatProperties, LenProperties
  <2>2. Len(Content') > 0
    BY <1>5, <2>1
  <2> QED BY <2>2
<1>9. ~closing /\ accept \notin {"accepted", "error"} /\ (accept # "line" => Index <= Len(script))
  BY <1>1 DEF HttpInv, Phases
<1>10. Phases'
  BY <1>1, <1>2, <1>8, <1>9 DEF Phases
<1>11. InStep'
  <2>1. (accept = "line" => AtLine) /\ (accept = "headers" => AtHeaders) /\ (accept = "body" => AtBody)
    BY <1>9 DEF HttpInv, InStep
  <2>2. AtLine => AtLine'
    BY <1>1, <1>2, <1>7 DEF AtLine
  <2>3. AtHeaders => AtHeaders'
    <3>1. \A h \in 1..(Len(Now.headers) + 1) : AtHeader(h) => AtHeader(h)'
      BY <1>1, <1>2, <1>7 DEF AtHeader
    <3> QED BY <1>1, <1>2, <3>1 DEF AtHeaders, LineTaken
  <2>4. AtBody => AtBody'
    BY <1>1, <1>2, <1>7 DEF AtBody, LineTaken
  <2> QED BY <1>1, <1>9, <2>1, <2>2, <2>3, <2>4 DEF InStep
<1>12. Answered'
  BY <1>1, AnsweredKept DEF HttpInv
<1> QED BY <1>1, <1>4, <1>10, <1>11, <1>12 DEF HttpInv, TypeInv

LEMMA NothingComes ==
  ASSUME NEW S, NEW a \in Seq(S), NEW b \in Seq(S), Joins(<<>>, a, b)
  PROVE  a = <<>>
<1>1. Len(a) \in Nat /\ Len(b) \in Nat /\ Len(a \o b) = Len(a) + Len(b)
  BY ConcatProperties, LenProperties
<1>2. a \o b = <<>> /\ Len(<<>>) = 0
  BY DEF Joins
<1>3. Len(a) = 0
  BY <1>1, <1>2
<1> QED BY <1>3, EmptySeq

LEMMA TurnStays ==
  ASSUME ClientAssumption, HttpInv, TurnBegins
  PROVE  HttpInv'
<1>1. /\ UNCHANGED <<script, rest, accept, status, request, closing, answers>>
      /\ phase = "turn" /\ phase' = IF ReadableSize > 0 THEN "parse" ELSE Quiet
      /\ UNCHANGED bufferVars
  BY DEF TurnBegins, contextVars
<1>2. After' = After /\ Index' = Index /\ Now' = Now /\ Later' = Later
  BY <1>1, SameScript
<1>3. /\ TypeInv /\ BufferTypeOK /\ rest \in Seq(Bytes) /\ Content \in Seq(Bytes)
      /\ Len(Content) = ReadableSize /\ ReadableSize \in Nat
      /\ Index \in 1..(Len(script) + 1) /\ Len(script) \in Nat /\ After[Len(script) + 1] = <<>>
  BY Standing
<1>4. TypeInv'
  BY <1>3, TurnTypes
<1>5. Content' = Content
  BY <1>1, <1>3, SameBuffer
<1>6. /\ accept \notin {"accepted", "error"}
      /\ ~closing /\ accept # "line" => Index <= Len(script)
      /\ ~closing /\ Content = <<>> => accept = "line"
  BY <1>1 DEF HttpInv, Phases
<1>7. ASSUME ~closing, ReadableSize > 0 PROVE Index <= Len(script)
  <2>1. CASE accept = "line" /\ Index = Len(script) + 1
    <3>1. Joins(<<>>, Content, rest)
      BY <1>3, <1>7, <2>1 DEF HttpInv, InStep, AtLine
    <3>2. Content = <<>>
      BY <1>3, <3>1, NothingComes
    <3> QED BY <1>3, <1>7, <3>2
  <2> QED BY <1>3, <1>6, <1>7, <2>1
<1>8. Phases'
  <2>1. phase' = "parse" => ReadableSize > 0
    BY <1>1 DEF Quiet
  <2> QED BY <1>1, <1>2, <1>6, <1>7, <2>1 DEF Phases, Quiet
<1>9. ASSUME ~closing PROVE InStep'
  <2>1. (accept = "line" => AtLine) /\ (accept = "headers" => AtHeaders) /\ (accept = "body" => AtBody)
    BY <1>9 DEF HttpInv, InStep
  <2>2. AtLine => AtLine'
    BY <1>1, <1>2, <1>5 DEF AtLine
  <2>3. AtHeaders => AtHeaders'
    <3>1. \A h \in 1..(Len(Now.headers) + 1) : AtHeader(h) => AtHeader(h)'
      BY <1>1, <1>2, <1>5 DEF AtHeader
    <3> QED BY <1>1, <1>2, <3>1 DEF AtHeaders, LineTaken
  <2>4. AtBody => AtBody'
    BY <1>1, <1>2, <1>5 DEF AtBody, LineTaken
  <2>5. phase' = "idle" => Waiting'
    <3>1. SUFFICES ASSUME phase' = "idle" PROVE Waiting'
      OBVIOUS
    <3>2. Len(Content) = 0
      BY <1>1, <1>3, <3>1
    <3>3. Content = <<>>
      BY <1>3, <3>2, EmptySeq
    <3> QED BY <1>1, <1>5, <1>6, <1>9, <3>2, <3>3 DEF Waiting, NoLineIn
  <2> QED BY <1>1, <1>6, <2>1, <2>2, <2>3, <2>4, <2>5 DEF InStep
<1>10. Answered'
  BY <1>1, AnsweredKept DEF HttpInv
<1> QED BY <1>1, <1>4, <1>8, <1>9, <1>10 DEF HttpInv, TypeInv

(* An answer to the message the parser is at. *)
LEMMA AnswerGiven ==
  ASSUME ClientAssumption, HttpInv, phase = "parse", ~closing, closing' \in BOOLEAN,
         NEW a \in Records, answers' = Append(answers, a), script' = script,
         a.request = Outcome(Now), Ends(Now) <=> closing'
  PROVE  Answered' /\ Index' = Index + 1 /\ After' = After
<1>1. Index <= Len(script) /\ Len(answers) \in Nat /\ Len(script) \in Nat
  BY Standing DEF HttpInv, Phases
<1>2. answers \in Seq(Records)
  BY DEF HttpInv, TypeOK, Records
<1>3. /\ Len(answers') = Len(answers) + 1 /\ answers'[Len(answers) + 1] = a
      /\ \A j \in 1..Len(answers) : answers'[j] = answers[j]
  BY <1>2, AppendProperties
<1>4. Index' = Index + 1
  BY <1>3 DEF Index
<1>5. \A j \in 1..Len(answers) : answers[j].request = Outcome(script[j]) /\ ~Ends(script[j])
  BY DEF HttpInv, Answered
<1>6. ASSUME NEW j \in 1..Len(answers')
      PROVE  /\ answers'[j].request = Outcome(script[j])
             /\ Ends(script[j]) <=> closing' /\ j = Len(answers')
  <2>1. CASE j \in 1..Len(answers)
    <3>1. j # Len(answers')
      BY <1>1, <1>3, <2>1
    <3> QED BY <1>3, <1>5, <2>1, <3>1
  <2>2. CASE j = Len(answers) + 1
    <3>1. Now = script[j] /\ j = Len(answers') /\ answers'[j] = a
      BY <1>3, <2>2 DEF Now, Index
    <3> QED BY <3>1
  <2> QED BY <1>1, <1>3, <2>1, <2>2
<1>7. Len(answers') <= Len(script) /\ Len(answers') > 0
  BY <1>1, <1>3 DEF Index
<1>8. Answered'
  BY <1>6, <1>7 DEF Answered
<1>9. After' = After
  BY DEF After, Rendered
<1> QED BY <1>4, <1>8, <1>9

LEMMA RespondStays ==
  ASSUME ClientAssumption, HttpInv, Respond
  PROVE  HttpInv'
<1>1. phase = "parse" /\ accept = "accepted" /\ UNCHANGED <<bufferVars, script, rest>> /\ Reset
  BY DEF Respond
<1>2. TypeInv /\ BufferTypeOK /\ request \in Requests
  BY Standing
<1>3. TypeInv'
  BY <1>2, RespondTypes
<1>4. accept' = "line" /\ request' = NoRequest
  BY <1>1 DEF Reset
<1>5. \/ IsKeepAlive(request) /\ phase' = "turn" /\ closing' = closing
      \/ ~IsKeepAlive(request) /\ phase' \in {"turn", "closed"} /\ closing' = TRUE
  BY DEF Respond, CloseConn
<1>6. PICK s \in Statuses(request) :
        SendResponse([status |-> s, reason |-> s, request |-> request])
  BY DEF Respond
<1>7. closing \in BOOLEAN
  BY <1>2 DEF TypeInv, TypeOK
<1>8. CASE closing
  <2>1. UNCHANGED <<script, answers, closing>>
    BY <1>1, <1>5, <1>6, <1>7, <1>8 DEF SendResponse
  <2>2. Answered'
    BY <2>1, AnsweredKept DEF HttpInv
  <2>3. Phases'
    BY <1>4, <1>5, <1>8, <2>1 DEF Phases
  <2> QED BY <1>1, <1>3, <1>8, <2>1, <2>2, <2>3 DEF HttpInv, TypeInv
<1>9. CASE ~closing
  <2> DEFINE a == [status |-> s, reason |-> s, request |-> request]
  <2>1. Good(Now) /\ request = Meant(Now) /\ Joins(Later, Content, rest)
    BY <1>1, <1>9 DEF HttpInv, InStep, AtEnd
  <2>2. answers' = Append(answers, a) /\ a \in Records /\ a.request = request
    <3>1. s \in Nat
      BY DEF Statuses
    <3> QED BY <1>2, <1>6, <1>9, <3>1 DEF SendResponse, Records
  <2> HIDE DEF a
  <2>3. a.request = Outcome(Now) /\ (Ends(Now) <=> ~IsKeepAlive(request))
    <3>1. a.request = Outcome(Now)
      BY <2>1, <2>2 DEF Outcome
    <3>2. IsKeepAlive(Meant(Now)) <=> IsKeepAlive(request)
      BY <2>1 DEF IsKeepAlive
    <3>3. Ends(Now) <=> ~IsKeepAlive(Meant(Now))
      BY <2>1 DEF Ends
    <3> QED BY <3>1, <3>2, <3>3
  <2>4. closing' \in BOOLEAN /\ (Ends(Now) <=> closing')
    <3>1. closing = FALSE
      BY <1>7, <1>9
    <3>2. CASE IsKeepAlive(request) /\ closing' = FALSE
      BY <2>3, <3>2
    <3>3. CASE ~IsKeepAlive(request) /\ closing' = TRUE
      BY <2>3, <3>3
    <3> QED BY <1>5, <3>1, <3>2, <3>3
  <2>5. Answered' /\ Index' = Index + 1 /\ After' = After
    BY <1>1, <1>9, <2>2, <2>3, <2>4, AnswerGiven
  <2>6. Phases'
    BY <1>4, <1>5 DEF Phases
  <2>7. ASSUME ~closing' PROVE InStep'
    <3>1. phase' = "turn"
      BY <1>5, <2>7
    <3>2. Content' = Content
      BY <1>1, <1>2, SameBuffer
    <3>3. After'[Index'] = Later
      BY <2>5 DEF Later
    <3>4. AtLine'
      BY <1>1, <1>4, <2>1, <3>2, <3>3 DEF AtLine
    <3> QED BY <1>4, <3>1, <3>4 DEF InStep
  <2> QED BY <1>1, <1>3, <2>5, <2>6, <2>7 DEF HttpInv, TypeInv
<1> QED BY <1>7, <1>8, <1>9

LEMMA ErrorStays ==
  ASSUME ClientAssumption, HttpInv, RespondError
  PROVE  HttpInv'
<1>1. phase = "parse" /\ accept = "error" /\ UNCHANGED <<script, rest>> /\ Reset
  BY DEF RespondError
<1>2. TypeInv
  BY Standing
<1>3. TypeInv'
  BY <1>2, RespondErrorTypes
<1>4. accept' = "line" /\ closing' = TRUE /\ phase' \in {"turn", "closed"}
  BY <1>1 DEF Reset, RespondError, CloseConn
<1>5. closing \in BOOLEAN
  BY <1>2 DEF TypeInv, TypeOK
<1> DEFINE a == [status |-> ErrorPage(status), reason |-> status, request |-> NoRequest]
<1>6. SendResponse(a)
  BY DEF RespondError
<1>7. a \in Records /\ a.request = NoRequest
  BY <1>2 DEF TypeInv, TypeOK, ErrorPage, NoRequest, Requests, Records
<1> HIDE DEF a
<1>8. Phases'
  BY <1>4 DEF Phases
<1>9. CASE closing
  <2>1. UNCHANGED <<script, answers, closing>>
    BY <1>1, <1>4, <1>5, <1>6, <1>9 DEF SendResponse
  <2>2. Answered'
    BY <2>1, AnsweredKept DEF HttpInv
  <2> QED BY <1>1, <1>3, <1>4, <1>8, <2>2 DEF HttpInv, TypeInv
<1>10. CASE ~closing
  <2>1. ~Good(Now)
    BY <1>1, <1>10 DEF HttpInv, InStep
  <2>2. answers' = Append(answers, a)
    BY <1>6, <1>10 DEF SendResponse
  <2>3. a.request = Outcome(Now) /\ Ends(Now)
    BY <1>7, <2>1 DEF Outcome, Ends
  <2>4. Answered'
    BY <1>1, <1>4, <1>7, <1>10, <2>2, <2>3, AnswerGiven
  <2> QED BY <1>1, <1>3, <1>4, <1>8, <2>4 DEF HttpInv, TypeInv
<1> QED BY <1>5, <1>9, <1>10

LEMMA StutterStays ==
  ASSUME ClientAssumption, HttpInv, UNCHANGED vars
  PROVE  HttpInv'
<1>1. UNCHANGED <<script, rest, accept, status, request, phase, closing, answers>>
      /\ UNCHANGED bufferVars
  BY DEF vars, contextVars
<1>2. After' = After /\ Index' = Index /\ Now' = Now /\ Later' = Later
  BY <1>1, SameScript
<1>3. TypeInv /\ BufferTypeOK
  BY Standing
<1>4. TypeInv'
  BY <1>3, StutterTypes
<1>5. Content' = Content
  BY <1>1, <1>3, SameBuffer
<1>6. Phases'
  BY <1>1, <1>2, <1>5 DEF HttpInv, Phases
<1>7. Answered'
  BY <1>1, AnsweredKept DEF HttpInv
<1>8. ASSUME ~closing PROVE InStep'
  <2>1. AtLine => AtLine'
    BY <1>1, <1>2, <1>5 DEF AtLine
  <2>2. AtHeaders => AtHeaders'
    <3>1. \A h \in 1..(Len(Now.headers) + 1) : AtHeader(h) => AtHeader(h)'
      BY <1>1, <1>2, <1>5 DEF AtHeader
    <3> QED BY <1>1, <1>2, <3>1 DEF AtHeaders, LineTaken
  <2>3. AtBody => AtBody'
    BY <1>1, <1>2, <1>5 DEF AtBody, LineTaken
  <2>4. AtEnd => AtEnd'
    BY <1>1, <1>2, <1>5 DEF AtEnd
  <2>5. Waiting => Waiting'
    BY <1>1, <1>2, <1>5 DEF Waiting
  <2>6. ~Good(Now) => ~Good(Now)'
    BY <1>2
  <2> QED BY <1>1, <1>8, <2>1, <2>2, <2>3, <2>4, <2>5, <2>6 DEF HttpInv, InStep
<1> QED BY <1>1, <1>4, <1>6, <1>7, <1>8 DEF HttpInv, TypeInv

LEMMA HttpInvInit ==
  ASSUME ClientAssumption, Init
  PROVE  HttpInv
<1>1. TypeInv
  BY InitTypes
<1>2. script \in Seq(Messages) /\ rest = FlattenSeq(Rendered) /\ Content = <<>>
  BY ScriptSent, InitStep, BufferAssumption DEF Init
<1>3. After[1] = rest /\ rest \in Seq(Bytes)
  BY <1>2, FlattenType
<1>4. /\ accept = "line" /\ request = NoRequest /\ phase = "idle" /\ closing = FALSE
      /\ answers = <<>> /\ Len(answers) = 0 /\ Index = 1
  BY DEF Init, Index
<1>5. Len(script) \in Nat
  BY <1>2, LenProperties
<1>6. Answered
  BY <1>4, <1>5 DEF Answered
<1>7. Phases
  BY <1>4 DEF Phases
<1>8. AtLine
  <2>1. <<>> \o rest = rest
    BY <1>3, ConcatEmptySeq
  <2> QED BY <1>2, <1>3, <1>4, <2>1 DEF AtLine, Joins
<1>9. Waiting
  BY <1>2, <1>4 DEF Waiting, NoLineIn
<1>10. InStep
  BY <1>4, <1>8, <1>9 DEF InStep
<1> QED BY <1>1, <1>2, <1>6, <1>7, <1>10 DEF HttpInv, TypeInv

LEMMA HttpInvNext ==
  ASSUME ClientAssumption, HttpInv, [Next]_vars
  PROVE  HttpInv'
<1>1. TypeInv
  BY Standing
<1>2. CASE Arrive
  BY <1>2, ArriveStays
<1>3. CASE TurnBegins
  BY <1>3, TurnStays
<1>4. CASE ParseRequestLine
  <2>1. Parsing("line") /\ phase' \in {"parse", Quiet} /\ (accept' \in {"accepted", "error"} => phase' = "parse")
    BY <1>4 DEF ParseRequestLine, Parsing, NoLine, WaitForMore, Refuse, contextVars
  <2>2. TypeInv' /\ (~closing => InStep')
    BY <1>1, <1>4, LineTypes, LineStays
  <2> QED BY <2>1, <2>2, ParseKeeps
<1>5. CASE ParseHeader
  <2>1. Parsing("headers") /\ phase' \in {"parse", Quiet} /\ (accept' \in {"accepted", "error"} => phase' = "parse")
    BY <1>5 DEF ParseHeader, Parsing, NoLine, WaitForMore, Refuse, contextVars
  <2>2. TypeInv' /\ (~closing => InStep')
    BY <1>1, <1>5, HeaderTypesKept, HeaderStays
  <2> QED BY <2>1, <2>2, ParseKeeps
<1>6. CASE ParseBody
  <2>1. Parsing("body") /\ phase' \in {"parse", Quiet} /\ (accept' \in {"accepted", "error"} => phase' = "parse")
    BY <1>6 DEF ParseBody, Parsing, Refuse
  <2>2. TypeInv' /\ (~closing => InStep')
    BY <1>1, <1>6, BodyTypes, BodyStays, HttpAssumption
  <2> QED BY <2>1, <2>2, ParseKeeps
<1>7. CASE Respond
  BY <1>7, RespondStays
<1>8. CASE RespondError
  BY <1>8, ErrorStays
<1>9. CASE UNCHANGED vars
  BY <1>9, StutterStays
<1> QED BY <1>2, <1>3, <1>4, <1>5, <1>6, <1>7, <1>8, <1>9 DEF Next, OnMessage

LEMMA HttpInvariant == Spec => []HttpInv
<1>1. Init => HttpInv
  BY HttpInvInit, ClientAssumption
<1>2. HttpInv /\ [Next]_vars => HttpInv'
  BY HttpInvNext, ClientAssumption
<1> QED BY <1>1, <1>2, PTL DEF Spec

-----------------------------------------------------------------------------
(* What the client may expect. *)

LEMMA ExpectedIs ==
  ASSUME script \in Seq(Messages)
  PROVE  \E m \in 0..Len(script) :
           /\ Expected = [i \in 1..m |-> Outcome(script[i])] /\ Len(Expected) = m
           /\ \A i \in 1..Len(script) : i <= m <=> \A j \in 1..(i - 1) : ~Ends(script[j])
<1>1. Len(script) \in Nat /\ DOMAIN script = 1..Len(script)
  BY LenProperties
<1> DEFINE n == Len(script)
           open == {i \in DOMAIN script : \A j \in 1..(i - 1) : ~Ends(script[j])}
           E == {i \in 1..n : Ends(script[i])}
<1>2. Expected = [i \in open |-> Outcome(script[i])]
  BY DEF Expected
<1>3. \E m \in 0..n : \A i \in 1..n : i <= m <=> \A j \in 1..(i - 1) : ~Ends(script[j])
  <2>1. CASE E = {}
    <3>1. \A i \in 1..n : \A j \in 1..(i - 1) : j \in 1..n
      BY <1>1
    <3>2. n \in 0..n /\ \A i \in 1..n : i <= n
      BY <1>1
    <3> QED BY <2>1, <3>1, <3>2
  <2>2. CASE E # {}
    <3>1. E \in SUBSET Nat
      BY <1>1
    <3>2. PICK m \in E : \A k \in E : m <= k
      BY <2>2, <3>1, LeastOf
    <3>3. m \in 0..n /\ m \in 1..n /\ Ends(script[m])
      BY <1>1, <3>2
    <3>4. ASSUME NEW i \in 1..n, i <= m, NEW j \in 1..(i - 1) PROVE ~Ends(script[j])
      <4>1. j \in 1..n /\ ~(m <= j)
        BY <1>1, <3>3, <3>4
      <4> QED BY <3>2, <4>1
    <3>5. ASSUME NEW i \in 1..n, ~(i <= m) PROVE \E j \in 1..(i - 1) : Ends(script[j])
      <4>1. m \in 1..(i - 1)
        BY <1>1, <3>3, <3>5
      <4> QED BY <3>3, <4>1
    <3> QED BY <3>3, <3>4, <3>5
  <2> QED BY <2>1, <2>2
<1>4. PICK m \in 0..n : \A i \in 1..n : i <= m <=> \A j \in 1..(i - 1) : ~Ends(script[j])
  BY <1>3
<1>5. open = 1..m
  <2>1. \A i \in open : i \in 1..n /\ i <= m /\ i \in 1..m
    BY <1>1, <1>4
  <2>2. \A i \in 1..m : i \in 1..n /\ i <= m
    BY <1>1, <1>4
  <2>3. \A i \in 1..m : i \in open
    BY <1>1, <1>4, <2>2
  <2> QED BY <2>1, <2>3
<1>6. Expected = [i \in 1..m |-> Outcome(script[i])]
  BY <1>2, <1>5
<1>7. Len(Expected) = m
  <2>1. m \in Nat
    BY <1>1, <1>4
  <2> QED BY <1>6, <2>1
<1> QED BY <1>4, <1>6, <1>7

(* No answer is given that is not expected. *)
LEMMA AnswersExpected ==
  ASSUME ClientAssumption, HttpInv, NEW m \in 0..Len(script),
         \A i \in 1..Len(script) : i <= m <=> \A j \in 1..(i - 1) : ~Ends(script[j])
  PROVE  /\ Len(answers) <= m
         /\ closing => Len(answers) = m
<1>1. Len(answers) \in Nat /\ Len(script) \in Nat
  BY Standing
<1>2. /\ Len(answers) <= Len(script) /\ (closing => Len(answers) > 0)
      /\ \A j \in 1..Len(answers) : Ends(script[j]) <=> closing /\ j = Len(answers)
  BY DEF HttpInv, Answered
<1> DEFINE L == Len(answers)
<1>3. ASSUME L > 0 PROVE L <= m
  <2>1. L \in 1..Len(script)
    BY <1>1, <1>2, <1>3
  <2>2. ASSUME NEW j \in 1..(L - 1) PROVE ~Ends(script[j])
    <3>1. j \in 1..L /\ j # L
      BY <1>1
    <3> QED BY <1>2, <3>1
  <2> QED BY <2>1, <2>2
<1>4. ASSUME closing PROVE L = m
  <2>1. L > 0 /\ L \in 1..L /\ L <= m
    BY <1>1, <1>2, <1>3, <1>4
  <2>2. Ends(script[L])
    BY <1>2, <1>4, <2>1
  <2>3. ASSUME L < m PROVE FALSE
    <3>1. L + 1 \in 1..Len(script) /\ L + 1 <= m /\ L \in 1..((L + 1) - 1)
      BY <1>1, <2>1, <2>3
    <3> QED BY <2>2, <3>1
  <2> QED BY <1>1, <2>1, <2>3
<1> QED BY <1>1, <1>3, <1>4

(* The requests found are the ones that were sent, each with its headers    *)
(* and body, however the bytes are cut into pieces and however many         *)
(* requests come together: for every script of messages, buffer size and    *)
(* limit of a line.                                                         *)
THEOREM RequestsAreFramed == Spec => []RequestsFramed
<1>1. HttpInv => RequestsFramed
  <2> SUFFICES ASSUME HttpInv PROVE RequestsFramed
    OBVIOUS
  <2>1. script \in Seq(Messages)
    BY DEF HttpInv
  <2>2. PICK m \in 0..Len(script) :
          /\ Expected = [i \in 1..m |-> Outcome(script[i])] /\ Len(Expected) = m
          /\ \A i \in 1..Len(script) : i <= m <=> \A j \in 1..(i - 1) : ~Ends(script[j])
    BY <2>1, ExpectedIs
  <2>3. Len(answers) <= m
    BY <2>2, AnswersExpected, ClientAssumption
  <2>4. Len(answers) \in Nat /\ DOMAIN answers = 1..Len(answers) /\ Len(script) \in Nat
    BY Standing, LenProperties, ClientAssumption DEF HttpInv, TypeOK
  <2>5. \A i \in DOMAIN answers : answers[i].request = Expected[i]
    <3> TAKE i \in DOMAIN answers
    <3>1. i \in 1..Len(answers) /\ i \in 1..m
      BY <2>3, <2>4
    <3>2. answers[i].request = Outcome(script[i])
      BY <3>1 DEF HttpInv, Answered
    <3> QED BY <2>2, <3>1, <3>2
  <2> QED BY <2>2, <2>3, <2>5 DEF RequestsFramed
<1> QED BY <1>1, HttpInvariant, PTL

Nothing(e) == Len(e) = 0

LEMMA WholeBegins ==
  ASSUME NEW S, NEW c \in Seq(S), NEW e \in Seq(S), NEW s \in Seq(S), NEW x \in Seq(S), Nothing(e),
         NEW w, Joins(w, c, e), Joins(w, s, x)
  PROVE  Len(s) <= Len(c) /\ \A i \in 1..Len(s) : s[i] = c[i]
<1>1. /\ Len(c) \in Nat /\ Len(s) \in Nat /\ Len(x) \in Nat
      /\ Len(s \o x) = Len(s) + Len(x) /\ Len(c \o e) = Len(c) + Len(e)
  BY ConcatProperties, LenProperties
<1>2. c \o e = s \o x
  BY DEF Joins
<1>3. Len(s) <= Len(c)
  BY <1>1, <1>2 DEF Nothing
<1> QED BY <1>3, FirstsEqual

(* When everything has come, what waits has the end of a line in it.        *)
LEMMA LineIn ==
  ASSUME BufferAssumption, HttpAssumption, NEW l \in Seq(Bytes \ {Newline}),
         NEW c \in Seq(Bytes), NEW x \in Seq(Bytes), NEW e \in Seq(Bytes), Nothing(e),
         NEW w, Joins(w, c, e), Joins(w, l \o CRLF, x)
  PROVE  ~NoLineIn(c)
<1> DEFINE s == l \o CRLF
<1>1. s \in Seq(Bytes) /\ Len(s) = Len(l) + 2 /\ Len(l) \in Nat /\ s[Len(l) + 2] = Newline
  BY LineShape
<1>2. Len(s) <= Len(c) /\ \A i \in 1..Len(s) : s[i] = c[i]
  <2>1. Joins(w, s, x) /\ s \in Seq(Bytes)
    BY <1>1
  <2> HIDE DEF s
  <2> QED BY <2>1, WholeBegins
<1> HIDE DEF s
<1>3. Len(c) \in Nat
  BY LenProperties
<1>4. Len(l) + 2 \in 1..Len(s) /\ Len(l) + 2 \in 1..Len(c)
  BY <1>1, <1>2, <1>3
<1> QED BY <1>1, <1>2, <1>4 DEF NoLineIn

LEMMA IdleIsDone ==
  ASSUME ClientAssumption, HttpInv, rest = <<>>, phase = "idle"
  PROVE  Len(answers) = Len(script)
<1>1. /\ BufferTypeOK /\ request \in Requests /\ Content \in Seq(Bytes)
      /\ Len(answers) \in Nat /\ Len(script) \in Nat /\ Index \in 1..(Len(script) + 1)
      /\ rest \in Seq(Bytes) /\ Nothing(rest)
  BY Standing, EmptySeq DEF Nothing
<1>2. ~closing /\ accept \in {"line", "headers", "body"} /\ (accept # "line" => Index <= Len(script))
  BY DEF HttpInv, Phases, TypeOK
<1>3. Waiting /\ (accept = "line" => AtLine) /\ (accept = "headers" => AtHeaders) /\ (accept = "body" => AtBody)
  BY <1>2 DEF HttpInv, InStep
<1>4. ASSUME Index <= Len(script) PROVE FALSE
  <2>1. Now \in Messages /\ Later \in Seq(Bytes) /\ After[Index] = Render(Now) \o Later
    BY <1>4, Standing
  <2>2. /\ Len(Now.headers) \in Nat /\ Now.body \in Seq(Bytes) /\ Now.line \in Seq(Bytes \ {Newline})
        /\ 1 \in 1..(Len(Now.headers) + 1)
        /\ \A h \in 1..Len(Now.headers) : Now.headers[h] \in Seq(Bytes \ {Newline})
    <3>1. /\ Len(Now.headers) \in Nat /\ Now.body \in Seq(Bytes) /\ Now.line \in Seq(Bytes \ {Newline})
          /\ \A h \in 1..Len(Now.headers) : Now.headers[h] \in Seq(Bytes \ {Newline})
      BY <2>1, HeaderTypes, BufferAssumption, HttpAssumption
    <3>2. 1 \in 1..(Len(Now.headers) + 1)
      BY <3>1
    <3> QED BY <3>1, <3>2
  <2>3. CASE accept = "line"
    <3> DEFINE x == FromHeader(Now, 1) \o Later
               l == Now.line
    <3>1. x \in Seq(Bytes) /\ Joins(After[Index], l \o CRLF, x)
      <4>1. x \in Seq(Bytes)
        BY <2>1, <2>2, FromHeaderType, BufferAssumption, HttpAssumption
      <4>2. Joins(After[Index], l \o CRLF, x)
        BY <2>1, MessageStart, BufferAssumption, HttpAssumption
      <4> QED BY <4>1, <4>2
    <3>2. Joins(After[Index], Content, rest)
      BY <1>3, <2>3 DEF AtLine
    <3>3. l \in Seq(Bytes \ {Newline})
      BY <2>2
    <3> HIDE DEF x, l
    <3>4. ~NoLineIn(Content)
      BY <1>1, <3>1, <3>2, <3>3, LineIn, BufferAssumption, HttpAssumption
    <3> QED BY <1>3, <2>3, <3>4 DEF Waiting
  <2>4. CASE accept = "headers"
    <3>1. PICK h \in 1..(Len(Now.headers) + 1) : AtHeader(h)
      BY <1>3, <2>4 DEF AtHeaders
    <3> DEFINE y == FromHeader(Now, h) \o Later
    <3>2. Joins(y, Content, rest)
      BY <3>1 DEF AtHeader
    <3>3. \E l \in Seq(Bytes \ {Newline}), x \in Seq(Bytes) : Joins(y, l \o CRLF, x)
      <4>1. CASE h \in 1..Len(Now.headers)
        <5>1. Joins(y, Now.headers[h] \o CRLF, FromHeader(Now, h + 1) \o Later)
          BY <2>1, <4>1, HeaderNext, BufferAssumption, HttpAssumption
        <5>2. h + 1 \in 1..(Len(Now.headers) + 1)
          BY <2>2, <4>1
        <5>3. FromHeader(Now, h + 1) \o Later \in Seq(Bytes)
          BY <2>1, <5>2, FromHeaderType, BufferAssumption, HttpAssumption
        <5>4. Now.headers[h] \in Seq(Bytes \ {Newline})
          BY <2>2, <4>1
        <5> HIDE DEF y
        <5> QED BY <5>1, <5>3, <5>4
      <4>2. CASE h = Len(Now.headers) + 1
        <5>1. Joins(y, <<>> \o CRLF, Now.body \o Later)
          BY <2>1, <4>2, HeadersDone, BufferAssumption, HttpAssumption
        <5>2. Now.body \o Later \in Seq(Bytes)
          BY <2>1, <2>2, FromHeaderType, BufferAssumption, HttpAssumption
        <5>3. <<>> \in Seq(Bytes \ {Newline})
          BY EmptySeq
        <5> HIDE DEF y
        <5> QED BY <5>1, <5>2, <5>3
      <4>3. h \in 1..Len(Now.headers) \/ h = Len(Now.headers) + 1
        BY <2>2
      <4> QED BY <4>1, <4>2, <4>3
    <3> HIDE DEF y
    <3>4. ~NoLineIn(Content)
      BY <1>1, <3>2, <3>3, LineIn, BufferAssumption, HttpAssumption
    <3> QED BY <1>3, <2>4, <3>4 DEF Waiting
  <2>5. CASE accept = "body"
    <3>1. Content = <<>> /\ Len(request.body) < Len(Now.body)
      BY <1>3, <2>5 DEF Waiting
    <3>2. PICK b \in Seq(Bytes) : Now.body = request.body \o b /\ Joins(b \o Later, <<>>, <<>>)
      BY <1>3, <2>5, <3>1 DEF AtBody
    <3>3. request.body \in Seq(Bytes)
      BY <1>1 DEF Requests
    <3>4. Len(request.body \o b) = Len(request.body) + Len(b) /\ Len(request.body) \in Nat
          /\ Len(b) \in Nat /\ Len(Later) \in Nat /\ Len(b \o Later) = Len(b) + Len(Later)
      BY <2>1, <3>3, ConcatProperties, LenProperties
    <3>5. Len(b \o Later) = 0
      <4>1. <<>> \o <<>> = <<>>
        BY EmptySeq, ConcatEmptySeq
      <4> QED BY <3>2, <4>1 DEF Joins
    <3> QED BY <3>1, <3>2, <3>4, <3>5
  <2> QED BY <1>2, <2>3, <2>4, <2>5
<1> QED BY <1>1, <1>4 DEF Index

(* When all has arrived and the callback has returned, all are answered: no *)
(* complete request waits in the buffer for bytes that need not come.       *)
THEOREM AllAreAnswered == Spec => []AllAnswered
<1>1. HttpInv => AllAnswered
  <2> SUFFICES ASSUME HttpInv, rest = <<>>, phase \in {"idle", "closed"}
               PROVE  Len(answers) = Len(Expected)
    BY DEF AllAnswered
  <2>1. script \in Seq(Messages)
    BY DEF HttpInv
  <2>2. PICK m \in 0..Len(script) :
          /\ Expected = [i \in 1..m |-> Outcome(script[i])] /\ Len(Expected) = m
          /\ \A i \in 1..Len(script) : i <= m <=> \A j \in 1..(i - 1) : ~Ends(script[j])
    BY <2>1, ExpectedIs
  <2>3. Len(answers) <= m /\ (closing => Len(answers) = m)
    BY <2>2, AnswersExpected, ClientAssumption
  <2>4. CASE phase = "closed"
    <3>1. closing
      BY <2>4 DEF HttpInv, Phases
    <3> QED BY <2>2, <2>3, <3>1
  <2>5. CASE phase = "idle"
    <3>1. Len(answers) = Len(script) /\ Len(script) \in Nat
      BY <2>5, IdleIsDone, Standing, ClientAssumption
    <3> QED BY <2>2, <2>3, <3>1
  <2> QED BY <2>4, <2>5
<1> QED BY <1>1, HttpInvariant, PTL

(* The server calls its buffer only as a buffer may be called. *)
LEMMA HttpCalls ==
  ASSUME TypeInv, [Next]_vars
  PROVE  [BufferNext]_bufferVars
<1>1. BufferTypeOK /\ rest \in Seq(Bytes) /\ request \in Requests
  BY DEF TypeInv, TypeOK
<1>2. ReadableSize \in Nat
  BY <1>1, ContentHeld DEF BufferTypeOK
<1>3. CASE Arrive
  <2>1. PICK n \in 1..Len(rest) : Write(SubSeq(rest, 1, n))
    BY <1>3 DEF Arrive
  <2>2. SubSeq(rest, 1, n) \in Seq(Bytes)
    BY <1>1, CutIn
  <2> QED BY <2>1, <2>2 DEF BufferNext
<1>4. CASE ParseRequestLine \/ ParseHeader
  BY <1>4 DEF ParseRequestLine, ParseHeader, BufferNext
<1>5. CASE ParseBody
  <2> DEFINE left == GetBodyLength - Len(request.body)
             n == IF ReadableSize >= left THEN left ELSE ReadableSize
  <2>1. CASE "chunked" \in request.headers /\ UNCHANGED bufferVars
    BY <2>1
  <2>2. CASE "chunked" \notin request.headers /\ Read(n)
    <3>1. accept = "body"
      BY <1>5 DEF ParseBody, Parsing
    <3>2. Len(request.body) \in Nat /\ GetBodyLength \in Nat /\ Len(request.body) <= GetBodyLength
      BY <1>1, <2>2, <3>1, LenProperties, HttpAssumption
      DEF GetBodyLength, HttpAssumption, TypeInv, BodyBound, Requests
    <3>3. n \in Nat
      BY <1>2, <3>2
    <3> HIDE DEF n
    <3> QED BY <2>2, <3>3 DEF BufferNext
  <2> QED BY <1>5, <2>1, <2>2 DEF ParseBody
<1>6. CASE RespondError
  BY <1>6 DEF RespondError, BufferNext
<1>7. CASE UNCHANGED bufferVars
  BY <1>7
<1>8. TurnBegins \/ Respond \/ UNCHANGED vars => UNCHANGED bufferVars
  BY DEF TurnBegins, Respond, vars
<1> QED BY <1>3, <1>4, <1>5, <1>6, <1>7, <1>8 DEF Next, OnMessage

(* Through every request, refused or answered, the connection's buffer is a *)
(* queue of bytes.                                                          *)
THEOREM HttpUsesQueue == Spec => ImplementsByteQueue
<1>1. Init => BufferInit
  BY DEF Init
<1>2. TypeInv /\ [Next]_vars => [BufferNext]_bufferVars
  BY HttpCalls
<1>3. Init => TypeInv
  BY InitTypes
<1>4. TypeInv /\ [Next]_vars => TypeInv'
  BY NextTypes, StutterTypes
<1>5. Spec => BufferSpec
  BY <1>1, <1>2, <1>3, <1>4, PTL DEF Spec, BufferSpec
<1> QED BY <1>5, BufferIsQueue, PTL
=============================================================================
