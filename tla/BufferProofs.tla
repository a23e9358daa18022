------------------------------ MODULE BufferProofs -----------------------------
(***************************************************************************)
(* Proofs about Buffer, for any bytes, any strings, any first size and any *)
(* bound on what it holds.                                                 *)
(*                                                                         *)
(* A buffer is taken as a value here: the lemmas say what the methods that *)
(* move, grow and fill it make of its content and of its size, and the     *)
(* proofs about the steps only put them together.                          *)
(***************************************************************************)
EXTENDS Buffer, SequenceTheorems, TLAPS

\* What SizeBounded counts with has been counted.
PeakInv == ~broken => writePos_ - readPos_ <= peak

IInv == TypeOK /\ PeakInv /\ SizeBounded

-------------------------------------------------------------------------------
(* The operators on bytes *)

\* New bytes are 0.
LEMMA ZerosSeq ==
    ASSUME NEW n \in Nat
    PROVE  Zeros(n) \in Seq(Bytes) /\ Len(Zeros(n)) = n
BY BufferAssumption DEF Zeros

\* std::copy() changes what it is given the room for and nothing else.
LEMMA CopySeq ==
    ASSUME NEW buf \in Seq(Bytes), NEW at \in Nat, NEW s \in Seq(Bytes)
    PROVE  /\ Copy(buf, at, s) \in Seq(Bytes) /\ Len(Copy(buf, at, s)) = Len(buf)
           /\ \A i \in 1..Len(buf) : Copy(buf, at, s)[i] =
                IF i > at /\ i <= at + Len(s) THEN s[i - at] ELSE buf[i]
<1>1. \A i \in 1..Len(buf) :
        (IF i > at /\ i <= at + Len(s) THEN s[i - at] ELSE buf[i]) \in Bytes
  OBVIOUS
<1>2. Copy(buf, at, s) \in [1..Len(buf) -> Bytes]
  BY <1>1 DEF Copy
<1>3. Len(buf) \in Nat
  OBVIOUS
<1>4. Copy(buf, at, s) \in Seq(Bytes) /\ Len(Copy(buf, at, s)) = Len(buf)
  BY <1>2, <1>3
<1>5. QED
  BY <1>4 DEF Copy

Between(buf, r, w) == SubSeq(buf, r + 1, w)

\* The bytes of a vector from one position to another are those and no others.
LEMMA BetweenSeq ==
    ASSUME NEW buf \in Seq(Bytes), NEW r \in Nat, NEW w \in Nat, r <= w, w <= Len(buf)
    PROVE  /\ Between(buf, r, w) \in Seq(Bytes) /\ Len(Between(buf, r, w)) = w - r
           /\ \A i \in 1..(w - r) : Between(buf, r, w)[i] = buf[r + i]
BY DEF Between

\* Bytes are known by what lies between the positions.
LEMMA BetweenEqual ==
    ASSUME NEW buf \in Seq(Bytes), NEW r \in Nat, NEW w \in Nat, r <= w, w <= Len(buf),
           NEW t \in Seq(Bytes), Len(t) = w - r, \A i \in 1..(w - r) : buf[r + i] = t[i]
    PROVE  Between(buf, r, w) = t
<1>1. /\ Between(buf, r, w) \in Seq(Bytes) /\ Len(Between(buf, r, w)) = w - r
      /\ \A i \in 1..(w - r) : Between(buf, r, w)[i] = buf[r + i]
  BY DEF Between
<1>2. \A i \in 1..Len(Between(buf, r, w)) : Between(buf, r, w)[i] = t[i]
  BY <1>1
<1>3. QED
  BY <1>1, <1>2, SeqEqual

\* The first n elements of a sequence.
LEMMA PrefixSeq ==
    ASSUME NEW t \in Seq(Bytes), NEW n \in 0..Len(t)
    PROVE  /\ SubSeq(t, 1, n) \in Seq(Bytes) /\ Len(SubSeq(t, 1, n)) = n
           /\ \A i \in 1..n : SubSeq(t, 1, n)[i] = t[i]
OBVIOUS

Followed(x, t, n) == x \o SubSeq(t, 1, n)

\* Bytes copied to the end of the content, of which n are counted, follow it.
LEMMA CopyBehind ==
    ASSUME NEW buf \in Seq(Bytes), NEW r \in Nat, NEW w \in Nat, r <= w,
           NEW t \in Seq(Bytes), NEW n \in Nat, n <= Len(t), w + n <= Len(buf)
    PROVE  Between(Copy(buf, w, t), r, w + n) = Followed(Between(buf, r, w), t, n)
<1> DEFINE c == Copy(buf, w, t)
           x == Between(buf, r, w)
           y == SubSeq(t, 1, n)
<1>1. /\ c \in Seq(Bytes) /\ Len(c) = Len(buf)
      /\ \A i \in 1..Len(buf) : c[i] = IF i > w /\ i <= w + Len(t) THEN t[i - w] ELSE buf[i]
  BY CopySeq
<1>2. x \in Seq(Bytes) /\ Len(x) = w - r /\ \A i \in 1..(w - r) : x[i] = buf[r + i]
  BY DEF Between
<1>3. y \in Seq(Bytes) /\ Len(y) = n /\ \A i \in 1..n : y[i] = t[i]
  BY PrefixSeq
<1> HIDE DEF c, x, y
<1>4. /\ x \o y \in Seq(Bytes) /\ Len(x \o y) = w - r + n
      /\ \A i \in 1..(w - r + n) : (x \o y)[i] = IF i <= w - r THEN x[i] ELSE y[i - (w - r)]
  <2>1. x \in Seq(Bytes) /\ y \in Seq(Bytes)
    BY <1>2, <1>3
  <2>2. /\ x \o y \in Seq(Bytes) /\ Len(x \o y) = Len(x) + Len(y)
        /\ \A i \in 1..Len(x) + Len(y) : (x \o y)[i] = IF i <= Len(x) THEN x[i] ELSE y[i - Len(x)]
    BY <2>1, ConcatProperties
  <2>3. QED
    BY <1>2, <1>3, <2>2
<1>5. ASSUME NEW i \in 1..(w - r + n) PROVE c[r + i] = (x \o y)[i]
  <2>1. r + i \in 1..Len(buf) /\ r + i <= w + Len(t)
    OBVIOUS
  <2>2. CASE i <= w - r
    <3>1. c[r + i] = buf[r + i]
      BY <1>1, <2>1, <2>2
    <3>2. (x \o y)[i] = x[i]
      BY <1>4, <2>2
    <3>3. x[i] = buf[r + i]
      BY <1>2, <2>2
    <3>4. QED
      BY <3>1, <3>2, <3>3
  <2>3. CASE ~(i <= w - r)
    <3>1. c[r + i] = t[r + i - w]
      BY <1>1, <2>1, <2>3
    <3>2. (x \o y)[i] = y[i - (w - r)]
      BY <1>4, <2>3
    <3>3. y[i - (w - r)] = t[i - (w - r)]
      BY <1>3, <2>3
    <3>4. r + i - w = i - (w - r)
      OBVIOUS
    <3>5. QED
      BY <3>1, <3>2, <3>3, <3>4
  <2>4. QED
    BY <2>2, <2>3
<1>6. Between(c, r, w + n) = x \o y
  <2> DEFINE z == x \o y
             e == w + n
  <2>1. /\ c \in Seq(Bytes) /\ e \in Nat /\ r <= e /\ e <= Len(c)
        /\ z \in Seq(Bytes) /\ Len(z) = e - r
    BY <1>1, <1>4
  <2>2. \A i \in 1..(e - r) : c[r + i] = z[i]
    <3>1. e - r = w - r + n
      OBVIOUS
    <3>2. QED
      BY <3>1, <1>5
  <2> HIDE DEF z, e
  <2>3. Between(c, r, e) = z
    BY <2>1, <2>2, BetweenEqual
  <2>4. QED
    BY <2>3 DEF z, e
<1>7. QED
  BY <1>6 DEF c, x, y, Followed

\* Growth adds bytes behind all others.
LEMMA GrowBehind ==
    ASSUME NEW buf \in Seq(Bytes), NEW r \in Nat, NEW w \in Nat, r <= w, w <= Len(buf),
           NEW z \in Seq(Bytes)
    PROVE  /\ buf \o z \in Seq(Bytes) /\ Len(buf \o z) = Len(buf) + Len(z)
           /\ Between(buf \o z, r, w) = Between(buf, r, w)
<1>1. /\ buf \o z \in Seq(Bytes) /\ Len(buf \o z) = Len(buf) + Len(z)
      /\ \A i \in 1..Len(buf) : (buf \o z)[i] = buf[i]
  OBVIOUS
<1> DEFINE x == Between(buf, r, w)
<1>2. x \in Seq(Bytes) /\ Len(x) = w - r /\ \A i \in 1..(w - r) : x[i] = buf[r + i]
  BY DEF Between
<1> HIDE DEF x
<1>3. \A i \in 1..(w - r) : (buf \o z)[r + i] = x[i]
  BY <1>1, <1>2
<1>4. w <= Len(buf \o z)
  BY <1>1
<1>5. Between(buf \o z, r, w) = x
  BY <1>1, <1>2, <1>3, <1>4, BetweenEqual
<1>6. QED
  BY <1>1, <1>5 DEF x

\* Content that is moved to the front is the same content.
LEMMA MoveToFront ==
    ASSUME NEW buf \in Seq(Bytes), NEW r \in Nat, NEW w \in Nat, r <= w, w <= Len(buf)
    PROVE  Between(Copy(buf, 0, Between(buf, r, w)), 0, w - r) = Between(buf, r, w)
<1> DEFINE x == Between(buf, r, w)
           c == Copy(buf, 0, x)
<1>1. x \in Seq(Bytes) /\ Len(x) = w - r
  BY DEF Between
<1>2. /\ c \in Seq(Bytes) /\ Len(c) = Len(buf)
      /\ \A i \in 1..Len(buf) : c[i] = IF i > 0 /\ i <= 0 + Len(x) THEN x[i - 0] ELSE buf[i]
  BY <1>1, CopySeq
<1> HIDE DEF x, c
<1>3. \A i \in 1..(w - r) : c[0 + i] = x[i]
  BY <1>1, <1>2
<1>4. Between(c, 0, w - r) = x
  <2> DEFINE e == w - r
  <2>1. /\ c \in Seq(Bytes) /\ e \in Nat /\ 0 <= e /\ e <= Len(c)
        /\ x \in Seq(Bytes) /\ Len(x) = e - 0
    BY <1>1, <1>2
  <2>2. \A i \in 1..(e - 0) : c[0 + i] = x[i]
    BY <1>3
  <2> HIDE DEF e
  <2>3. Between(c, 0, e) = x
    BY <2>1, <2>2, BetweenEqual
  <2>4. QED
    BY <2>3 DEF e
<1>5. QED
  BY <1>4 DEF x, c

\* What is left of the content once n bytes were taken from it.
LEMMA TakeFront ==
    ASSUME NEW buf \in Seq(Bytes), NEW r \in Nat, NEW w \in Nat, r <= w, w <= Len(buf),
           NEW n \in 0..(w - r)
    PROVE  Between(buf, r + n, w) = SubSeq(Between(buf, r, w), n + 1, w - r)
<1> DEFINE x == Between(buf, r, w)
           y == SubSeq(x, n + 1, w - r)
           m == r + n
<1>1. x \in Seq(Bytes) /\ Len(x) = w - r /\ \A i \in 1..(w - r) : x[i] = buf[r + i]
  BY DEF Between
<1> HIDE DEF x
<1>2. y \in Seq(Bytes) /\ Len(y) = w - r - n /\ \A i \in 1..(w - r - n) : y[i] = x[n + i]
  BY <1>1
<1>3. m \in Nat /\ m <= w /\ w - m = w - r - n
  OBVIOUS
<1> HIDE DEF y
<1>4. \A i \in 1..(w - m) : buf[m + i] = y[i]
  <2> SUFFICES ASSUME NEW i \in 1..(w - m) PROVE buf[m + i] = y[i]
    OBVIOUS
  <2>1. n + i \in 1..(w - r) /\ i \in 1..(w - r - n) /\ m + i = r + (n + i)
    OBVIOUS
  <2>2. QED
    BY <1>1, <1>2, <2>1
<1> HIDE DEF m
<1>5. Between(buf, m, w) = y
  <2>1. m \in Nat /\ m <= w /\ y \in Seq(Bytes) /\ Len(y) = w - m
    BY <1>2, <1>3
  <2>2. QED
    BY <1>4, <2>1, BetweenEqual
<1>6. QED
  BY <1>5 DEF x, y, m

-------------------------------------------------------------------------------
(* The methods that make room *)

Holding(buf, r, w) == [buf |-> buf, r |-> r, w |-> w]

Filled(b, v, n) == [b EXCEPT !.buf = v, !.w = n]

\* A buffer whose bytes and whose end are assigned keeps its start.
LEMMA FilledHolds ==
    ASSUME NEW buf, NEW r, NEW w, NEW v, NEW n
    PROVE  Filled(Holding(buf, r, w), v, n) = Holding(v, r, n)
<1>1. [Holding(buf, r, w) EXCEPT !.buf = v, !.w = n] =
         [[Holding(buf, r, w) EXCEPT !.buf = v] EXCEPT !.w = n]
  OBVIOUS
<1>2. [Holding(buf, r, w) EXCEPT !.buf = v] = Holding(v, r, w)
  BY DEF Holding
<1>3. [Holding(v, r, w) EXCEPT !.w = n] = Holding(v, r, n)
  BY DEF Holding
<1>4. QED
  BY <1>1, <1>2, <1>3 DEF Filled

\* EnsureWriteable() makes the room it is asked for, keeps the content and grows the
\* vector only when the room in front would not do.
LEMMA Ensured ==
    ASSUME NEW buf \in Seq(Bytes), NEW r \in Nat, NEW w \in Nat, r <= w, w <= Len(buf),
           NEW len \in Nat
    PROVE  \E buf2 \in Seq(Bytes), r2 \in Nat, w2 \in Nat :
              /\ EnsureWriteable(Holding(buf, r, w), len) = Holding(buf2, r2, w2)
              /\ r2 <= w2 /\ w2 + len <= Len(buf2) /\ w2 - r2 = w - r
              /\ Between(buf2, r2, w2) = Between(buf, r, w)
              /\ Len(buf2) = Len(buf) \/ Len(buf2) <= 2 * (w - r + len)
<1> DEFINE b == Holding(buf, r, w)
<1>1. /\ Writable(b) = Len(buf) - w /\ b.r = r /\ b.w = w /\ b.buf = buf
      /\ Readable(b) = w - r /\ Content(b) = Between(buf, r, w)
  BY DEF Holding, Writable, Readable, Content, Between
<1>2. CASE Len(buf) - w >= len
  <2>1. EnsureWriteable(b, len) = b
    BY <1>1, <1>2 DEF EnsureWriteable
  <2>2. w + len <= Len(buf)
    BY <1>2
  <2>3. QED
    BY <2>1, <2>2
<1>3. CASE Len(buf) - w < len /\ Len(buf) - w + r < len
  <2> DEFINE z == Zeros(w + len + 1 - Len(buf))
             g == buf \o z
  <2>1. EnsureWriteable(b, len) = Holding(g, r, w)
    <3>1. EnsureWriteable(b, len) = Grown(b, len)
      BY <1>1, <1>3 DEF EnsureWriteable, MakeSpace_
    <3>2. Grown(b, len) = [b EXCEPT !.buf = g]
      BY <1>1, Zenon DEF Grown
    <3>3. \A v : [b EXCEPT !.buf = v] = Holding(v, r, w)
      BY DEF Holding
    <3>4. QED
      BY <3>1, <3>2, <3>3, Zenon
  <2>2. z \in Seq(Bytes) /\ Len(z) = w + len + 1 - Len(buf)
    <3>1. w + len + 1 - Len(buf) \in Nat
      BY <1>3
    <3>2. QED
      BY <3>1, ZerosSeq
  <2> HIDE DEF z
  <2>3. /\ g \in Seq(Bytes) /\ Len(g) = Len(buf) + Len(z)
        /\ Between(g, r, w) = Between(buf, r, w)
    BY <2>2, GrowBehind
  <2> HIDE DEF g, b
  <2>4. Len(g) = w + len + 1
    BY <2>2, <2>3
  <2>5. w + len <= Len(g) /\ Len(g) <= 2 * (w - r + len)
    BY <1>3, <2>4
  <2>6. QED
    BY <2>1, <2>3, <2>5 DEF b
<1>4. CASE Len(buf) - w < len /\ ~(Len(buf) - w + r < len)
  <2> DEFINE c == Copy(buf, 0, Between(buf, r, w))
  <2>1. EnsureWriteable(b, len) = Holding(c, 0, w - r)
    <3>1. EnsureWriteable(b, len) = Shifted(b)
      BY <1>1, <1>4 DEF EnsureWriteable, MakeSpace_
    <3>2. Shifted(b) = Holding(c, 0, w - r)
      BY <1>1 DEF Shifted, Holding
    <3>3. QED
      BY <3>1, <3>2
  <2>2. Between(buf, r, w) \in Seq(Bytes)
    BY DEF Between
  <2>3. c \in Seq(Bytes) /\ Len(c) = Len(buf)
    BY <2>2, CopySeq
  <2>4. Between(c, 0, w - r) = Between(buf, r, w)
    BY MoveToFront
  <2> HIDE DEF c, b
  <2> DEFINE e == w - r
  <2>5. e \in Nat /\ e + len <= Len(c) /\ e - 0 = w - r /\ 0 <= e
    BY <1>4, <2>3
  <2>6. Between(c, 0, e) = Between(buf, r, w) /\ EnsureWriteable(b, len) = Holding(c, 0, e)
    BY <2>1, <2>4
  <2> HIDE DEF e
  <2>7. QED
    BY <2>3, <2>5, <2>6 DEF b
<1>5. QED
  BY <1>2, <1>3, <1>4

\* Append() puts the string behind the content, however it makes the room.
LEMMA AppendedTo ==
    ASSUME NEW buf \in Seq(Bytes), NEW r \in Nat, NEW w \in Nat, r <= w, w <= Len(buf),
           NEW s \in Seq(Bytes)
    PROVE  \E buf2 \in Seq(Bytes), r2 \in Nat, w2 \in Nat :
              /\ Appended(Holding(buf, r, w), s) = Holding(buf2, r2, w2)
              /\ r2 <= w2 /\ w2 <= Len(buf2) /\ w2 - r2 = w - r + Len(s)
              /\ Between(buf2, r2, w2) = Between(buf, r, w) \o s
              /\ Len(buf2) = Len(buf) \/ Len(buf2) <= 2 * (w - r + Len(s))
<1>1. PICK buf1 \in Seq(Bytes), r1 \in Nat, w1 \in Nat :
         /\ EnsureWriteable(Holding(buf, r, w), Len(s)) = Holding(buf1, r1, w1)
         /\ r1 <= w1 /\ w1 + Len(s) <= Len(buf1) /\ w1 - r1 = w - r
         /\ Between(buf1, r1, w1) = Between(buf, r, w)
         /\ Len(buf1) = Len(buf) \/ Len(buf1) <= 2 * (w - r + Len(s))
  <2>1. Len(s) \in Nat
    OBVIOUS
  <2>2. QED
    BY <2>1, Ensured
<1> DEFINE c == Copy(buf1, w1, s)
           e == w1 + Len(s)
<1>2. Appended(Holding(buf, r, w), s) = Holding(c, r1, e)
  <2> DEFINE h == Holding(buf1, r1, w1)
  <2>1. Appended(Holding(buf, r, w), s) =
           Filled(h, Copy(h.buf, h.w, s), h.w + Len(s))
    BY <1>1, Zenon DEF Appended, Filled
  <2>2. h.buf = buf1 /\ h.w = w1
    BY DEF Holding
  <2>3. Filled(h, c, e) = Holding(c, r1, e)
    BY FilledHolds
  <2>4. QED
    BY <2>1, <2>2, <2>3, Zenon
<1>3. c \in Seq(Bytes) /\ Len(c) = Len(buf1)
  BY CopySeq
<1>4. Between(c, r1, e) = Between(buf, r, w) \o s
  <2>1. Len(s) \in 0..Len(s) /\ SubSeq(s, 1, Len(s)) = s
    BY SubSeqFull
  <2> DEFINE n == Len(s)
  <2>2. n \in Nat /\ n <= Len(s) /\ r1 <= w1 /\ w1 + n <= Len(buf1)
    BY <1>1
  <2> HIDE DEF n
  <2>3. Between(Copy(buf1, w1, s), r1, w1 + n) = Followed(Between(buf1, r1, w1), s, n)
    BY <2>2, CopyBehind
  <2>4. QED
    BY <1>1, <2>1, <2>3, Zenon DEF n, Followed
<1>5. /\ e \in Nat /\ r1 <= e /\ e <= Len(c) /\ e - r1 = w - r + Len(s)
      /\ Len(c) = Len(buf) \/ Len(c) <= 2 * (w - r + Len(s))
  <2>1. Len(s) \in Nat
    OBVIOUS
  <2> HIDE DEF c
  <2>2. Len(c) = Len(buf) \/ Len(c) <= 2 * (w - r + Len(s))
    BY <1>1, <1>3
  <2>3. e \in Nat /\ r1 <= e /\ e <= Len(c)
    BY <1>1, <1>3, <2>1
  <2>4. e - r1 = w - r + Len(s)
    <3>1. w1 - r1 = w - r
      BY <1>1, Zenon
    <3>2. QED
      BY <2>1, <3>1, SMTT(30)
  <2>5. QED
    BY <2>2, <2>3, <2>4
<1> HIDE DEF c, e
<1>6. QED
  BY <1>2, <1>3, <1>4, <1>5

-------------------------------------------------------------------------------
(* The steps *)

\* The state as the lemmas see it, before anything is broken.
LEMMA Whole ==
    ASSUME IInv, ~broken
    PROVE  /\ buffer_ \in Seq(Bytes) /\ readPos_ \in Nat /\ writePos_ \in Nat
           /\ readPos_ <= writePos_ /\ writePos_ <= Len(buffer_)
           /\ This = Holding(buffer_, readPos_, writePos_)
           /\ Content(This) = Between(buffer_, readPos_, writePos_)
           /\ Readable(This) = writePos_ - readPos_ /\ Writable(This) = Len(buffer_) - writePos_
<1>1. /\ buffer_ \in Seq(Bytes) /\ readPos_ \in Nat /\ writePos_ \in Nat
      /\ readPos_ <= writePos_ /\ writePos_ <= Len(buffer_)
  BY DEF IInv, TypeOK
<1>2. This.buf = buffer_ /\ This.r = readPos_ /\ This.w = writePos_
  BY DEF This
<1>3. QED
  BY <1>1, <1>2 DEF This, Holding, Content, Between, Readable, Writable

\* A step to a buffer whose positions are in order keeps the invariant if room was counted
\* for what it holds and the vector is no longer than before or than twice that room.
LEMMA Became ==
    ASSUME IInv, ~broken,
           NEW buf \in Seq(Bytes), NEW r \in Nat, NEW w \in Nat, NEW n \in Nat,
           BecomesFor(Holding(buf, r, w), n),
           r <= w, w <= Len(buf), w - r <= n,
           Len(buf) = Len(buffer_) \/ Len(buf) <= 2 * n
    PROVE  IInv' /\ ~broken' /\ Content(This)' = Between(buf, r, w)
<1>1. /\ buffer_' = buf /\ readPos_' = r /\ writePos_' = w
      /\ peak' = (IF n > peak THEN n ELSE peak) /\ broken' = broken
  BY DEF BecomesFor, Holding
<1>2. peak \in Nat /\ peak' \in Nat /\ n <= peak' /\ peak <= peak'
  BY <1>1 DEF IInv, TypeOK
<1>3. broken' = FALSE
  BY <1>1 DEF IInv, TypeOK
<1>4. TypeOK'
  BY <1>1, <1>2, <1>3 DEF TypeOK
<1>5. PeakInv'
  BY <1>1, <1>2 DEF PeakInv
<1>6. SizeBounded'
  <2>1. Len(buffer_) <= InitBuffSize \/ Len(buffer_) <= 2 * peak
    BY DEF IInv, SizeBounded
  <2>2. Len(buffer_) \in Nat /\ Len(buf) \in Nat
    BY DEF IInv, TypeOK
  <2>3. InitBuffSize \in Nat
    BY BufferAssumption
  <2>4. Len(buf) <= InitBuffSize \/ Len(buf) <= 2 * peak'
    BY <1>2, <2>1, <2>2, <2>3
  <2>5. QED
    BY <1>1, <2>4 DEF SizeBounded
<1>7. Content(This)' = Between(buf, r, w)
  <2>1. Content(This)' = SubSeq(buffer_', readPos_' + 1, writePos_')
    BY DEF Content, This
  <2>2. QED
    BY <1>1, <2>1 DEF Between
<1>8. QED
  BY <1>3, <1>4, <1>5, <1>6, <1>7 DEF IInv

\* Append() puts the string behind the content.
LEMMA AppendStep ==
    ASSUME IInv, NEW s \in Strings, Append_(s)
    PROVE  IInv' /\ BQ!Put(s)
<1>1. ~broken /\ Becomes(Appended(This, s)) /\ s \in Seq(Bytes)
  BY BufferAssumption DEF Append_, Fits
<1>2. /\ buffer_ \in Seq(Bytes) /\ readPos_ \in Nat /\ writePos_ \in Nat
      /\ readPos_ <= writePos_ /\ writePos_ <= Len(buffer_)
      /\ This = Holding(buffer_, readPos_, writePos_)
      /\ Content(This) = Between(buffer_, readPos_, writePos_)
  BY <1>1, Whole
<1>3. PICK buf \in Seq(Bytes), r \in Nat, w \in Nat :
         /\ Appended(This, s) = Holding(buf, r, w)
         /\ r <= w /\ w <= Len(buf) /\ w - r = writePos_ - readPos_ + Len(s)
         /\ Between(buf, r, w) = Content(This) \o s
         /\ Len(buf) = Len(buffer_) \/ Len(buf) <= 2 * (writePos_ - readPos_ + Len(s))
  <2>1. /\ buffer_ \in Seq(Bytes) /\ readPos_ \in Nat /\ writePos_ \in Nat
        /\ readPos_ <= writePos_ /\ writePos_ <= Len(buffer_) /\ s \in Seq(Bytes)
    BY <1>1, <1>2, Zenon
  <2>2. \E buf \in Seq(Bytes), r \in Nat, w \in Nat :
           /\ Appended(Holding(buffer_, readPos_, writePos_), s) = Holding(buf, r, w)
           /\ r <= w /\ w <= Len(buf) /\ w - r = writePos_ - readPos_ + Len(s)
           /\ Between(buf, r, w) = Between(buffer_, readPos_, writePos_) \o s
           /\ Len(buf) = Len(buffer_) \/ Len(buf) <= 2 * (writePos_ - readPos_ + Len(s))
    BY <2>1, AppendedTo
  <2>3. QED
    BY <1>2, <2>2, Zenon
<1>4. BecomesFor(Holding(buf, r, w), w - r)
  BY <1>1, <1>3 DEF Becomes, Readable, Holding
<1>5. w - r \in Nat /\ (Len(buf) = Len(buffer_) \/ Len(buf) <= 2 * (w - r))
  BY <1>3
<1>6. IInv' /\ ~broken' /\ Content(This)' = Between(buf, r, w)
  BY <1>1, <1>3, <1>4, <1>5, Became
<1>7. QED
  BY <1>1, <1>3, <1>6, Zenon DEF BQ!Put, IInv, TypeOK

\* EnsureWriteable() from outside changes nothing a reader of the content can see.
LEMMA ReserveStep ==
    ASSUME IInv, NEW len \in Nat, Reserve(len)
    PROVE  IInv' /\ UNCHANGED <<IF broken THEN <<>> ELSE Content(This), ~broken>>
<1>1. ~broken /\ BecomesFor(EnsureWriteable(This, len), Readable(This) + len)
  BY DEF Reserve
<1>2. /\ buffer_ \in Seq(Bytes) /\ readPos_ \in Nat /\ writePos_ \in Nat
      /\ readPos_ <= writePos_ /\ writePos_ <= Len(buffer_)
      /\ This = Holding(buffer_, readPos_, writePos_)
      /\ Content(This) = Between(buffer_, readPos_, writePos_)
      /\ Readable(This) = writePos_ - readPos_
  BY <1>1, Whole
<1>3. PICK buf \in Seq(Bytes), r \in Nat, w \in Nat :
         /\ EnsureWriteable(This, len) = Holding(buf, r, w)
         /\ r <= w /\ w + len <= Len(buf) /\ w - r = writePos_ - readPos_
         /\ Between(buf, r, w) = Content(This)
         /\ Len(buf) = Len(buffer_) \/ Len(buf) <= 2 * (writePos_ - readPos_ + len)
  BY <1>2, Ensured
<1> DEFINE n == writePos_ - readPos_ + len
<1>4. BecomesFor(Holding(buf, r, w), n)
  BY <1>1, <1>2, <1>3
<1>5. n \in Nat /\ w - r <= n /\ w <= Len(buf) /\ (Len(buf) = Len(buffer_) \/ Len(buf) <= 2 * n)
  BY <1>2, <1>3
<1> HIDE DEF n
<1>6. IInv' /\ ~broken' /\ Content(This)' = Between(buf, r, w)
  BY <1>1, <1>3, <1>4, <1>5, Became
<1>7. QED
  BY <1>1, <1>3, <1>6, Zenon DEF IInv, TypeOK

\* Retrieve() and what write() took leave the rest of the content.
LEMMA TakenStep ==
    ASSUME IInv, ~broken, NEW n \in 0..Readable(This), Becomes([This EXCEPT !.r = @ + n])
    PROVE  IInv' /\ BQ!Take(n) /\ n \in 0..Len(Content(This))
<1>1. /\ buffer_ \in Seq(Bytes) /\ readPos_ \in Nat /\ writePos_ \in Nat
      /\ readPos_ <= writePos_ /\ writePos_ <= Len(buffer_)
      /\ This = Holding(buffer_, readPos_, writePos_)
      /\ Content(This) = Between(buffer_, readPos_, writePos_)
      /\ Readable(This) = writePos_ - readPos_
  BY Whole
<1> DEFINE r == readPos_ + n
           m == writePos_ - r
<1>2. [This EXCEPT !.r = @ + n] = Holding(buffer_, r, writePos_)
  <2>1. This.r = readPos_
    BY DEF This
  <2>2. [This EXCEPT !.r = This.r + n] = [Holding(buffer_, readPos_, writePos_) EXCEPT !.r = r]
    BY <1>1, <2>1
  <2>3. \A v : [Holding(buffer_, readPos_, writePos_) EXCEPT !.r = v] = Holding(buffer_, v, writePos_)
    BY DEF Holding
  <2>4. QED
    BY <2>2, <2>3
<1>3. BecomesFor(Holding(buffer_, r, writePos_), m)
  BY <1>2 DEF Becomes, Readable, Holding
<1>4. r \in Nat /\ m \in Nat /\ r <= writePos_ /\ writePos_ - r <= m
  BY <1>1
<1>5. Len(Content(This)) = writePos_ - readPos_
  BY <1>1, BetweenSeq
<1>6. Between(buffer_, r, writePos_) = SubSeq(Content(This), n + 1, Len(Content(This)))
  BY <1>1, <1>5, TakeFront
<1> HIDE DEF r, m
<1>7. IInv' /\ ~broken' /\ Content(This)' = Between(buffer_, r, writePos_)
  BY <1>1, <1>3, <1>4, Became
<1>8. BQ!Take(n)
  BY <1>6, <1>7, Zenon DEF BQ!Take, IInv, TypeOK
<1>9. QED
  BY <1>1, <1>5, <1>7, <1>8

\* RetrieveAll() takes all there is.
LEMMA RetrieveAllStep ==
    ASSUME IInv, RetrieveAll
    PROVE  IInv' /\ BQ!Take(Len(Content(This))) /\ Len(Content(This)) \in Nat
<1>1. ~broken /\ Becomes([buf |-> Zeros(Len(buffer_)), r |-> 0, w |-> 0])
  BY DEF RetrieveAll
<1>2. /\ buffer_ \in Seq(Bytes) /\ readPos_ \in Nat /\ writePos_ \in Nat
      /\ readPos_ <= writePos_ /\ writePos_ <= Len(buffer_)
      /\ Content(This) = Between(buffer_, readPos_, writePos_)
  BY <1>1, Whole
<1> DEFINE z == Zeros(Len(buffer_))
<1>3. z \in Seq(Bytes) /\ Len(z) = Len(buffer_)
  BY <1>2, ZerosSeq
<1> HIDE DEF z
<1>4. BecomesFor(Holding(z, 0, 0), 0)
  BY <1>1 DEF Becomes, Readable, Holding, z
<1>5. IInv' /\ ~broken' /\ Content(This)' = Between(z, 0, 0)
  BY <1>1, <1>3, <1>4, Became
<1>6. Len(Content(This)) = writePos_ - readPos_
  BY <1>2, BetweenSeq
<1>7. Between(z, 0, 0) = <<>>
  BY SubSeqEmpty DEF Between
<1>8. SubSeq(Content(This), Len(Content(This)) + 1, Len(Content(This))) = <<>>
  BY <1>2, <1>6, SubSeqEmpty
<1>9. BQ!Take(Len(Content(This)))
  BY <1>1, <1>5, <1>7, <1>8, Zenon DEF BQ!Take, IInv, TypeOK
<1>10. QED
  BY <1>2, <1>5, <1>6, <1>9

\* Bytes written in place behind the content, of which n are counted, are put behind it.
LEMMA FilledStep ==
    ASSUME IInv, ~broken, NEW t \in Seq(Bytes), NEW n \in 0..Len(t), n <= Writable(This),
           Becomes(Filled(This, Copy(buffer_, writePos_, t), writePos_ + n))
    PROVE  IInv' /\ ~broken' /\ Content(This)' = Content(This) \o SubSeq(t, 1, n)
<1>1. /\ buffer_ \in Seq(Bytes) /\ readPos_ \in Nat /\ writePos_ \in Nat
      /\ readPos_ <= writePos_ /\ writePos_ <= Len(buffer_)
      /\ This = Holding(buffer_, readPos_, writePos_)
      /\ Content(This) = Between(buffer_, readPos_, writePos_)
      /\ Writable(This) = Len(buffer_) - writePos_
  BY Whole
<1> DEFINE c == Copy(buffer_, writePos_, t)
           w == writePos_ + n
           m == w - readPos_
<1>2. Becomes(Holding(c, readPos_, w))
  BY <1>1, FilledHolds
<1>3. c \in Seq(Bytes) /\ Len(c) = Len(buffer_)
  BY <1>1, CopySeq
<1>4. writePos_ + n <= Len(buffer_)
  BY <1>1
<1>5. Between(c, readPos_, w) = Content(This) \o SubSeq(t, 1, n)
  <2>1. /\ buffer_ \in Seq(Bytes) /\ readPos_ \in Nat /\ writePos_ \in Nat /\ readPos_ <= writePos_
        /\ n \in Nat /\ n <= Len(t)
    BY <1>1
  <2>2. Between(Copy(buffer_, writePos_, t), readPos_, writePos_ + n) =
           Followed(Between(buffer_, readPos_, writePos_), t, n)
    BY <1>4, <2>1, CopyBehind
  <2>3. QED
    BY <1>1, <2>2, Zenon DEF Followed
<1>6. w \in Nat /\ m \in Nat /\ readPos_ <= w /\ w <= Len(c) /\ w - readPos_ <= m
  BY <1>1, <1>3, <1>4
<1> HIDE DEF c
<1>7. BecomesFor(Holding(c, readPos_, w), m)
  BY <1>2 DEF Becomes, Readable, Holding
<1> HIDE DEF w, m
<1>8. IInv' /\ ~broken' /\ Content(This)' = Between(c, readPos_, w)
  BY <1>1, <1>3, <1>6, <1>7, Became
<1>9. QED
  BY <1>5, <1>8

\* The two pieces of readv() end up behind each other, and behind the content.
LEMMA ReadFdStep ==
    ASSUME IInv, NEW s \in Strings, ReadFd(s)
    PROVE  IInv' /\ BQ!Put(s)
<1>1. ~broken /\ s \in Seq(Bytes) /\ Len(s) \in Nat
  BY BufferAssumption DEF ReadFd, Fits
<1>2. /\ buffer_ \in Seq(Bytes) /\ readPos_ \in Nat /\ writePos_ \in Nat
      /\ readPos_ <= writePos_ /\ writePos_ <= Len(buffer_)
      /\ This = Holding(buffer_, readPos_, writePos_)
      /\ Content(This) = Between(buffer_, readPos_, writePos_)
      /\ Writable(This) = Len(buffer_) - writePos_ /\ Readable(This) = writePos_ - readPos_
      /\ This.buf = buffer_ /\ This.w = writePos_
  BY <1>1, Whole DEF This
<1> DEFINE room == Writable(This)
<1>3. room \in Nat /\ room = Len(buffer_) - writePos_
  BY <1>2
<1>4. CASE Len(s) <= room
  <2>1. Becomes(Filled(This, Copy(buffer_, writePos_, s), writePos_ + Len(s)))
    BY <1>2, <1>4, Zenon DEF ReadFd, Filled
  <2>2. Len(s) \in 0..Len(s) /\ SubSeq(s, 1, Len(s)) = s
    BY <1>1, SubSeqFull
  <2>3. IInv' /\ ~broken' /\ Content(This)' = Content(This) \o SubSeq(s, 1, Len(s))
    BY <1>1, <1>4, <2>1, <2>2, FilledStep
  <2>4. QED
    BY <1>1, <2>2, <2>3, Zenon DEF BQ!Put, IInv, TypeOK
<1>5. CASE ~(Len(s) <= room)
  <2> DEFINE t == SubSeq(s, 1, room)
             u == SubSeq(s, room + 1, Len(s))
             c == Copy(buffer_, writePos_, t)
             e == Len(buffer_)
  <2>1. Becomes(Appended(Filled(This, c, e), u))
    BY <1>2, <1>5, Zenon DEF ReadFd, Filled
  <2>2. /\ t \in Seq(Bytes) /\ Len(t) = room
        /\ u \in Seq(Bytes) /\ Len(u) = Len(s) - room
        /\ SubSeq(t, 1, room) = t
    <3>1. t \in Seq(Bytes) /\ Len(t) = room
      BY <1>1, <1>3, <1>5
    <3>2. u \in Seq(Bytes) /\ Len(u) = Len(s) - room
      BY <1>1, <1>3, <1>5
    <3>3. SubSeq(t, 1, Len(t)) = t
      BY <3>1, SubSeqFull
    <3>4. QED
      BY <3>1, <3>2, <3>3
  <2>3. t \o u = s
    <3>1. /\ 1 \in 1..Len(s) + 1 /\ room \in 1 - 1..Len(s) /\ Len(s) \in room..Len(s)
      BY <1>1, <1>3, <1>5
    <3>2. t \o u = SubSeq(s, 1, Len(s))
      BY <1>1, <3>1, ConcatAdjacentSubSeq
    <3>3. QED
      BY <1>1, <3>2, SubSeqFull
  <2>4. Filled(This, c, e) = Holding(c, readPos_, e)
    BY <1>2, FilledHolds
  <2>5. c \in Seq(Bytes) /\ Len(c) = Len(buffer_)
    BY <1>2, <2>2, CopySeq
  <2> HIDE DEF t, u
  <2>6. Between(c, readPos_, e) = Content(This) \o t
    <3>1. /\ room \in Nat /\ room <= Len(t) /\ t \in Seq(Bytes)
          /\ writePos_ + room <= Len(buffer_) /\ writePos_ + room = e
      BY <1>2, <1>3, <2>2
    <3>2. buffer_ \in Seq(Bytes) /\ readPos_ \in Nat /\ writePos_ \in Nat /\ readPos_ <= writePos_
      BY <1>2, Zenon
    <3>3. Between(c, readPos_, writePos_ + room) =
             Followed(Between(buffer_, readPos_, writePos_), t, room)
      BY <3>1, <3>2, CopyBehind
    <3>4. QED
      BY <1>2, <2>2, <3>1, <3>3, Zenon DEF Followed
  <2> HIDE DEF c
  <2>7. e \in Nat /\ readPos_ <= e /\ e <= Len(c)
    BY <1>2, <2>5
  <2> HIDE DEF e
  <2>8. PICK buf \in Seq(Bytes), r \in Nat, w \in Nat :
           /\ Appended(Holding(c, readPos_, e), u) = Holding(buf, r, w)
           /\ r <= w /\ w <= Len(buf) /\ w - r = e - readPos_ + Len(u)
           /\ Between(buf, r, w) = Between(c, readPos_, e) \o u
           /\ Len(buf) = Len(c) \/ Len(buf) <= 2 * (e - readPos_ + Len(u))
    BY <1>2, <2>2, <2>5, <2>7, AppendedTo
  <2>9. BecomesFor(Holding(buf, r, w), w - r)
    BY <2>1, <2>4, <2>8 DEF Becomes, Readable, Holding
  <2>10. w - r \in Nat /\ (Len(buf) = Len(buffer_) \/ Len(buf) <= 2 * (w - r))
    BY <2>5, <2>8
  <2>11. IInv' /\ ~broken' /\ Content(This)' = Between(buf, r, w)
    <3>1. r <= w /\ w <= Len(buf) /\ w - r <= w - r
      BY <2>8
    <3>2. QED
      BY <1>1, <2>9, <2>10, <3>1, Became, Zenon
  <2>12. Between(buf, r, w) = Content(This) \o s
    <3>1. Content(This) \in Seq(Bytes)
      BY <1>2, BetweenSeq
    <3>2. t \in Seq(Bytes) /\ u \in Seq(Bytes)
      BY <2>2
    <3>3. \A x \in Seq(Bytes) : (x \o t) \o u = x \o (t \o u)
      BY <3>2, ConcatAssociative
    <3>4. QED
      BY <2>3, <2>6, <2>8, <3>1, <3>3
  <2>13. QED
    BY <1>1, <2>11, <2>12, Zenon DEF BQ!Put, IInv, TypeOK
<1>6. QED
  BY <1>4, <1>5

\* A print that is shorter than its room is put in, one that is as long loses its last
\* byte, and after a longer one nothing is promised.
LEMMA VsnprintfStep ==
    ASSUME IInv, NEW s \in Strings, Vsnprintf(s)
    PROVE  IInv' /\ (BQ!Put(s) \/ BQ!PutCut(s) \/ BQ!Spill)
<1>1. ~broken /\ s \in Seq(Bytes) /\ Len(s) \in Nat /\ <<NUL>> \in Seq(Bytes) /\ Len(<<NUL>>) = 1
  BY BufferAssumption DEF Vsnprintf, Fits
<1>2. /\ buffer_ \in Seq(Bytes) /\ readPos_ \in Nat /\ writePos_ \in Nat
      /\ readPos_ <= writePos_ /\ writePos_ <= Len(buffer_)
      /\ Content(This) = Between(buffer_, readPos_, writePos_)
      /\ Writable(This) = Len(buffer_) - writePos_
      /\ This.buf = buffer_ /\ This.w = writePos_
  BY <1>1, Whole DEF This
<1> DEFINE room == Writable(This)
<1>3. room \in Nat /\ room = Len(buffer_) - writePos_
  BY <1>2
<1>4. CASE Len(s) < room
  <2> DEFINE t == s \o <<NUL>>
  <2>1. Becomes(Filled(This, Copy(buffer_, writePos_, t), writePos_ + Len(s)))
    BY <1>2, <1>4, Zenon DEF Vsnprintf, Filled
  <2>2. t \in Seq(Bytes) /\ Len(t) = Len(s) + 1 /\ SubSeq(t, 1, Len(s)) = s
    <3>1. t \in Seq(Bytes) /\ Len(t) = Len(s) + 1 /\ \A i \in 1..Len(s) : t[i] = s[i]
      BY <1>1
    <3> HIDE DEF t
    <3>2. Len(s) \in 0..Len(t)
      BY <1>1, <3>1
    <3> DEFINE x == SubSeq(t, 1, Len(s))
    <3>3. x \in Seq(Bytes) /\ Len(x) = Len(s) /\ \A i \in 1..Len(s) : x[i] = t[i]
      BY <3>1, <3>2, PrefixSeq
    <3> HIDE DEF x
    <3>4. x = s
      BY <1>1, <3>1, <3>3, SeqEqual
    <3>5. QED
      BY <3>1, <3>4 DEF x
  <2> HIDE DEF t
  <2>3. Len(s) \in 0..Len(t) /\ Len(s) <= Writable(This)
    BY <1>1, <1>3, <1>4, <2>2
  <2>4. IInv' /\ ~broken' /\ Content(This)' = Content(This) \o SubSeq(t, 1, Len(s))
    BY <1>1, <2>1, <2>2, <2>3, FilledStep
  <2>5. BQ!Put(s)
    BY <1>1, <2>2, <2>4, Zenon DEF BQ!Put, IInv, TypeOK
  <2>6. QED
    BY <2>4, <2>5
<1>5. CASE ~(Len(s) < room)
  <2> DEFINE f == SubSeq(s, 1, room - 1)
             t == f \o <<NUL>>
             b == Filled(This, Copy(buffer_, writePos_, t), writePos_ + Len(s))
  <2>1. /\ Len(s) = room => Becomes(b)
        /\ Len(s) # room => /\ buffer_' = b.buf /\ writePos_' = b.w /\ broken' = TRUE
                            /\ UNCHANGED <<readPos_, peak>>
    BY <1>2, <1>5, Zenon DEF Vsnprintf, Filled
  <2>2. f \in Seq(Bytes) /\ Len(f) = IF room = 0 THEN 0 ELSE room - 1
    <3>1. CASE room = 0
      <4>1. SubSeq(s, 1, -1) = <<>>
        BY <1>1
      <4>2. f = <<>>
        BY <3>1, <4>1
      <4>3. <<>> \in Seq(Bytes)
        OBVIOUS
      <4>4. QED
        BY <3>1, <4>2, <4>3
    <3>2. CASE room # 0
      BY <1>1, <1>3, <1>5, <3>2
    <3>3. QED
      BY <3>1, <3>2
  <2>3. t \in Seq(Bytes) /\ (room # 0 => Len(t) = room /\ SubSeq(t, 1, room) = t)
    <3> HIDE DEF f
    <3>1. t \in Seq(Bytes) /\ (room # 0 => Len(t) = room)
      BY <1>1, <1>3, <2>2
    <3>2. SubSeq(t, 1, Len(t)) = t
      BY <3>1, SubSeqFull
    <3>3. QED
      BY <3>1, <3>2
  <2>4. CASE Len(s) = room /\ room = 0
    <3> HIDE DEF t, f
    <3>1. Becomes(Filled(This, Copy(buffer_, writePos_, t), writePos_ + 0))
      BY <2>1, <2>4
    <3>2. 0 \in 0..Len(t) /\ 0 <= Writable(This)
      BY <2>3, <2>4
    <3>3. IInv' /\ ~broken' /\ Content(This)' = Content(This) \o SubSeq(t, 1, 0)
      BY <1>1, <2>3, <3>1, <3>2, FilledStep
    <3>4. SubSeq(t, 1, 0) = s
      BY <1>1, <2>3, <2>4
    <3>5. BQ!Put(s)
      BY <1>1, <3>3, <3>4, Zenon DEF BQ!Put, IInv, TypeOK
    <3>6. QED
      BY <3>3, <3>5
  <2>5. CASE Len(s) = room /\ room # 0
    <3>1. room \in 0..Len(t) /\ room <= Writable(This)
      BY <1>3, <2>3
    <3>2. Becomes(Filled(This, Copy(buffer_, writePos_, t), writePos_ + room))
      BY <2>1, <2>5
    <3> HIDE DEF t, f
    <3>3. IInv' /\ ~broken' /\ Content(This)' = Content(This) \o SubSeq(t, 1, room)
      BY <1>1, <2>3, <3>1, <3>2, FilledStep
    <3>4. Content(This) \o t = (Content(This) \o f) \o <<NUL>>
      <4>1. Content(This) \in Seq(Bytes)
        BY <1>2, BetweenSeq
      <4>2. f \in Seq(Bytes) /\ <<NUL>> \in Seq(Bytes)
        BY <1>1, <2>2
      <4>3. \A x \in Seq(Bytes) : (x \o f) \o <<NUL>> = x \o (f \o <<NUL>>)
        BY <4>2, ConcatAssociative
      <4>4. QED
        BY <4>1, <4>3 DEF t
    <3>5. BQ!Front(s) = f
      BY <2>5 DEF BQ!Front, f
    <3>6. s # <<>>
      BY <1>3, <2>5
    <3>7. Content(This)' = Content(This) \o t
      BY <2>3, <2>5, <3>3
    <3>8. BQ!PutCut(s)
      BY <1>1, <3>3, <3>4, <3>5, <3>6, <3>7, Zenon DEF BQ!PutCut, IInv, TypeOK
    <3>9. QED
      BY <3>3, <3>8
  <2>6. CASE Len(s) # room
    <3> DEFINE c == Copy(buffer_, writePos_, t)
               w == writePos_ + Len(s)
    <3>1. buffer_ \in Seq(Bytes) /\ writePos_ \in Nat /\ t \in Seq(Bytes)
      BY <1>2, <2>3
    <3> HIDE DEF t, f
    <3>2. b = Holding(c, readPos_, w)
      <4>1. This = Holding(buffer_, readPos_, writePos_)
        BY DEF This, Holding
      <4>2. QED
        BY <4>1, FilledHolds
    <3>3. c \in Seq(Bytes) /\ Len(c) = Len(buffer_)
      BY <3>1, CopySeq
    <3> HIDE DEF c
    <3>4. b.buf = c /\ b.w = w
      BY <3>2 DEF Holding
    <3> HIDE DEF b
    <3>5. /\ buffer_' = c /\ writePos_' = w /\ broken' = TRUE
          /\ readPos_' = readPos_ /\ peak' = peak
      BY <2>1, <2>6, <3>4, Zenon
    <3>6. w \in Nat /\ w > Len(c)
      BY <1>1, <1>2, <1>3, <1>5, <2>6, <3>3
    <3>7. TypeOK'
      BY <1>2, <3>3, <3>5, <3>6 DEF TypeOK, IInv
    <3>8. PeakInv' /\ SizeBounded'
      BY <3>3, <3>5 DEF PeakInv, SizeBounded, IInv
    <3>9. BQ!Spill
      BY <1>1, <3>5 DEF BQ!Spill
    <3>10. QED
      BY <3>7, <3>8, <3>9 DEF IInv
  <2>7. QED
    BY <2>4, <2>5, <2>6
<1>6. QED
  BY <1>4, <1>5

\* Every step keeps the invariant and is a step, or a stutter, of the queue of bytes.
LEMMA NextStep ==
    ASSUME IInv, [Next]_vars
    PROVE  IInv' /\ [BQ!Next]_BQ!vars
<1>1. ASSUME NEW s \in Strings, Append_(s) PROVE IInv' /\ BQ!Next
  BY <1>1, AppendStep DEF BQ!Next
<1>2. ASSUME NEW s \in Strings, ReadFd(s) PROVE IInv' /\ BQ!Next
  BY <1>2, ReadFdStep DEF BQ!Next
<1>3. ASSUME NEW s \in Strings, Vsnprintf(s) PROVE IInv' /\ BQ!Next
  <2>1. IInv' /\ (BQ!Put(s) \/ BQ!PutCut(s) \/ BQ!Spill)
    BY <1>3, VsnprintfStep
  <2>2. QED
    BY <2>1 DEF BQ!Next
<1>4. ASSUME NEW n \in 0..MaxContent, Reserve(n) PROVE IInv' /\ UNCHANGED BQ!vars
  <2>1. n \in Nat
    BY BufferAssumption
  <2>2. IInv' /\ UNCHANGED <<IF broken THEN <<>> ELSE Content(This), ~broken>>
    BY <1>4, <2>1, ReserveStep
  <2>3. QED
    BY <2>2 DEF BQ!vars
<1>5. ASSUME ~broken, NEW n \in 0..Readable(This), Becomes([This EXCEPT !.r = @ + n])
      PROVE  IInv' /\ BQ!Next
  <2>1. IInv' /\ BQ!Take(n) /\ n \in 0..Len(Content(This))
    BY <1>5, TakenStep
  <2>2. QED
    BY <1>5, <2>1 DEF BQ!Next
<1>6. ASSUME NEW n \in 0..MaxContent, Retrieve(n) \/ WriteFd(n) PROVE IInv' /\ BQ!Next
  <2>1. ~broken /\ n <= Readable(This) /\ Becomes([This EXCEPT !.r = @ + n])
    BY <1>6, Zenon DEF Retrieve, WriteFd
  <2>2. n \in 0..Readable(This)
    <3>1. Readable(This) \in Nat /\ n \in Nat
      BY <2>1, Whole, BufferAssumption
    <3>2. QED
      BY <2>1, <3>1
  <2>3. QED
    BY <1>5, <2>1, <2>2
<1>7. ASSUME NEW c \in Bytes, RetrieveUntil(c) PROVE IInv' /\ BQ!Next
  <2>1. ~broken
    BY <1>7 DEF RetrieveUntil
  <2>2. PICK i \in 1..Readable(This) : Becomes([This EXCEPT !.r = @ + (i - 1)])
    BY <1>7, Zenon DEF RetrieveUntil
  <2>3. i - 1 \in 0..Readable(This)
    <3>1. Readable(This) \in Nat
      BY <2>1, Whole
    <3>2. QED
      BY <3>1
  <2>4. QED
    BY <1>5, <2>1, <2>2, <2>3
<1>8. ASSUME RetrieveAll PROVE IInv' /\ BQ!Next
  <2>1. IInv' /\ BQ!Take(Len(Content(This))) /\ Len(Content(This)) \in Nat
    BY <1>8, RetrieveAllStep
  <2>2. ~broken
    BY <1>8 DEF RetrieveAll
  <2>3. Len(Content(This)) \in 0..Len(Content(This))
    BY <2>1
  <2>4. QED
    BY <2>1, <2>2, <2>3 DEF BQ!Next
<1>9. CASE UNCHANGED vars
  <2>1. /\ buffer_' = buffer_ /\ readPos_' = readPos_ /\ writePos_' = writePos_
        /\ broken' = broken /\ peak' = peak
    BY <1>9 DEF vars
  <2>2. TypeOK' /\ PeakInv' /\ SizeBounded'
    BY <2>1 DEF TypeOK, PeakInv, SizeBounded, IInv
  <2>3. UNCHANGED BQ!vars
    BY <2>1 DEF BQ!vars, Content, This
  <2>4. QED
    BY <2>2, <2>3 DEF IInv
<1>10. QED
  BY <1>1, <1>2, <1>3, <1>4, <1>6, <1>7, <1>8, <1>9 DEF Next

-------------------------------------------------------------------------------
(* Theorems *)

\* A new buffer satisfies the invariant and is an empty queue.
LEMMA InitHolds == Init => IInv /\ BQ!Init
<1> SUFFICES ASSUME Init PROVE IInv /\ BQ!Init
  OBVIOUS
<1>1. /\ buffer_ \in Seq(Bytes) /\ Len(buffer_) = InitBuffSize /\ InitBuffSize \in Nat
      /\ readPos_ = 0 /\ writePos_ = 0 /\ broken = FALSE /\ peak = 0
  BY ZerosSeq, BufferAssumption DEF Init
<1>2. IInv
  <2>1. TypeOK
    <3>1. broken \in BOOLEAN /\ ~broken
      BY <1>1
    <3>2. readPos_ <= writePos_ /\ writePos_ <= Len(buffer_) /\ readPos_ \in Nat /\ writePos_ \in Nat
      BY <1>1
    <3>3. peak \in Nat /\ buffer_ \in Seq(Bytes)
      BY <1>1
    <3>4. QED
      BY <3>1, <3>2, <3>3, Zenon DEF TypeOK
  <2>2. PeakInv /\ SizeBounded
    BY <1>1 DEF PeakInv, SizeBounded
  <2>3. QED
    BY <2>1, <2>2 DEF IInv
<1>3. Content(This) = <<>>
  BY <1>1, SubSeqEmpty DEF Content, This
<1>4. QED
  BY <1>1, <1>2, <1>3 DEF BQ!Init

\* The inductive invariant holds (every method of Buffer, and Log::write()'s print into it).
THEOREM IInvHolds == Spec => []IInv
<1>1. IInv /\ [Next]_vars => IInv'
  BY NextStep
<1>2. QED
  BY <1>1, InitHolds, PTL DEF Spec

\* The positions keep their order inside the vector until a print is longer than its room
\* (HasWritten() in Log::write()).
THEOREM TypeCorrect == Spec => []TypeOK
<1>1. IInv => TypeOK
  BY DEF IInv
<1>2. QED
  BY <1>1, IInvHolds, PTL

\* The vector stays below twice the most it had to hold (Buffer::MakeSpace_()).
THEOREM StaysSmall == Spec => []SizeBounded
<1>1. IInv => SizeBounded
  BY DEF IInv
<1>2. QED
  BY <1>1, IInvHolds, PTL

\* Buffer implements the queue of bytes: what moves, grows or splits is invisible.
THEOREM IsByteQueue == Spec => ImplementsByteQueue
<1>1. Init => BQ!Init
  BY InitHolds
<1>2. IInv /\ [Next]_vars => [BQ!Next]_BQ!vars
  BY NextStep
<1>3. QED
  BY <1>1, <1>2, IInvHolds, PTL DEF Spec, ImplementsByteQueue, BQ!Spec

===============================================================================
