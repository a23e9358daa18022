----------------------------- MODULE HttpConnProofs ----------------------------
(***************************************************************************)
(* Proofs about HttpConn: the parser, which gets the input in pieces and   *)
(* reads it line by line, gives the answer of HttpRequest, which looks at  *)
(* all of it at once; and what is sent and mapped is that answer.  For any *)
(* paths, files and scripts, any sizes of the buffers and of the socket,   *)
(* and any number of connections, one after the other.                     *)
(*                                                                         *)
(* The lemmas on lines are about sequences of symbols and know nothing of  *)
(* the connection.  Positions in a sequence count from 1, so that an index *)
(* of the parser is the number of symbols before it.                       *)
(***************************************************************************)
EXTENDS HttpConn, FiniteSetTheorems, FunctionTheorems, SequenceTheorems,
        WellFoundedInduction, TLAPS

Symbols == Seq(STRING)

\* No line ends from i to j.
Even(s, i, j) == \A k \in i..j : s[k] \notin {"CR", "LF"}

\* The path that is asked for, and whether a header up to n asks to stay connected.
Asked(s) == CHOOSE p \in Paths : FirstLine(s) \in Forms(p)
Wished(s, n) == \E i \in Headers(s, n) : s[i] = KeepAlive

\* The first n symbols of s are a request line and headers, and the empty line is to come.
Begun(s, n) ==
    /\ n - 1 \in LineEnds(s)
    /\ CleanTo(s, n)
    /\ \A i \in BlankLines(s) : i + 3 > n
    /\ IsRequest(FirstLine(s))

\* s has a request line, headers and the empty line, and how long it is up to there.
Headed(s) == BlankLines(s) # {} /\ CleanTo(s, Min(BlankLines(s))) /\ IsRequest(FirstLine(s))
HeadLength(s) == Min(BlankLines(s)) + 3

\* What the parser knows between two lines.
LineInv ==
    /\ m_check_state = "REQUESTLINE" => m_start_line = 0 /\ m_content_length = 0 /\ ~m_keepAlive
    /\ m_check_state = "HEADER" =>
         /\ Begun(m_read_buf, m_start_line) /\ m_url = Asked(m_read_buf)
         /\ m_content_length = BodyLength(m_read_buf, m_start_line)
         /\ m_keepAlive <=> Wished(m_read_buf, m_start_line)
    /\ m_check_state = "CONTENT" =>
         /\ Headed(m_read_buf) /\ m_url = Asked(m_read_buf)
         /\ m_content_length = BodyLength(m_read_buf, HeadLength(m_read_buf) - 3)
         /\ m_keepAlive <=> StaysOpen(m_read_buf)
         /\ m_checked_idx >= HeadLength(m_read_buf)
    /\ m_check_state # "CONTENT" => Even(m_read_buf, m_start_line + 1, m_checked_idx)

\* As long as no body came late, one that is not there was missed at the end of the header.
BodyInv ==
    /\ m_check_state = "CONTENT" /\ ~lateBody =>
         IF pc = "parse" /\ line_status = "OK"
            THEN m_checked_idx = HeadLength(m_read_buf)
            ELSE m_read_idx < HeadLength(m_read_buf) + m_content_length
    /\ pc = "parse" => line_status = "OK" \/ (line_status = "OPEN" /\ m_check_state = "CONTENT")

\* A response in hand is the one to the input, with its length, and nothing of it was sent
\* if all writev() calls took all of it.
HeaderLength == IF ret = "FILE_REQUEST" THEN 5 ELSE 6
ResponseInv ==
    /\ ret = Verdict(m_read_buf)
    /\ m_keepAlive <=> StaysOpen(m_read_buf)
    /\ m_write_idx = HeaderLength
    /\ m_iv = IF ret = "FILE_REQUEST" THEN <<5, m_file_stat>> ELSE <<6>>
    /\ ~tight => sent = 0 /\ (pc = "sending" => bytes_have_send = 0)

ParserInv ==
    /\ pc \in {"in", "parse"} => LineInv /\ BodyInv /\ m_write_idx = 0
    /\ pc \in {"out", "sending"} => ResponseInv
    /\ pc = "in" /\ ~lateBody => Verdict(m_read_buf) = "NO_REQUEST"

\* A connection leaves no more than one mapping behind, so that there is always a free
\* address; MappedWhileSending is part of this.
InHand == {[at |-> m_file_address, size |-> m_file_stat]}
MapInv ==
    /\ IsFiniteSet(mapped) /\ Cardinality(mapped) <= conns
    /\ pc \in {"in", "parse"} => Cardinality(mapped) < conns
    /\ pc \in {"out", "sending"} => Cardinality(mapped \ InHand) < conns

IInv == TypeOK /\ ParserInv /\ MapInv /\ MappedWhileSending

-------------------------------------------------------------------------------
(* Least and greatest numbers *)

\* The number that all others reach is the least.
LEMMA MinIs ==
    ASSUME NEW T \in SUBSET Int, NEW m \in T, \A k \in T : m <= k
    PROVE  Min(T) = m
<1>1. \A x \in T : (\A y \in T : x <= y) => x = m
  OBVIOUS
<1>2. QED
  BY <1>1 DEF Min

\* The number that reaches all others is the greatest.
LEMMA MaxIs ==
    ASSUME NEW T \in SUBSET Int, NEW m \in T, \A k \in T : k <= m
    PROVE  Max(T) = m
<1>1. \A x \in T : (\A y \in T : x >= y) => x = m
  OBVIOUS
<1>2. QED
  BY <1>1 DEF Max

\* A set of natural numbers that has an element has a least one.
LEMMA MinExists ==
    ASSUME NEW T \in SUBSET Nat, T # {}
    PROVE  Min(T) \in T /\ \A k \in T : Min(T) <= k
<1> DEFINE R == OpToRel(<, Nat)
<1>1. IsWellFoundedOn(R, Nat)
  BY NatLessThanWellFounded
<1>2. \A k, m \in Nat : k < m => <<k, m>> \in R
  BY DEF OpToRel
<1> HIDE DEF R
<1>3. PICK m \in T : \A k \in T : <<k, m>> \notin R
  BY <1>1, WFMin
<1>4. \A k \in T : m <= k
  <2> SUFFICES ASSUME NEW k \in T PROVE m <= k
    OBVIOUS
  <2>1. k \in Nat /\ m \in Nat /\ <<k, m>> \notin R
    BY <1>3
  <2>2. ~(k < m)
    BY <1>2, <2>1
  <2>3. QED
    BY <2>1, <2>2
<1>5. Min(T) = m
  BY <1>3, <1>4, MinIs
<1>6. QED
  BY <1>3, <1>4, <1>5

\* A set of natural numbers that has an element and a bound has a greatest one: the least
\* of its bounds.
LEMMA MaxExists ==
    ASSUME NEW T \in SUBSET Nat, T # {}, NEW n \in Nat, \A k \in T : k <= n
    PROVE  Max(T) \in T /\ \A k \in T : k <= Max(T)
<1> DEFINE U == {b \in Nat : \A k \in T : k <= b}
           m == Min(U)
<1>1. U \in SUBSET Nat /\ n \in U
  OBVIOUS
<1>2. m \in U /\ \A b \in U : m <= b
  <2> HIDE DEF U
  <2>1. QED
    BY <1>1, MinExists
<1>3. m \in Nat /\ \A k \in T : k <= m
  BY <1>2
<1> HIDE DEF m
<1>4. m \in T
  <2> SUFFICES ASSUME m \notin T PROVE FALSE
    OBVIOUS
  <2>1. \A k \in T : k <= m - 1 /\ k \in Nat
    BY <1>3
  <2>2. m - 1 \in Nat
    <3>1. PICK k \in T : TRUE
      OBVIOUS
    <3>2. k <= m - 1 /\ k \in Nat
      BY <2>1, <3>1
    <3>3. QED
      BY <1>3, <3>2
  <2>3. m - 1 \in U
    BY <2>1, <2>2
  <2>4. QED
    BY <1>2, <1>3, <2>3
<1>5. Max(T) = m
  BY <1>3, <1>4, MaxIs
<1>6. QED
  BY <1>3, <1>4, <1>5

-------------------------------------------------------------------------------
(* Lines of a sequence, and what more symbols leave as it is *)

\* w goes on where s ends.
Starts(s, w) == Len(s) <= Len(w) /\ \A i \in 1..Len(s) : w[i] = s[i]

\* Ends of lines, stray symbols and empty lines that s is long enough to show.
LEMMA LinesKept ==
    ASSUME NEW s \in Symbols, NEW w \in Symbols, Starts(s, w)
    PROVE  /\ \A i \in 1..Len(s) - 1 : i \in LineEnds(w) <=> i \in LineEnds(s)
           /\ \A i \in 1..Len(s) - 1 : Stray(w, i) <=> Stray(s, i)
           /\ Len(s) > 0 /\ s[Len(s)] = "LF" => (Stray(w, Len(s)) <=> Stray(s, Len(s)))
           /\ \A i \in 1..Len(s) - 3 : i \in BlankLines(w) <=> i \in BlankLines(s)
<1>1. Len(s) \in Nat /\ Len(w) \in Nat /\ Len(s) <= Len(w) /\ \A i \in 1..Len(s) : w[i] = s[i]
  BY DEF Symbols, Starts
<1>2. ASSUME NEW i \in 1..Len(s) - 1 PROVE i \in LineEnds(w) <=> i \in LineEnds(s)
  <2>1. i \in 1..Len(s) /\ i + 1 \in 1..Len(s) /\ i \in 1..Len(w) - 1
    BY <1>1
  <2>2. QED
    BY <1>1, <2>1 DEF LineEnds
<1>3. ASSUME NEW i \in 1..Len(s) - 1 PROVE Stray(w, i) <=> Stray(s, i)
  <2>1. w[i] = s[i] /\ w[i + 1] = s[i + 1] /\ (i # 1 => w[i - 1] = s[i - 1])
    BY <1>1
  <2>2. i < Len(s) /\ i < Len(w)
    BY <1>1
  <2>3. QED
    BY <2>1, <2>2 DEF Stray
<1>4. ASSUME Len(s) > 0, s[Len(s)] = "LF" PROVE Stray(w, Len(s)) <=> Stray(s, Len(s))
  <2> DEFINE n == Len(s)
  <2>1. n \in Nat /\ n > 0 /\ n \in 1..n /\ (n # 1 => n - 1 \in 1..n)
    <3>1. n \in Nat /\ n > 0
      BY <1>1, <1>4
    <3> HIDE DEF n
    <3>2. QED
      BY <3>1
  <2>2. w[n] = "LF" /\ s[n] = "LF" /\ (n # 1 => w[n - 1] = s[n - 1])
    BY <1>1, <1>4, <2>1
  <2> HIDE DEF n
  <2>3. Stray(w, n) <=> Stray(s, n)
    BY <2>2 DEF Stray
  <2>4. QED
    BY <2>3 DEF n
<1>5. ASSUME NEW i \in 1..Len(s) - 3 PROVE i \in BlankLines(w) <=> i \in BlankLines(s)
  <2>1. i \in 1..Len(s) - 1 /\ i + 2 \in 1..Len(s) - 1
    BY <1>1
  <2>2. QED
    BY <1>2, <2>1 DEF BlankLines
<1>6. QED
  BY <1>2, <1>3, <1>4, <1>5

\* Where lines end.
LEMMA LineEndsAre ==
    ASSUME NEW s \in Symbols
    PROVE  /\ Len(s) \in Nat
           /\ LineEnds(s) \in SUBSET Nat /\ BlankLines(s) \in SUBSET Nat
           /\ \A i : i \in LineEnds(s) <=> i \in 1..Len(s) - 1 /\ s[i] = "CR" /\ s[i + 1] = "LF"
           /\ \A i : i \in BlankLines(s) <=> i \in LineEnds(s) /\ i + 2 \in LineEnds(s)
<1>1. Len(s) \in Nat
  BY DEF Symbols
<1>2. LineEnds(s) \in SUBSET Nat /\ \A i : i \in LineEnds(s) <=> i \in 1..Len(s) - 1 /\ s[i] = "CR" /\ s[i + 1] = "LF"
  BY <1>1 DEF LineEnds
<1>3. QED
  BY <1>1, <1>2 DEF BlankLines

\* A first line that has ended stays the first line.
LEMMA FirstLineKept ==
    ASSUME NEW s \in Symbols, NEW w \in Symbols, Starts(s, w), LineEnds(s) # {}
    PROVE  FirstLine(w) = FirstLine(s)
<1> DEFINE e == Min(LineEnds(s))
<1>1. e \in LineEnds(s) /\ \A k \in LineEnds(s) : e <= k
  BY LineEndsAre, MinExists
<1>2. e \in 1..Len(s) - 1 /\ Len(s) \in Nat /\ Len(w) \in Nat
  BY <1>1, LineEndsAre
<1> HIDE DEF e
<1>3. e \in LineEnds(w) /\ \A k \in LineEnds(w) : e <= k
  <2>1. e \in LineEnds(w)
    BY <1>1, <1>2, LinesKept
  <2>2. ASSUME NEW k \in LineEnds(w), k < e PROVE FALSE
    <3>1. k \in 1..Len(s) - 1
      BY <1>2, <2>2, LineEndsAre
    <3>2. k \in LineEnds(s)
      BY <3>1, LinesKept
    <3>3. QED
      BY <1>1, <1>2, <2>2, <3>1, <3>2
  <2>3. \A k \in LineEnds(w) : k \in Nat
    BY LineEndsAre
  <2>4. QED
    BY <1>2, <2>1, <2>2, <2>3
<1>4. Min(LineEnds(w)) = e
  <2>1. LineEnds(w) \in SUBSET Int
    BY LineEndsAre
  <2>2. QED
    BY <1>3, <2>1, MinIs
<1>5. SubSeq(w, 1, e - 1) = SubSeq(s, 1, e - 1)
  <2>1. /\ SubSeq(s, 1, e - 1) = [i \in 1..e - 1 |-> s[i]]
        /\ SubSeq(w, 1, e - 1) = [i \in 1..e - 1 |-> w[i]]
    BY <1>2 DEF Symbols
  <2>2. \A i \in 1..e - 1 : w[i] = s[i]
    BY <1>2 DEF Starts
  <2>3. QED
    BY <2>1, <2>2
<1>6. QED
  BY <1>4, <1>5 DEF FirstLine, e

\* Headers up to the end of a line stay what they are.
LEMMA HeadersKept ==
    ASSUME NEW s \in Symbols, NEW w \in Symbols, Starts(s, w),
           NEW n \in Int, n - 1 \in LineEnds(s)
    PROVE  Headers(w, n) = Headers(s, n) /\ Headers(s, n - 1) = Headers(s, n)
<1>1. Len(s) \in Nat /\ n - 1 \in 1..Len(s) - 1 /\ s[n - 1] = "CR" /\ s[n] = "LF"
  BY LineEndsAre
<1>2. w[n - 1] = "CR" /\ w[n] = "LF" /\ n - 1 \in LineEnds(w)
  BY <1>1, LinesKept DEF Starts
<1>3. ASSUME NEW i \in 1..n - 2
      PROVE  /\ i - 2 \in LineEnds(w) <=> i - 2 \in LineEnds(s)
             /\ i + 1 \in LineEnds(w) <=> i + 1 \in LineEnds(s)
  <2>1. i + 1 \in 1..Len(s) - 1 /\ (i - 2 \in 1..Len(s) - 1 \/ i - 2 \notin Nat \/ i - 2 = 0)
    BY <1>1
  <2>2. i - 2 \notin 1..Len(s) - 1 => i - 2 \notin LineEnds(s) /\ i - 2 \notin LineEnds(w)
    BY <2>1, LineEndsAre
  <2>3. QED
    BY <2>1, <2>2, LinesKept
<1>4. ASSUME NEW i \in {n - 1, n}
      PROVE  /\ ~(i - 2 \in LineEnds(w) /\ i + 1 \in LineEnds(w))
             /\ ~(i - 2 \in LineEnds(s) /\ i + 1 \in LineEnds(s))
  <2>1. CASE i = n
    <3>1. i - 2 \in LineEnds(w) => w[(i - 2) + 1] = "LF"
      BY LineEndsAre
    <3>2. i - 2 \in LineEnds(s) => s[(i - 2) + 1] = "LF"
      BY LineEndsAre
    <3>3. (i - 2) + 1 = n - 1
      BY <2>1
    <3>4. QED
      BY <1>1, <1>2, <3>1, <3>2, <3>3
  <2>2. CASE i = n - 1
    <3>1. i + 1 \in LineEnds(w) => w[i + 1] = "CR"
      BY LineEndsAre
    <3>2. i + 1 \in LineEnds(s) => s[i + 1] = "CR"
      BY LineEndsAre
    <3>3. i + 1 = n
      BY <2>2
    <3>4. QED
      BY <1>1, <1>2, <3>1, <3>2, <3>3
  <2>3. QED
    BY <2>1, <2>2
<1>5. \A i \in 1..n : i \in 1..n - 2 \/ i \in {n - 1, n}
  OBVIOUS
<1>6. \A i \in 1..n : i \in Headers(w, n) <=> i \in Headers(s, n)
  BY <1>3, <1>4, <1>5 DEF Headers
<1>7. \A i \in 1..n - 1 : i \in Headers(s, n - 1) <=> i \in Headers(s, n)
  BY <1>1 DEF Headers
<1>8. n \notin Headers(s, n)
  BY <1>4 DEF Headers
<1>9. Headers(w, n) \subseteq 1..n /\ Headers(s, n) \subseteq 1..n /\ Headers(s, n - 1) \subseteq 1..n - 1
  BY DEF Headers
<1>10. \A i \in 1..n : i = n \/ i \in 1..n - 1
  OBVIOUS
<1>11. Headers(w, n) = Headers(s, n)
  BY <1>6, <1>9
<1>12. Headers(s, n - 1) = Headers(s, n)
  <2>1. ASSUME NEW i \in Headers(s, n) PROVE i \in Headers(s, n - 1)
    BY <1>7, <1>8, <1>9, <1>10, <2>1
  <2>2. ASSUME NEW i \in Headers(s, n - 1) PROVE i \in Headers(s, n)
    BY <1>7, <1>9, <2>2
  <2>3. QED
    BY <2>1, <2>2
<1>13. QED
  BY <1>11, <1>12

\* What headers say is the same where the headers are the same.
LEMMA SameHeaders ==
    ASSUME NEW s \in Symbols, NEW w \in Symbols, NEW m \in Int, NEW n \in Int,
           Headers(w, m) = Headers(s, n), m <= n, n <= Len(s), Starts(s, w)
    PROVE  BodyLength(w, m) = BodyLength(s, n) /\ (Wished(w, m) <=> Wished(s, n))
<1>1. \A i \in Headers(s, n) : w[i] = s[i]
  <2>1. \A i \in Headers(s, n) : i \in 1..Len(s)
    BY DEF Headers, Symbols
  <2>2. QED
    BY <2>1 DEF Starts
<1>2. Lengths(w, m) = Lengths(s, n)
  BY <1>1 DEF Lengths
<1>3. BodyLength(w, m) = BodyLength(s, n)
  <2>1. CASE Lengths(s, n) = {}
    BY <1>2, <2>1 DEF BodyLength
  <2>2. CASE Lengths(s, n) # {}
    <3>1. Max(Lengths(s, n)) \in Headers(s, n)
      <4>1. Lengths(s, n) \subseteq Headers(s, n)
        BY DEF Lengths
      <4>2. n \in Nat /\ Lengths(s, n) \in SUBSET Nat /\ \A i \in Lengths(s, n) : i <= n
        BY <2>2 DEF Lengths, Headers
      <4>3. Max(Lengths(s, n)) \in Lengths(s, n)
        BY <2>2, <4>2, MaxExists
      <4>4. QED
        BY <4>1, <4>3
    <3>2. w[Max(Lengths(s, n))] = s[Max(Lengths(s, n))]
      BY <1>1, <3>1
    <3>3. QED
      BY <1>2, <2>2, <3>2 DEF BodyLength
  <2>3. QED
    BY <2>1, <2>2
<1>4. Wished(w, m) <=> Wished(s, n)
  BY <1>1 DEF Wished
<1>5. QED
  BY <1>3, <1>4

\* What has been parsed of a header stays parsed when more arrives.
LEMMA BegunKept ==
    ASSUME NEW s \in Symbols, NEW w \in Symbols, Starts(s, w), NEW n \in Int, Begun(s, n)
    PROVE  /\ Begun(w, n) /\ Asked(w) = Asked(s)
           /\ BodyLength(w, n) = BodyLength(s, n) /\ (Wished(w, n) <=> Wished(s, n))
<1>1. /\ n - 1 \in LineEnds(s) /\ CleanTo(s, n) /\ IsRequest(FirstLine(s))
      /\ \A i \in BlankLines(s) : i + 3 > n
  BY DEF Begun
<1>2. /\ Len(s) \in Nat /\ Len(w) \in Nat /\ n - 1 \in 1..Len(s) - 1 /\ s[n - 1] = "CR" /\ s[n] = "LF"
  BY <1>1, LineEndsAre
<1>3. FirstLine(w) = FirstLine(s)
  BY <1>1, FirstLineKept
<1>4. n - 1 \in LineEnds(w)
  BY <1>1, <1>2, LinesKept
<1>5. CleanTo(w, n)
  <2> SUFFICES ASSUME NEW i \in 1..n PROVE ~Stray(w, i)
    BY DEF CleanTo
  <2>1. ~Stray(s, i)
    BY <1>1 DEF CleanTo
  <2>2. CASE i < Len(s)
    BY <1>2, <2>1, <2>2, LinesKept
  <2>3. CASE i = Len(s)
    <3>1. i = n /\ Len(s) > 0
      BY <1>2, <2>3
    <3>2. QED
      BY <1>2, <2>1, <2>3, <3>1, LinesKept
  <2>4. QED
    BY <1>2, <2>2, <2>3
<1>6. \A i \in BlankLines(w) : i + 3 > n
  <2> SUFFICES ASSUME NEW i \in BlankLines(w), i + 3 <= n PROVE FALSE
    BY <1>2, LineEndsAre
  <2>1. i \in 1..Len(s) - 3
    BY <1>2, LineEndsAre
  <2>2. i \in BlankLines(s)
    BY <2>1, LinesKept
  <2>3. QED
    BY <1>1, <1>2, <2>1, <2>2
<1>7. Headers(w, n) = Headers(s, n)
  BY <1>1, HeadersKept
<1>8. BodyLength(w, n) = BodyLength(s, n) /\ (Wished(w, n) <=> Wished(s, n))
  BY <1>2, <1>7, SameHeaders
<1>9. QED
  BY <1>1, <1>3, <1>4, <1>5, <1>6, <1>8 DEF Begun, Asked

\* Nor does more input change a header that is complete.
LEMMA HeadedKept ==
    ASSUME NEW s \in Symbols, NEW w \in Symbols, Starts(s, w), Headed(s)
    PROVE  /\ Headed(w) /\ HeadLength(w) = HeadLength(s) /\ Asked(w) = Asked(s)
           /\ BodyLength(w, HeadLength(w) - 3) = BodyLength(s, HeadLength(s) - 3)
           /\ StaysOpen(w) <=> StaysOpen(s)
<1> DEFINE b == Min(BlankLines(s))
<1>1. b \in BlankLines(s) /\ \A k \in BlankLines(s) : b <= k
  BY LineEndsAre, MinExists DEF Headed
<1>2. CleanTo(s, b) /\ IsRequest(FirstLine(s)) /\ HeadLength(s) = b + 3
  BY DEF Headed, HeadLength
<1> HIDE DEF b
<1>3. /\ Len(s) \in Nat /\ Len(w) \in Nat /\ b \in 1..Len(s) - 3
      /\ b \in LineEnds(s) /\ b + 2 \in LineEnds(s)
  BY <1>1, LineEndsAre
<1>4. b \in BlankLines(w)
  BY <1>1, <1>3, LinesKept
<1>5. \A k \in BlankLines(w) : b <= k
  <2> SUFFICES ASSUME NEW k \in BlankLines(w), k < b PROVE FALSE
    BY <1>3, LineEndsAre
  <2>1. k \in 1..Len(s) - 3
    BY <1>3, LineEndsAre
  <2>2. k \in BlankLines(s)
    BY <2>1, LinesKept
  <2>3. QED
    BY <1>1, <1>3, <2>1, <2>2
<1>6. Min(BlankLines(w)) = b /\ HeadLength(w) = b + 3
  <2>1. BlankLines(w) \in SUBSET Int
    BY LineEndsAre
  <2>2. QED
    BY <1>4, <1>5, <2>1, MinIs DEF HeadLength
<1>7. CleanTo(w, b)
  <2> SUFFICES ASSUME NEW i \in 1..b PROVE ~Stray(w, i)
    BY DEF CleanTo
  <2>1. ~Stray(s, i) /\ i \in 1..Len(s) - 1
    BY <1>2, <1>3 DEF CleanTo
  <2>2. QED
    BY <2>1, LinesKept
<1>8. FirstLine(w) = FirstLine(s)
  <2>1. LineEnds(s) # {}
    BY <1>3
  <2>2. QED
    BY <2>1, FirstLineKept
<1>9. Headers(w, b) = Headers(s, b)
  <2>1. (b + 1) - 1 = b /\ b + 1 \in Int
    BY <1>3
  <2>2. /\ Headers(s, (b + 1) - 1) = Headers(s, b + 1)
        /\ Headers(w, b + 1) = Headers(s, b + 1)
    BY <1>3, <2>1, HeadersKept
  <2>3. Starts(w, w) /\ b \in LineEnds(w)
    BY <1>4, LineEndsAre DEF Starts
  <2>4. Headers(w, (b + 1) - 1) = Headers(w, b + 1)
    BY <2>1, <2>3, HeadersKept
  <2>5. QED
    BY <2>1, <2>2, <2>4
<1>10. BodyLength(w, b) = BodyLength(s, b) /\ (Wished(w, b) <=> Wished(s, b))
  BY <1>3, <1>9, SameHeaders
<1>11. StaysOpen(w) <=> StaysOpen(s)
  BY <1>2, <1>6, <1>8, <1>10 DEF StaysOpen, Wished, b
<1>12. HeadLength(w) - 3 = b /\ HeadLength(s) - 3 = b
  BY <1>2, <1>3, <1>6
<1>13. Headed(w)
  BY <1>2, <1>4, <1>6, <1>7, <1>8 DEF Headed
<1>14. QED
  BY <1>2, <1>6, <1>8, <1>10, <1>11, <1>12, <1>13 DEF Asked

-------------------------------------------------------------------------------
(* What a line adds *)

\* The text of a line of s from n + 1 up to before its end at e.
Text(s, n, e) == SubSeq(s, n + 1, e - 1)
LineAt(s, n, e) ==
    e \in n + 1..Len(s) - 1 /\ Even(s, n + 1, e - 1) /\ s[e] = "CR" /\ s[e + 1] = "LF"

\* A line of a sequence is as long as it has symbols, and they are those of the sequence.
LEMMA TextIs ==
    ASSUME NEW s \in Symbols, NEW n \in Nat, NEW e \in Nat, LineAt(s, n, e)
    PROVE  /\ e \in n + 1..Len(s) - 1 /\ Len(s) \in Nat
           /\ Text(s, n, e) \in Symbols /\ Len(Text(s, n, e)) = e - 1 - n
           /\ \A i \in 1..e - 1 - n : Text(s, n, e)[i] = s[n + i]
<1>1. Len(s) \in Nat /\ e \in n + 1..Len(s) - 1
  BY DEF Symbols, LineAt
<1>2. QED
  BY <1>1 DEF Text, Symbols

\* The first line that ends is the first line.
LEMMA FirstLineFound ==
    ASSUME NEW s \in Symbols, NEW e \in Nat, LineAt(s, 0, e)
    PROVE  /\ LineEnds(s) # {} /\ Min(LineEnds(s)) = e /\ CleanTo(s, e)
           /\ FirstLine(s) = Text(s, 0, e)
<1>1. /\ Len(s) \in Nat /\ e \in 1..Len(s) - 1 /\ s[e] = "CR" /\ s[e + 1] = "LF"
      /\ \A k \in 1..e - 1 : s[k] \notin {"CR", "LF"}
  BY DEF LineAt, Even, Symbols
<1>2. e \in LineEnds(s)
  BY <1>1, LineEndsAre
<1>3. \A k \in LineEnds(s) : e <= k
  <2> SUFFICES ASSUME NEW k \in LineEnds(s), k < e PROVE FALSE
    BY <1>1, LineEndsAre
  <2>1. k \in 1..e - 1 /\ s[k] = "CR"
    BY <1>1, LineEndsAre
  <2>2. QED
    BY <1>1, <2>1
<1>4. LineEnds(s) \in SUBSET Int
  BY LineEndsAre
<1>5. Min(LineEnds(s)) = e
  BY <1>2, <1>3, <1>4, MinIs
<1>6. CleanTo(s, e)
  <2> SUFFICES ASSUME NEW k \in 1..e PROVE ~Stray(s, k)
    BY DEF CleanTo
  <2>1. CASE k = e
    BY <1>1, <2>1 DEF Stray
  <2>2. CASE k # e
    <3>1. k \in 1..e - 1
      BY <1>1, <2>2
    <3>2. QED
      BY <1>1, <3>1 DEF Stray
  <2>3. QED
    BY <2>1, <2>2
<1>7. QED
  BY <1>2, <1>5, <1>6 DEF FirstLine, Text

\* After a request line the headers begin, none of which was seen.
LEMMA FirstLineBegins ==
    ASSUME NEW s \in Symbols, NEW e \in Nat, LineAt(s, 0, e), IsRequest(Text(s, 0, e))
    PROVE  /\ Begun(s, e + 1) /\ Asked(s) = CHOOSE p \in Paths : Text(s, 0, e) \in Forms(p)
           /\ BodyLength(s, e + 1) = 0 /\ ~Wished(s, e + 1)
<1>1. /\ Len(s) \in Nat /\ e \in 1..Len(s) - 1 /\ s[e] = "CR" /\ s[e + 1] = "LF"
      /\ \A k \in 1..e - 1 : s[k] \notin {"CR", "LF"}
  BY DEF LineAt, Even, Symbols
<1>2. /\ CleanTo(s, e) /\ FirstLine(s) = Text(s, 0, e)
  BY FirstLineFound
<1>3. \A k \in LineEnds(s) : e <= k
  <2> SUFFICES ASSUME NEW k \in LineEnds(s), k < e PROVE FALSE
    BY <1>1, LineEndsAre
  <2>1. k \in 1..e - 1 /\ s[k] = "CR"
    BY <1>1, LineEndsAre
  <2>2. QED
    BY <1>1, <2>1
<1>4. e \in LineEnds(s) /\ (e + 1) - 1 = e
  BY <1>1, LineEndsAre
<1>5. CleanTo(s, e + 1)
  <2> SUFFICES ASSUME NEW k \in 1..e + 1 PROVE ~Stray(s, k)
    BY DEF CleanTo
  <2>1. CASE k = e + 1
    <3>1. k # 1 /\ k - 1 = e /\ s[k] = "LF"
      BY <1>1, <2>1
    <3>2. s[k - 1] = "CR"
      BY <1>1, <3>1
    <3>3. QED
      BY <3>1, <3>2 DEF Stray
  <2>2. CASE k # e + 1
    <3>1. k \in 1..e
      BY <1>1, <2>2
    <3>2. QED
      BY <1>2, <3>1 DEF CleanTo
  <2>3. QED
    BY <2>1, <2>2
<1>6. \A i \in BlankLines(s) : i + 3 > e + 1
  <2> SUFFICES ASSUME NEW i \in BlankLines(s) PROVE i + 3 > e + 1
    OBVIOUS
  <2>1. i \in Nat /\ e <= i
    BY <1>3, LineEndsAre
  <2>2. QED
    BY <1>1, <2>1
<1>7. Headers(s, e + 1) = {}
  <2> SUFFICES ASSUME NEW i \in 1..e + 1, i - 2 \in LineEnds(s) PROVE FALSE
    BY DEF Headers
  <2>1. e <= i - 2
    BY <1>3
  <2>2. QED
    BY <1>1, <2>1
<1>8. Lengths(s, e + 1) = {}
  BY <1>7 DEF Lengths
<1>9. Begun(s, e + 1)
  BY <1>2, <1>4, <1>5, <1>6 DEF Begun
<1>10. QED
  BY <1>2, <1>7, <1>8, <1>9 DEF Asked, BodyLength, Wished

\* A line that is not empty makes one header more if it is one symbol.
LEMMA HeaderFound ==
    ASSUME NEW s \in Symbols, NEW n \in Nat, Begun(s, n), NEW e \in Nat, LineAt(s, n, e), e # n + 1
    PROVE  /\ Begun(s, e + 1)
           /\ Headers(s, e + 1) = IF e = n + 2 THEN Headers(s, n) \union {n + 1} ELSE Headers(s, n)
<1>1. /\ Len(s) \in Nat /\ e \in n + 2..Len(s) - 1 /\ s[e] = "CR" /\ s[e + 1] = "LF"
      /\ \A k \in n + 1..e - 1 : s[k] \notin {"CR", "LF"}
  BY DEF LineAt, Even, Symbols
<1>2. /\ n - 1 \in LineEnds(s) /\ CleanTo(s, n) /\ IsRequest(FirstLine(s))
      /\ \A i \in BlankLines(s) : i + 3 > n
  BY DEF Begun
<1>3. n - 1 \in 1..Len(s) - 1 /\ s[n - 1] = "CR" /\ s[n] = "LF"
  BY <1>2, LineEndsAre
<1>4. e \in LineEnds(s) /\ (e + 1) - 1 = e
  BY <1>1, LineEndsAre
<1>5. \A k \in LineEnds(s) : k <= n - 1 \/ k >= e
  <2> SUFFICES ASSUME NEW k \in LineEnds(s), k > n - 1, k < e PROVE FALSE
    BY <1>1, <1>3, LineEndsAre
  <2>1. k \in Nat /\ s[k] = "CR"
    BY LineEndsAre
  <2>2. k = n \/ k \in n + 1..e - 1
    BY <1>1, <2>1
  <2>3. QED
    BY <1>1, <1>3, <2>1, <2>2
<1>6. CleanTo(s, e + 1)
  <2> SUFFICES ASSUME NEW k \in 1..e + 1 PROVE ~Stray(s, k)
    BY DEF CleanTo
  <2>1. CASE k \in 1..n
    BY <1>2, <2>1 DEF CleanTo
  <2>2. CASE k \in n + 1..e - 1
    BY <1>1, <2>2 DEF Stray
  <2>3. CASE k = e
    BY <1>1, <2>3 DEF Stray
  <2>4. CASE k = e + 1
    <3>1. k # 1 /\ k - 1 = e /\ s[k] = "LF"
      BY <1>1, <2>4
    <3>2. s[k - 1] = "CR"
      BY <1>1, <3>1
    <3>3. QED
      BY <3>1, <3>2 DEF Stray
  <2>5. QED
    BY <1>1, <2>1, <2>2, <2>3, <2>4
<1>7. \A i \in BlankLines(s) : i + 3 > e + 1
  <2> SUFFICES ASSUME NEW i \in BlankLines(s), i + 3 <= e + 1 PROVE FALSE
    BY <1>1, LineEndsAre
  <2>1. i \in Nat /\ i \in LineEnds(s) /\ i + 2 \in LineEnds(s) /\ i + 3 > n
    BY <1>2, LineEndsAre
  <2>2. i <= n - 1 /\ (i + 2 <= n - 1 \/ i + 2 >= e)
    BY <1>1, <1>5, <2>1
  <2>3. QED
    BY <1>1, <2>1, <2>2
<1>8. \A i \in Headers(s, e + 1) : i \in Headers(s, n) \/ (e = n + 2 /\ i = n + 1)
  <2> SUFFICES ASSUME NEW i \in 1..e + 1, i - 2 \in LineEnds(s), i + 1 \in LineEnds(s), i \notin 1..n
               PROVE  e = n + 2 /\ i = n + 1
    BY DEF Headers
  <2>1. (i - 2 <= n - 1 \/ i - 2 >= e) /\ (i + 1 <= n - 1 \/ i + 1 >= e)
    BY <1>5
  <2>2. QED
    BY <1>1, <2>1
<1>9. \A i \in Headers(s, n) : i \in Headers(s, e + 1)
  BY <1>1 DEF Headers
<1>10. ASSUME e = n + 2 PROVE n + 1 \in Headers(s, e + 1)
  <2>1. (n + 1) - 2 = n - 1 /\ (n + 1) + 1 = e /\ n + 1 \in 1..e + 1
    BY <1>1, <1>10
  <2>2. QED
    BY <1>2, <1>4, <2>1 DEF Headers
<1>11. Headers(s, e + 1) = IF e = n + 2 THEN Headers(s, n) \union {n + 1} ELSE Headers(s, n)
  BY <1>8, <1>9, <1>10
<1>12. Begun(s, e + 1)
  BY <1>2, <1>4, <1>6, <1>7 DEF Begun
<1>13. QED
  BY <1>11, <1>12

\* The header that a line makes is the last of those that give a length, and one more that
\* may ask to stay connected.
LEMMA HeaderRead ==
    ASSUME NEW s \in Symbols, NEW n \in Nat, Begun(s, n), NEW e \in Nat, LineAt(s, n, e), e # n + 1
    PROVE  /\ BodyLength(s, e + 1) = IF Text(s, n, e) \in {<<h>> : h \in DOMAIN LengthOf}
                                        THEN LengthOf[Head(Text(s, n, e))] ELSE BodyLength(s, n)
           /\ Wished(s, e + 1) <=> Wished(s, n) \/ Text(s, n, e) = <<KeepAlive>>
<1> DEFINE text == Text(s, n, e)
           H == Headers(s, n)
           x == s[n + 1]
<1>1. /\ e \in n + 1..Len(s) - 1 /\ Len(s) \in Nat /\ text \in Symbols /\ Len(text) = e - 1 - n
      /\ \A i \in 1..e - 1 - n : text[i] = s[n + i]
  BY TextIs
<1>2. Headers(s, e + 1) = IF e = n + 2 THEN H \union {n + 1} ELSE H
  BY HeaderFound
<1>3. Starts(s, s)
  BY DEF Starts
<1>4. CASE e # n + 2
  <2>1. \A h : text # <<h>>
    <3>1. Len(text) # 1
      BY <1>1, <1>4
    <3> HIDE DEF text
    <3>2. QED
      BY <3>1
  <2>2. BodyLength(s, n) = BodyLength(s, e + 1) /\ (Wished(s, n) <=> Wished(s, e + 1))
    <3>1. Headers(s, n) = Headers(s, e + 1) /\ n <= e + 1 /\ e + 1 <= Len(s) /\ e + 1 \in Int /\ n \in Int
      BY <1>1, <1>2, <1>4
    <3>2. QED
      BY <1>3, <3>1, SameHeaders
  <2>3. QED
    BY <2>1, <2>2
<1>5. CASE e = n + 2
  <2>1. text = <<x>>
    <3>1. Len(text) = 1 /\ text[1] = x
      BY <1>1, <1>5
    <3> HIDE DEF text, x
    <3>2. QED
      BY <1>1, <3>1 DEF Symbols
  <2> HIDE DEF text
  <2>2. Headers(s, e + 1) = H \union {n + 1}
    BY <1>2, <1>5
  <2>3. Wished(s, e + 1) <=> Wished(s, n) \/ x = KeepAlive
    BY <2>2 DEF Wished
  <2>4. CASE x \in DOMAIN LengthOf
    <3> DEFINE L == Lengths(s, e + 1)
    <3>1. L = Lengths(s, n) \union {n + 1}
      BY <2>2, <2>4 DEF Lengths
    <3>2. Lengths(s, n) \subseteq 1..n
      BY DEF Lengths, Headers
    <3>3. n + 1 \in L /\ L \in SUBSET Int /\ \A k \in L : k <= n + 1
      BY <3>1, <3>2
    <3> HIDE DEF L
    <3>4. Max(L) = n + 1 /\ L # {}
      BY <3>3, MaxIs
    <3>5. BodyLength(s, e + 1) = LengthOf[x]
      BY <3>4 DEF BodyLength, L
    <3>6. text \in {<<h>> : h \in DOMAIN LengthOf} /\ Head(text) = x
      BY <2>1, <2>4
    <3>7. QED
      BY <2>1, <2>3, <3>5, <3>6 DEF text
  <2>5. CASE x \notin DOMAIN LengthOf
    <3>1. Lengths(s, e + 1) = Lengths(s, n)
      BY <2>2, <2>5 DEF Lengths
    <3>2. BodyLength(s, e + 1) = BodyLength(s, n)
      BY <3>1 DEF BodyLength
    <3>3. text \notin {<<h>> : h \in DOMAIN LengthOf}
      <4> SUFFICES ASSUME NEW h \in DOMAIN LengthOf, text = <<h>> PROVE FALSE
        OBVIOUS
      <4>1. h = x
        BY <2>1
      <4>2. QED
        BY <2>5, <4>1
    <3>4. QED
      BY <2>1, <2>3, <3>2, <3>3 DEF text
  <2>6. QED
    BY <2>4, <2>5
<1>6. QED
  BY <1>4, <1>5

\* The empty line ends the header.
LEMMA HeaderEnds ==
    ASSUME NEW s \in Symbols, NEW n \in Nat, Begun(s, n), LineAt(s, n, n + 1)
    PROVE  /\ Headed(s) /\ HeadLength(s) = n + 2
           /\ BodyLength(s, HeadLength(s) - 3) = BodyLength(s, n)
           /\ StaysOpen(s) <=> Wished(s, n)
<1>1. /\ Len(s) \in Nat /\ n + 1 \in 1..Len(s) - 1 /\ s[n + 1] = "CR" /\ s[(n + 1) + 1] = "LF"
  BY DEF LineAt, Symbols
<1>2. /\ n - 1 \in LineEnds(s) /\ CleanTo(s, n) /\ IsRequest(FirstLine(s))
      /\ \A i \in BlankLines(s) : i + 3 > n
  BY DEF Begun
<1>3. n - 1 \in 1..Len(s) - 1 /\ s[n - 1] = "CR" /\ s[n] = "LF"
  BY <1>2, LineEndsAre
<1>4. n + 1 \in LineEnds(s) /\ n - 1 \in BlankLines(s)
  <2>1. n + 1 \in LineEnds(s) /\ (n - 1) + 2 = n + 1
    BY <1>1, LineEndsAre
  <2>2. QED
    BY <1>2, <2>1, LineEndsAre
<1>5. \A k \in BlankLines(s) : n - 1 <= k
  <2> SUFFICES ASSUME NEW k \in BlankLines(s), k < n - 1 PROVE FALSE
    BY <1>3, LineEndsAre
  <2>1. k \in Nat /\ k + 3 > n /\ k + 2 \in LineEnds(s)
    BY <1>2, LineEndsAre
  <2>2. k + 2 = n
    BY <2>1
  <2>3. s[n] = "CR"
    BY <2>1, <2>2, LineEndsAre
  <2>4. QED
    BY <1>3, <2>3
<1>6. Min(BlankLines(s)) = n - 1
  <2>1. BlankLines(s) \in SUBSET Int
    BY LineEndsAre
  <2>2. QED
    BY <1>4, <1>5, <2>1, MinIs
<1>7. CleanTo(s, n - 1)
  BY <1>2 DEF CleanTo
<1>8. Headed(s) /\ HeadLength(s) = n + 2 /\ HeadLength(s) - 3 = n - 1
  BY <1>2, <1>4, <1>6, <1>7 DEF Headed, HeadLength
<1>9. Headers(s, n - 1) = Headers(s, n) /\ Starts(s, s)
  <2>1. Starts(s, s)
    BY DEF Starts
  <2>2. QED
    BY <1>2, <2>1, HeadersKept
<1>10. BodyLength(s, n - 1) = BodyLength(s, n) /\ (Wished(s, n - 1) <=> Wished(s, n))
  <2>1. n - 1 <= n /\ n <= Len(s) /\ n - 1 \in Int /\ n \in Int
    BY <1>1
  <2>2. QED
    BY <1>9, <2>1, SameHeaders
<1>11. QED
  BY <1>2, <1>6, <1>8, <1>10 DEF StaysOpen, Wished

-------------------------------------------------------------------------------
(* The verdict *)

\* What is answered when the header is there.
LEMMA VerdictHeaded ==
    ASSUME NEW s \in Symbols, Headed(s)
    PROVE  /\ HeadLength(s) \in 4..Len(s)
           /\ Verdict(s) = IF Len(s) - HeadLength(s) >= BodyLength(s, HeadLength(s) - 3)
                              THEN Answer(Asked(s)) ELSE "NO_REQUEST"
<1> DEFINE b == Min(BlankLines(s))
           e == Min(LineEnds(s))
<1>1. b \in BlankLines(s)
  BY LineEndsAre, MinExists DEF Headed
<1>2. CleanTo(s, b) /\ IsRequest(FirstLine(s)) /\ HeadLength(s) = b + 3
  BY DEF Headed, HeadLength
<1>3. b \in LineEnds(s) /\ b + 2 \in LineEnds(s)
  BY <1>1, LineEndsAre
<1>4. e \in LineEnds(s) /\ e <= b /\ LineEnds(s) # {}
  BY <1>3, LineEndsAre, MinExists
<1>5. b \in Nat /\ e \in Nat
  BY <1>3, <1>4, LineEndsAre
<1>6. CleanTo(s, e)
  <2> HIDE DEF e, b
  <2>1. QED
    BY <1>2, <1>4, <1>5 DEF CleanTo
<1>7. Complete(s) <=> Len(s) - (b + 3) >= BodyLength(s, b)
  BY <1>1, <1>2 DEF Complete
<1>8. HeadLength(s) - 3 = b /\ HeadLength(s) = b + 3
  <2> HIDE DEF b
  <2>1. QED
    BY <1>2, <1>5
<1>9. HeadLength(s) \in 4..Len(s)
  <2>1. b \in 1..Len(s) - 1 /\ b + 2 \in 1..Len(s) - 1 /\ Len(s) \in Nat
    BY <1>3, LineEndsAre
  <2> HIDE DEF b
  <2>2. QED
    BY <1>8, <2>1
<1>10. QED
  BY <1>2, <1>4, <1>6, <1>7, <1>8, <1>9 DEF Verdict, Asked

\* A first line that is no request line is answered at once, whatever follows it.
LEMMA VerdictBad ==
    ASSUME NEW s \in Symbols, NEW e \in Nat, LineAt(s, 0, e), ~IsRequest(Text(s, 0, e))
    PROVE  Verdict(s) = "BAD_REQUEST" /\ ~StaysOpen(s)
<1>1. QED
  BY FirstLineFound DEF Verdict, StaysOpen

\* Where the parser stops there is no end of a line, or something that is none.
Stuck(s, n) ==
    \/ n = Len(s)
    \/ n + 1 = Len(s) /\ s[n + 1] = "CR"
    \/ n < Len(s) /\ Stray(s, n + 1)

\* There is no end of a line before the place where the parser is stuck, and what comes
\* after a stray symbol does not count.
LEMMA StuckAt ==
    ASSUME NEW s \in Symbols, NEW m \in Nat, NEW n \in Nat, m <= n, n <= Len(s),
           Even(s, m + 1, n), Stuck(s, n),
           NEW i \in LineEnds(s), i > m, NEW k \in Nat, i <= k
    PROVE  ~CleanTo(s, k)
<1>1. i \in 1..Len(s) - 1 /\ s[i] = "CR" /\ s[i + 1] = "LF" /\ Len(s) \in Nat
  BY LineEndsAre
<1>2. i > n
  <2> SUFFICES ASSUME i <= n PROVE FALSE
    BY <1>1
  <2>1. i \in m + 1..n
    BY <1>1
  <2>2. QED
    BY <1>1, <2>1 DEF Even
<1>3. n < Len(s) /\ Stray(s, n + 1)
  BY <1>1, <1>2 DEF Stuck
<1>4. n + 1 \in 1..k
  BY <1>1, <1>2
<1>5. QED
  BY <1>3, <1>4 DEF CleanTo

\* Stuck in the first line or in a header the parser has no answer, and there is none.
LEMMA NoVerdict ==
    ASSUME NEW s \in Symbols, NEW m \in Nat, NEW n \in Nat, m <= n, n <= Len(s),
           Even(s, m + 1, n), Stuck(s, n), m = 0 \/ Begun(s, m)
    PROVE  Verdict(s) = "NO_REQUEST"
<1>1. CASE m = 0
  <2> SUFFICES ASSUME LineEnds(s) # {} PROVE ~CleanTo(s, Min(LineEnds(s)))
    BY DEF Verdict
  <2>1. Min(LineEnds(s)) \in LineEnds(s)
    BY LineEndsAre, MinExists
  <2>2. Min(LineEnds(s)) > m /\ Min(LineEnds(s)) \in Nat /\ Min(LineEnds(s)) <= Min(LineEnds(s))
    BY <1>1, <2>1, LineEndsAre
  <2>3. QED
    BY <2>1, <2>2, StuckAt
<1>2. CASE Begun(s, m)
  <2> DEFINE b == Min(BlankLines(s))
  <2>1. SUFFICES ASSUME BlankLines(s) # {}, CleanTo(s, b) PROVE FALSE
    BY <1>2 DEF Begun, Verdict, Complete
  <2>2. b \in BlankLines(s)
    BY <2>1, LineEndsAre, MinExists
  <2>3. b + 3 > m /\ b \in Nat /\ b \in LineEnds(s) /\ b + 2 \in LineEnds(s)
    BY <1>2, <2>2, LineEndsAre DEF Begun
  <2> HIDE DEF b
  <2>4. m - 1 \in 1..Len(s) - 1 /\ s[m - 1] = "CR" /\ s[m] = "LF" /\ Len(s) \in Nat
    BY <1>2, LineEndsAre DEF Begun
  <2>5. CleanTo(s, b + 2)
    <3>1. s[b] = "CR" /\ s[b + 1] = "LF" /\ s[b + 2] = "CR" /\ s[(b + 2) + 1] = "LF"
      BY <2>3, LineEndsAre
    <3> SUFFICES ASSUME NEW k \in 1..b + 2, Stray(s, k) PROVE FALSE
      BY DEF CleanTo
    <3>2. k \notin 1..b
      BY <2>1 DEF CleanTo
    <3>3. k = b + 1 \/ k = b + 2
      BY <2>3, <3>2
    <3>4. CASE k = b + 1
      <4>1. k # 1 /\ k - 1 = b /\ s[k] = "LF" /\ s[k - 1] = "CR"
        BY <2>3, <3>1, <3>4, LineEndsAre
      <4>2. QED
        BY <4>1 DEF Stray
    <3>5. CASE k = b + 2
      BY <3>1, <3>5 DEF Stray
    <3>6. QED
      BY <3>3, <3>4, <3>5
  <2>6. b + 2 > m
    <3>1. s[b + 2] = "CR"
      BY <2>3, LineEndsAre
    <3>2. b + 2 # m
      BY <2>4, <3>1
    <3>3. QED
      BY <2>3, <2>4, <3>2
  <2>7. b + 2 \in Nat /\ b + 2 <= b + 2
    BY <2>3
  <2>8. QED
    BY <2>3, <2>5, <2>6, <2>7, StuckAt
<1>3. QED
  BY <1>1, <1>2

-------------------------------------------------------------------------------
(* The request line *)

\* A set with two numbers has more than one element.
LEMMA TwoElements ==
    ASSUME NEW a, NEW b, a # b
    PROVE  Cardinality({a, b}) > 1
<1>1. IsFiniteSet({a}) /\ Cardinality({a}) = 1
  BY FS_Singleton
<1>2. Cardinality({a} \union {b}) = IF b \in {a} THEN 1 ELSE 1 + 1
  BY <1>1, FS_AddElement
<1>3. {a, b} = {a} \union {b} /\ b \notin {a}
  OBVIOUS
<1>4. QED
  BY <1>2, <1>3

\* Pieces of a sequence that have one symbol or two.
LEMMA Pieces ==
    ASSUME NEW S, NEW s \in Seq(S), NEW i \in Nat, i >= 1, NEW j \in Nat, j <= Len(s)
    PROVE  /\ j = i => SubSeq(s, i, j) = <<s[i]>>
           /\ j = i + 1 => SubSeq(s, i, j) = <<s[i], s[j]>>
<1>1. ASSUME j = i PROVE SubSeq(s, i, j) = <<s[i]>>
  <2> DEFINE r == SubSeq(s, i, j)
             x == s[i]
  <2>1. r \in Seq(S) /\ Len(r) = 1 /\ r[1] = x
    BY <1>1
  <2> HIDE DEF r, x
  <2>2. r = <<x>>
    BY <2>1
  <2>3. QED
    BY <2>2 DEF r, x
<1>2. ASSUME j = i + 1 PROVE SubSeq(s, i, j) = <<s[i], s[j]>>
  <2> DEFINE r == SubSeq(s, i, j)
             x == s[i]
             y == s[j]
  <2>1. r \in Seq(S) /\ Len(r) = 2 /\ r[1] = x /\ r[2] = y
    BY <1>2
  <2> HIDE DEF r, x, y
  <2>2. r = <<x, y>>
    BY <2>1
  <2>3. QED
    BY <2>2 DEF r, x, y
<1>3. QED
  BY <1>1, <1>2

\* The parts of a request line, cut at its blanks.
LEMMA FormParts ==
    ASSUME NEW p \in Paths, NEW text, text \in Forms(p)
    PROVE  IsGet(text) /\ UrlPart(text) = <<p>>
<1>1. p # "sp" /\ p # "http://"
  BY PathsAssumption
<1>2. ASSUME NEW S, text \in Seq(S), NEW g \in {4, 5}, Len(text) = g + 1, Blanks(text) = {2, g},
             text[1] = "GET", text[g + 1] = "HTTP/1.1",
             (g = 4 /\ text[3] = p) \/ (g = 5 /\ text[3] = "http://" /\ text[4] = p)
      PROVE  IsGet(text) /\ UrlPart(text) = <<p>>
  <2>1. FirstBlank(text) = 2
    <3>1. {2, g} \in SUBSET Int /\ 2 \in {2, g} /\ \A k \in {2, g} : 2 <= k
      OBVIOUS
    <3>2. Min({2, g}) = 2
      BY <3>1, MinIs
    <3>3. QED
      BY <1>2, <3>2 DEF FirstBlank
  <2>2. SecondBlank(text) = g
    <3>1. {2, g} \ {2} = {g}
      OBVIOUS
    <3>2. {g} \in SUBSET Int /\ g \in {g} /\ \A k \in {g} : g <= k
      OBVIOUS
    <3>3. Min({g}) = g
      BY <3>2, MinIs
    <3>4. QED
      BY <1>2, <2>1, <3>1, <3>3 DEF SecondBlank
  <2>3. Cardinality(Blanks(text)) > 1
    <3>1. 2 # g
      OBVIOUS
    <3>2. Cardinality({2, g}) > 1
      BY <3>1, TwoElements
    <3>3. QED
      BY <1>2, <3>2
  <2>4. UrlPart(text) = <<p>>
    <3>1. SubSeq(text, FirstBlank(text) + 1, SecondBlank(text) - 1) = SubSeq(text, 3, g - 1)
      BY <2>1, <2>2
    <3>4. SubSeq(text, 3, g - 1) = <<p>> \/ SubSeq(text, 3, g - 1) = <<"http://", p>>
      <4>1. CASE g = 4
        <5>1. text \in Seq(S) /\ 3 \in Nat /\ 3 >= 1 /\ 3 <= Len(text)
          BY <1>2, <4>1
        <5>2. SubSeq(text, 3, 3) = <<text[3]>>
          BY <5>1, Pieces
        <5>3. QED
          BY <1>2, <4>1, <5>2
      <4>2. CASE g = 5
        <5>1. SubSeq(text, 3, 4) = <<text[3], text[4]>>
          BY <1>2, <4>2, Pieces
        <5>2. QED
          BY <1>2, <4>2, <5>1
      <4>3. QED
        BY <4>1, <4>2
    <3>2. <<p>> # <<>> /\ Head(<<p>>) = p /\ <<"http://", p>> # <<>>
          /\ Head(<<"http://", p>>) = "http://" /\ Tail(<<"http://", p>>) = <<p>>
      OBVIOUS
    <3>3. QED
      BY <1>1, <3>1, <3>2, <3>4, Zenon DEF UrlPart
  <2>5. FirstBlank(text) - 1 = 1 /\ SecondBlank(text) + 1 = g + 1
    BY <2>1, <2>2
  <2>6. SubSeq(text, 1, 1) = <<"GET">> /\ SubSeq(text, g + 1, g + 1) = <<"HTTP/1.1">>
    <3>1. SubSeq(text, 1, 1) = <<text[1]>>
      BY <1>2, Pieces
    <3>2. SubSeq(text, g + 1, g + 1) = <<text[g + 1]>>
      <4>1. g + 1 \in Nat /\ g + 1 >= 1 /\ g + 1 <= Len(text)
        BY <1>2
      <4>2. QED
        BY <1>2, <4>1, Pieces
    <3>3. QED
      BY <1>2, <3>1, <3>2
  <2>7. QED
    BY <1>2, <2>3, <2>4, <2>5, <2>6 DEF IsGet
<1>3. CASE text = <<"GET", "sp", p, "sp", "HTTP/1.1">>
  <2> DEFINE S == {"GET", "sp", "http://", p, "HTTP/1.1"}
  <2>1. /\ text \in Seq(S) /\ Len(text) = 4 + 1
        /\ text[1] = "GET" /\ text[3] = p /\ text[4] = "sp" /\ text[4 + 1] = "HTTP/1.1"
    BY <1>3
  <2>2. Blanks(text) = {2, 4}
    BY <1>1, <1>3 DEF Blanks
  <2> HIDE DEF S
  <2>3. QED
    BY <1>2, <2>1, <2>2
<1>4. CASE text = <<"GET", "sp", "http://", p, "sp", "HTTP/1.1">>
  <2> DEFINE S == {"GET", "sp", "http://", p, "HTTP/1.1"}
  <2>1. /\ text \in Seq(S) /\ Len(text) = 5 + 1
        /\ text[1] = "GET" /\ text[3] = "http://" /\ text[4] = p /\ text[5 + 1] = "HTTP/1.1"
    BY <1>4
  <2>2. Blanks(text) = {2, 5}
    BY <1>1, <1>4 DEF Blanks
  <2> HIDE DEF S
  <2>3. QED
    BY <1>2, <2>1, <2>2
<1>5. QED
  BY <1>3, <1>4 DEF Forms

\* A line that the parser takes for a request line is one.
LEMMA GetHasForm ==
    ASSUME NEW text \in Symbols, IsGet(text)
    PROVE  \E p \in Paths : text \in Forms(p)
<1> DEFINE B == Blanks(text)
           f == Min(B)
           g == Min(B \ {f})
<1>1. Len(text) \in Nat /\ B \in SUBSET Nat /\ \A i \in B : i \in 1..Len(text) /\ text[i] = "sp"
  BY DEF Blanks, Symbols
<1>2. Cardinality(B) > 1
  BY DEF IsGet
<1>3. B # {} /\ B \ {f} # {}
  <2> SUFFICES ASSUME B \subseteq {f} PROVE FALSE
    OBVIOUS
  <2> HIDE DEF f, B
  <2>1. IsFiniteSet({f}) /\ Cardinality({f}) = 1
    BY FS_Singleton
  <2>2. IsFiniteSet(B) /\ Cardinality(B) <= 1
    BY <2>1, FS_Subset
  <2>3. Cardinality(B) \in Nat
    BY <2>2, FS_CardinalityType
  <2>4. QED
    BY <1>2, <2>2, <2>3
<1>4. f \in B /\ \A k \in B : f <= k
  <2> HIDE DEF B
  <2>1. QED
    BY <1>1, <1>3, MinExists
<1>5. g \in B \ {f}
  <2>1. B \ {f} \in SUBSET Nat
    BY <1>1
  <2> HIDE DEF f, B
  <2>2. QED
    BY <1>3, <2>1, MinExists
<1>6. FirstBlank(text) = f /\ SecondBlank(text) = g
  BY DEF FirstBlank, SecondBlank
<1>7. /\ SubSeq(text, 1, f - 1) = <<"GET">> /\ SubSeq(text, g + 1, Len(text)) = <<"HTTP/1.1">>
      /\ UrlPart(text) \in {<<p>> : p \in Paths}
  BY <1>6, Zenon DEF IsGet
<1>8. UrlPart(text) = LET url == SubSeq(text, f + 1, g - 1)
                      IN  IF url # <<>> /\ Head(url) = "http://" THEN Tail(url) ELSE url
  BY <1>6, Zenon DEF UrlPart
<1>9. f \in 1..Len(text) /\ g \in 1..Len(text) /\ f < g /\ text[f] = "sp" /\ text[g] = "sp"
  <2>1. f \in 1..Len(text) /\ g \in 1..Len(text) /\ f <= g /\ g # f /\ text[f] = "sp" /\ text[g] = "sp"
    BY <1>1, <1>4, <1>5
  <2> HIDE DEF f, g
  <2>2. QED
    BY <2>1
<1> HIDE DEF f, g, B
<1>10. f = 2 /\ text[1] = "GET"
  <2>1. Len(SubSeq(text, 1, f - 1)) = f - 1
    BY <1>1, <1>9 DEF Symbols
  <2>2. f - 1 = 1
    BY <1>7, <2>1
  <2>3. SubSeq(text, 1, 1) = <<text[1]>>
    BY <1>1, <1>9, Pieces DEF Symbols
  <2>4. <<text[1]>> = <<"GET">>
    BY <1>7, <2>2, <2>3
  <2>5. text[1] = "GET"
    BY <2>4
  <2>6. QED
    BY <1>9, <2>2, <2>5
<1>11. Len(text) = g + 1 /\ text[g + 1] = "HTTP/1.1"
  <2>1. Len(SubSeq(text, g + 1, Len(text))) = Len(text) - g
    BY <1>1, <1>9 DEF Symbols
  <2>2. Len(text) - g = 1
    BY <1>7, <2>1
  <2>3. g + 1 \in Nat /\ g + 1 >= 1 /\ g + 1 = Len(text)
    BY <1>1, <1>9, <2>2
  <2>4. SubSeq(text, g + 1, g + 1) = <<text[g + 1]>>
    BY <2>3, Pieces DEF Symbols
  <2>5. <<text[g + 1]>> = <<"HTTP/1.1">>
    BY <1>7, <2>3, <2>4
  <2>6. text[g + 1] = "HTTP/1.1"
    BY <2>5
  <2>7. QED
    BY <2>3, <2>6
<1> DEFINE url == SubSeq(text, 3, g - 1)
<1>12. /\ url \in Symbols /\ Len(url) = g - 3
       /\ \A i \in 1..g - 3 : url[i] = text[i + 2]
  BY <1>1, <1>9, <1>10 DEF Symbols
<1>13. UrlPart(text) = IF url # <<>> /\ Head(url) = "http://" THEN Tail(url) ELSE url
  BY <1>8, <1>10
<1> HIDE DEF url
<1>14. PICK p \in Paths : UrlPart(text) = <<p>>
  BY <1>7
<1>15. CASE url = <<p>>
  <2>1. g = 4 /\ text[3] = p
    BY <1>12, <1>15
  <2>2. Len(text) = 5 /\ text[2] = "sp" /\ text[4] = "sp" /\ text[5] = "HTTP/1.1"
    BY <1>9, <1>10, <1>11, <2>1
  <2>3. text = <<"GET", "sp", p, "sp", "HTTP/1.1">>
    BY <1>10, <2>1, <2>2 DEF Symbols
  <2>4. QED
    BY <2>3 DEF Forms
<1>16. CASE url # <<>> /\ Head(url) = "http://" /\ Tail(url) = <<p>>
  <2>1. Len(url) = 2 /\ url[1] = "http://" /\ url[2] = p
    <3>1. url \in Seq(STRING) /\ url # <<>>
      BY <1>12, <1>16 DEF Symbols
    <3>2. Len(Tail(url)) = Len(url) - 1 /\ Head(url) = url[1] /\ Len(url) \in Nat
      BY <3>1
    <3>3. Len(<<p>>) = 1 /\ <<p>>[1] = p
      OBVIOUS
    <3>6. Len(Tail(url)) = 1 /\ Tail(url)[1] = p
      BY <1>16, <3>3
    <3>4. Len(url) = 2
      BY <3>2, <3>6
    <3>5. Tail(url)[1] = url[2]
      BY <3>1, <3>4, <3>6, HeadTailProperties
    <3>7. QED
      BY <1>16, <3>2, <3>4, <3>5, <3>6
  <2>2. g = 5
    <3>1. g \in Nat /\ Len(url) = g - 3
      BY <1>1, <1>9, <1>12
    <3>2. Len(url) = 2
      BY <2>1
    <3>3. 2 = g - 3
      BY <3>1, <3>2, Zenon
    <3>4. QED
      BY <3>1, <3>3
  <2>3. g = 5 /\ text[3] = "http://" /\ text[4] = p
    <3>1. url[1] = text[1 + 2] /\ url[2] = text[2 + 2]
      BY <1>12, <2>2
    <3>2. QED
      BY <2>1, <2>2, <3>1
  <2>4. Len(text) = 6 /\ text[2] = "sp" /\ text[5] = "sp" /\ text[6] = "HTTP/1.1"
    BY <1>9, <1>10, <1>11, <2>3
  <2>5. text = <<"GET", "sp", "http://", p, "sp", "HTTP/1.1">>
    BY <1>10, <2>3, <2>4 DEF Symbols
  <2>6. QED
    BY <2>5 DEF Forms
<1>17. QED
  BY <1>13, <1>14, <1>15, <1>16

\* The parser's first line is HttpRequest's, and so is the path in it.
LEMMA GetIsRequest ==
    ASSUME NEW text \in Symbols
    PROVE  /\ IsGet(text) <=> IsRequest(text)
           /\ IsGet(text) => /\ Head(UrlPart(text)) = CHOOSE p \in Paths : text \in Forms(p)
                             /\ Head(UrlPart(text)) \in Paths
<1>1. IsGet(text) <=> IsRequest(text)
  BY FormParts, GetHasForm DEF IsRequest
<1>2. ASSUME IsGet(text)
      PROVE  /\ Head(UrlPart(text)) = CHOOSE p \in Paths : text \in Forms(p)
             /\ Head(UrlPart(text)) \in Paths
  <2> DEFINE q == CHOOSE p \in Paths : text \in Forms(p)
  <2>1. q \in Paths /\ text \in Forms(q)
    BY <1>2, GetHasForm
  <2> HIDE DEF q
  <2>2. UrlPart(text) = <<q>>
    BY <2>1, FormParts
  <2>3. Head(UrlPart(text)) = q
    BY <2>2
  <2>4. QED
    BY <2>1, <2>3 DEF q
<1>3. QED
  BY <1>1, <1>2

-------------------------------------------------------------------------------
(* What parse_line() finds *)

\* Where the parser looks for the end of a line: it has passed none, nor half of one.
Looking ==
    /\ Even(m_read_buf, m_start_line + 1, m_checked_idx)
    /\ m_checked_idx = 0 \/ m_read_buf[m_checked_idx] # "CR"

\* What it finds at the first CR or LF: a line, or a place where it is stuck.
FoundLine(r) ==
    /\ r.checked \in m_checked_idx + 1..m_read_idx
    /\ LineAt(m_read_buf, m_start_line, r.checked - 1)
    /\ r.text = Text(m_read_buf, m_start_line, r.checked - 1)
FoundNone(r) ==
    /\ r.checked \in m_checked_idx..m_read_idx
    /\ Even(m_read_buf, m_start_line + 1, r.checked)
    /\ Stuck(m_read_buf, r.checked)

\* The indexes of the parser as numbers.
LEMMA Indexes ==
    ASSUME TypeOK
    PROVE  /\ m_read_buf \in Symbols /\ m_read_idx \in Nat /\ m_read_idx = Len(m_read_buf)
           /\ m_checked_idx \in Nat /\ m_start_line \in Nat
           /\ m_start_line <= m_checked_idx /\ m_checked_idx <= m_read_idx
<1>1. Len(m_read_buf) \in Nat
  BY DEF TypeOK
<1>2. QED
  BY <1>1 DEF TypeOK, m_read_idx, Symbols

\* At its first CR or LF the rest of the input has a line end, or ends, or is no input.
LEMMA LineUpToIs ==
    ASSUME TypeOK, NEW i \in Nat, m_checked_idx <= i, i < m_read_idx,
           Special(i), \A j \in m_checked_idx..i - 1 : ~Special(j)
    PROVE  /\ LineUpTo(i).status \in {"OK", "OPEN", "BAD"}
           /\ LineUpTo(i).checked \in m_checked_idx..m_read_idx
           /\ Looking /\ LineUpTo(i).status = "OK" => FoundLine(LineUpTo(i))
           /\ Looking /\ LineUpTo(i).status # "OK" => FoundNone(LineUpTo(i))
<1> DEFINE s == m_read_buf
           c == m_checked_idx
           n == m_start_line
           L == Len(m_read_buf)
<1>1. /\ s \in Symbols /\ L \in Nat /\ c \in Nat /\ n \in Nat /\ n <= c /\ c <= i /\ i < L
      /\ L = m_read_idx
  BY Indexes
<1>2. /\ Byte(i) = s[i + 1] /\ Byte(i + 1) = s[i + 2] /\ Byte(i - 1) = s[i]
      /\ s[i + 1] \in {"CR", "LF"}
      /\ \A j \in c..i - 1 : s[j + 1] \notin {"CR", "LF"}
  <2>1. (i + 1) + 1 = i + 2 /\ (i - 1) + 1 = i
    OBVIOUS
  <2>2. QED
    BY <2>1 DEF Byte, Special
<1> HIDE DEF s, c, n, L
<1>3. Even(s, c + 1, i)
  <2> SUFFICES ASSUME NEW k \in c + 1..i PROVE s[k] \notin {"CR", "LF"}
    BY DEF Even
  <2>1. k - 1 \in c..i - 1 /\ (k - 1) + 1 = k
    BY <1>1
  <2>2. QED
    BY <1>2, <2>1
<1>4. ASSUME Looking PROVE Even(s, n + 1, i) /\ (i = 0 \/ s[i] # "CR")
  <2>1. Even(s, n + 1, c) /\ (c = 0 \/ s[c] # "CR")
    BY <1>4 DEF Looking, s, n, c
  <2>2. Even(s, n + 1, i)
    <3> SUFFICES ASSUME NEW k \in n + 1..i PROVE s[k] \notin {"CR", "LF"}
      BY DEF Even
    <3>1. k \in n + 1..c \/ k \in c + 1..i
      BY <1>1
    <3>2. QED
      BY <1>3, <2>1, <3>1 DEF Even
  <2>3. CASE i = c
    BY <2>1, <2>2, <2>3
  <2>4. CASE i # c
    <3>1. i \in c + 1..i
      BY <1>1, <2>4
    <3>2. QED
      BY <1>3, <2>2, <3>1 DEF Even
  <2>5. QED
    BY <2>3, <2>4
<1> DEFINE open == Byte(i) = "CR" /\ i + 1 = m_read_idx
           ends == Byte(i) = "CR" /\ Byte(i + 1) = "LF"
           half == Byte(i) = "LF" /\ i > 1 /\ Byte(i - 1) = "CR"
<1>5. CASE open
  <2>1. LineUpTo(i) = Line("OPEN", i)
    BY <1>5 DEF LineUpTo
  <2>2. LineUpTo(i).status = "OPEN" /\ LineUpTo(i).checked = i
    BY <2>1 DEF Line
  <2>3. s[i + 1] = "CR" /\ i + 1 = L
    BY <1>1, <1>2, <1>5
  <2>4. Stuck(s, i)
    BY <2>3 DEF Stuck, L, s
  <2>5. i \in c..L
    BY <1>1
  <2>6. QED
    BY <1>1, <1>4, <2>2, <2>4, <2>5 DEF FoundNone, s, n, c
<1>6. CASE ~open /\ ends
  <2>1. LineUpTo(i) = Found(i + 2)
    BY <1>6 DEF LineUpTo
  <2>2. /\ LineUpTo(i).status = "OK" /\ LineUpTo(i).checked = i + 2
        /\ LineUpTo(i).text = SubSeq(s, n + 1, (i + 2) - 2)
    <3>1. Found(i + 2) = [status |-> "OK", checked |-> i + 2, text |-> SubSeq(s, n + 1, (i + 2) - 2)]
      BY DEF Found, s, n
    <3> HIDE DEF Found
    <3>2. QED
      BY <2>1, <3>1
  <2>3. s[i + 1] = "CR" /\ s[i + 2] = "LF" /\ i + 1 # L
    BY <1>1, <1>2, <1>6
  <2>4. i + 2 \in c + 1..L /\ (i + 2) - 1 = i + 1 /\ (i + 2) - 2 = (i + 1) - 1
    BY <1>1, <2>3
  <2>5. ASSUME Looking PROVE LineAt(s, n, i + 1)
    <3>1. i + 1 \in n + 1..L - 1 /\ (i + 1) - 1 = i /\ (i + 1) + 1 = i + 2
      BY <1>1, <2>3
    <3>2. QED
      BY <1>4, <2>3, <2>5, <3>1 DEF LineAt, L, s
  <2>6. i + 2 \in c..L
    BY <1>1, <2>4
  <2>7. QED
    BY <1>1, <2>2, <2>4, <2>5, <2>6 DEF FoundLine, Text, s, n, c
<1>7. CASE ~open /\ ~ends /\ half
  <2>1. LineUpTo(i) = Found(i + 1)
    BY <1>7 DEF LineUpTo
  <2>2. LineUpTo(i).status = "OK" /\ LineUpTo(i).checked = i + 1
    BY <2>1 DEF Found
  <2>3. s[i] = "CR" /\ i # 0
    BY <1>2, <1>7
  <2>4. ~Looking
    BY <1>4, <2>3
  <2>5. i + 1 \in c..L
    BY <1>1
  <2>6. QED
    BY <1>1, <2>2, <2>4, <2>5 DEF c
<1>8. CASE ~open /\ ~ends /\ ~half
  <2>1. LineUpTo(i) = Line("BAD", i)
    BY <1>8, Zenon DEF LineUpTo
  <2>2. LineUpTo(i).status = "BAD" /\ LineUpTo(i).checked = i
    BY <2>1 DEF Line
  <2>3. i \in c..L
    BY <1>1
  <2>4. ASSUME Looking PROVE Stuck(s, i)
    <3>1. CASE s[i + 1] = "CR"
      <4>1. i + 1 # L /\ s[i + 2] # "LF"
        BY <1>1, <1>2, <1>8, <3>1
      <4>2. i < L /\ i + 1 < L /\ (i + 1) + 1 = i + 2
        BY <1>1, <4>1
      <4>3. Stray(s, i + 1)
        BY <3>1, <4>1, <4>2 DEF Stray, L, s
      <4>4. QED
        BY <4>2, <4>3 DEF Stuck, L, s
    <3>2. CASE s[i + 1] = "LF"
      <4>1. i + 1 = 1 \/ s[(i + 1) - 1] # "CR"
        BY <1>4, <2>4
      <4>2. Stray(s, i + 1)
        BY <3>2, <4>1 DEF Stray
      <4>3. QED
        BY <1>1, <4>2 DEF Stuck, L, s
    <3>3. QED
      BY <1>2, <3>1, <3>2
  <2>5. QED
    BY <1>1, <1>4, <2>2, <2>3, <2>4 DEF FoundNone, s, n, c
<1>9. QED
  BY <1>5, <1>6, <1>7, <1>8

\* A line, or a place where the parser is stuck.
LEMMA ScanResult ==
    ASSUME TypeOK
    PROVE  /\ parse_line.status \in {"OK", "OPEN", "BAD"}
           /\ parse_line.checked \in m_checked_idx..m_read_idx
           /\ Looking /\ parse_line.status = "OK" => FoundLine(parse_line)
           /\ Looking /\ parse_line.status # "OK" => FoundNone(parse_line)
<1> DEFINE T == {i \in m_checked_idx..m_read_idx - 1 : Special(i)}
           First(i) == Special(i) /\ \A j \in m_checked_idx..i - 1 : ~Special(j)
<1>1. /\ m_read_buf \in Symbols /\ m_read_idx \in Nat /\ m_checked_idx \in Nat /\ m_start_line \in Nat
      /\ m_checked_idx <= m_read_idx /\ m_start_line <= m_checked_idx /\ m_read_idx = Len(m_read_buf)
  BY Indexes
<1>2. CASE T # {}
  <2> DEFINE i == CHOOSE i \in m_checked_idx..m_read_idx - 1 : First(i)
  <2>1. T \in SUBSET Nat
    BY <1>1
  <2>2. Min(T) \in T /\ \A k \in T : Min(T) <= k
    <3> HIDE DEF T
    <3>1. QED
      BY <1>2, <2>1, MinExists
  <2>3. \E k \in m_checked_idx..m_read_idx - 1 : First(k)
    <3> DEFINE k == Min(T)
    <3>1. k \in m_checked_idx..m_read_idx - 1 /\ Special(k)
      BY <2>2
    <3>2. ASSUME NEW j \in m_checked_idx..k - 1, Special(j) PROVE FALSE
      <4>1. j \in m_checked_idx..m_read_idx - 1
        <5> HIDE DEF k
        <5>1. QED
          BY <1>1, <3>1
      <4>2. k <= j
        BY <2>2, <3>2, <4>1
      <4>3. QED
        <5> HIDE DEF k
        <5>1. QED
          BY <1>1, <3>1, <4>2
    <3>3. QED
      BY <3>1, <3>2
  <2>4. i \in m_checked_idx..m_read_idx - 1 /\ First(i)
    BY <2>3
  <2>5. parse_line = LineUpTo(i)
    BY <2>4 DEF parse_line
  <2> HIDE DEF i
  <2>6. i \in Nat /\ m_checked_idx <= i /\ i < m_read_idx
    BY <1>1, <2>4
  <2>7. QED
    BY <2>4, <2>5, <2>6, LineUpToIs
<1>3. CASE T = {}
  <2>1. \A i \in m_checked_idx..m_read_idx - 1 : ~Special(i)
    BY <1>3
  <2>2. parse_line = Line("OPEN", m_read_idx)
    BY <2>1 DEF parse_line
  <2>3. parse_line.status = "OPEN" /\ parse_line.checked = m_read_idx
    BY <2>2 DEF Line
  <2>4. ASSUME Looking PROVE Even(m_read_buf, m_start_line + 1, m_read_idx)
    <3> SUFFICES ASSUME NEW k \in m_start_line + 1..m_read_idx PROVE m_read_buf[k] \notin {"CR", "LF"}
      BY DEF Even
    <3>1. CASE k \in m_start_line + 1..m_checked_idx
      BY <2>4, <3>1 DEF Looking, Even
    <3>2. CASE k > m_checked_idx
      <4>1. k - 1 \in m_checked_idx..m_read_idx - 1 /\ (k - 1) + 1 = k
        BY <1>1, <3>2
      <4>2. QED
        BY <2>1, <4>1 DEF Special, Byte
    <3>3. QED
      BY <1>1, <3>1, <3>2
  <2>5. Stuck(m_read_buf, m_read_idx)
    BY <1>1 DEF Stuck
  <2>6. m_read_idx \in m_checked_idx..m_read_idx
    BY <1>1
  <2>7. QED
    BY <2>3, <2>4, <2>5, <2>6 DEF FoundNone
<1>4. QED
  BY <1>2, <1>3

-------------------------------------------------------------------------------
(* Preparing and sending a response *)

\* The five lines of a header fit, and so does a form after them.
LEMMA HeaderWritten ==
    WithHeader(0) = 5 /\ AddResponse(5, 1) = 6
<1>1. \A i \in 0..5 : AddResponse(i, 1) = i + 1
  BY SizesAssumption, ResponseFits DEF AddResponse
<1>2. /\ AddResponse(0, 1) = 1 /\ AddResponse(1, 1) = 2 /\ AddResponse(2, 1) = 3
      /\ AddResponse(3, 1) = 4 /\ AddResponse(4, 1) = 5 /\ AddResponse(5, 1) = 6
  BY <1>1
<1>3. QED
  BY <1>2, Zenon DEF WithHeader

\* A response that is written from the start on has its whole header, and the form fits.
LEMMA IovIs ==
    ASSUME NEW code, NEW size
    PROVE  /\ Iov(code, 0, size) = IF code = "FILE_REQUEST" THEN <<5, size>> ELSE <<6>>
           /\ Iov(code, 0, size)[1] = IF code = "FILE_REQUEST" THEN 5 ELSE 6
           /\ code = "FILE_REQUEST" \/ Iov(code, 0, size)[1] > WithHeader(0)
<1> DEFINE iov == Iov(code, 0, size)
<1>1. WithHeader(0) = 5 /\ AddResponse(WithHeader(0), 1) = 6
  BY HeaderWritten
<1>2. iov = IF code = "FILE_REQUEST" THEN <<5, size>> ELSE <<6>>
  BY <1>1 DEF Iov
<1>3. iov[1] = IF code = "FILE_REQUEST" THEN 5 ELSE 6
  <2>1. <<5, size>>[1] = 5 /\ <<6>>[1] = 6
    OBVIOUS
  <2>2. QED
    BY <1>2, <2>1
<1> HIDE DEF iov
<1>4. code = "FILE_REQUEST" \/ iov[1] > WithHeader(0)
  BY <1>1, <1>3
<1>5. QED
  BY <1>2, <1>3, <1>4 DEF iov

\* The less of two numbers.
LEMMA MinTwo ==
    ASSUME NEW a \in Nat, NEW b \in Nat
    PROVE  Min({a, b}) = IF a <= b THEN a ELSE b
<1> DEFINE r == IF a <= b THEN a ELSE b
<1>1. {a, b} \in SUBSET Int /\ r \in {a, b} /\ \A k \in {a, b} : r <= k
  OBVIOUS
<1>2. QED
  BY <1>1, MinIs

\* The response in hand is as long as its header promises, and what writev() takes of it
\* is all or less.
LEMMA TakenIs ==
    ASSUME TypeOK, ResponseInv
    PROVE  /\ Total = Promised /\ Total \in Nat /\ Total >= m_write_idx /\ m_write_idx \in {5, 6}
           /\ Taken \in Nat /\ Taken <= Total /\ Taken <= room
           /\ room > 0 => Taken > 0
<1>1. room \in Nat /\ m_file_stat \in Nat
  BY SizesAssumption DEF TypeOK
<1>2. /\ m_iv = IF ret = "FILE_REQUEST" THEN <<5, m_file_stat>> ELSE <<6>>
      /\ m_write_idx = IF ret = "FILE_REQUEST" THEN 5 ELSE 6
  BY DEF ResponseInv, HeaderLength
<1>3. Total = Promised /\ Total \in Nat /\ Total >= m_write_idx /\ m_write_idx \in {5, 6}
  <2>1. CASE ret = "FILE_REQUEST"
    <3>1. Len(<<5, m_file_stat>>) = 2 /\ <<5, m_file_stat>>[1] = 5 /\ <<5, m_file_stat>>[2] = m_file_stat
      OBVIOUS
    <3>2. Len(m_iv) = 2 /\ m_iv[1] = 5 /\ m_iv[2] = m_file_stat
      BY <1>2, <2>1, <3>1
    <3>3. QED
      BY <1>1, <1>2, <2>1, <3>2 DEF Total, Promised
  <2>2. CASE ret # "FILE_REQUEST"
    <3>1. Len(<<6>>) # 2 /\ <<6>>[1] = 6
      OBVIOUS
    <3>2. Len(m_iv) # 2 /\ m_iv[1] = 6
      BY <1>2, <2>2, <3>1
    <3>3. QED
      BY <1>1, <1>2, <2>2, <3>2 DEF Total, Promised
  <2>3. QED
    BY <2>1, <2>2
<1>4. Taken = IF room <= Total THEN room ELSE Total
  BY <1>1, <1>3, MinTwo DEF Taken
<1>5. QED
  BY <1>1, <1>3, <1>4

-------------------------------------------------------------------------------
(* The stream of a script *)

\* The concatenations that FlattenSeq goes through; f is one of them at each of 1..n.
Chain(f, s, n) == f[1] = s[1] /\ \A i \in 2..n : f[i] = f[i - 1] \o s[i]

\* They exist: an n without them would have a least one before it.
LEMMA ChainExists ==
    ASSUME NEW s \in Seq(Symbols), s # <<>>
    PROVE  \E c \in [1..Len(s) -> Symbols] : Chain(c, s, Len(s))
<1> DEFINE T == {n \in Nat : 1 <= n /\ n <= Len(s) /\ \A c \in [1..n -> Symbols] : ~Chain(c, s, n)}
           m == Min(T)
<1>1. Len(s) \in Nat /\ 1 <= Len(s) /\ \A i \in 1..Len(s) : s[i] \in Symbols
  BY EmptySeq, ElementOfSeq
<1> SUFFICES ASSUME T # {} PROVE FALSE
  BY <1>1
<1>2. m \in T /\ \A k \in T : m <= k
  <2>1. T \in SUBSET Nat
    OBVIOUS
  <2> HIDE DEF T
  <2>2. QED
    BY <2>1, MinExists
<1>3. m \in Nat /\ 1 <= m /\ m <= Len(s) /\ \A c \in [1..m -> Symbols] : ~Chain(c, s, m)
  BY <1>2
<1>4. ASSUME NEW n \in Nat, 1 <= n, n < m PROVE \E c \in [1..n -> Symbols] : Chain(c, s, n)
  <2>1. n <= Len(s)
    BY <1>1, <1>3, <1>4
  <2>2. n \notin T
    <3>1. ~(m <= n)
      BY <1>3, <1>4
    <3> HIDE DEF T, m
    <3>2. QED
      BY <1>2, <3>1
  <2>3. QED
    BY <1>4, <2>1, <2>2
<1> HIDE DEF T, m
<1>5. CASE m = 1
  <2> DEFINE d == [i \in 1..m |-> s[i]]
  <2>1. d \in [1..m -> Symbols]
    BY <1>1, <1>3
  <2>2. d[1] = s[1] /\ 2..m = {}
    BY <1>5
  <2>3. QED
    BY <1>3, <2>1, <2>2 DEF Chain
<1>6. CASE m > 1
  <2>1. m - 1 \in Nat /\ 1 <= m - 1 /\ m - 1 < m
    BY <1>3, <1>6
  <2>2. PICK c \in [1..(m - 1) -> Symbols] : Chain(c, s, m - 1)
    BY <1>4, <2>1
  <2> DEFINE d == [i \in 1..m |-> IF i = m THEN c[m - 1] \o s[m] ELSE c[i]]
  <2>3. c[m - 1] \o s[m] \in Symbols
    <3>1. c[m - 1] \in Symbols /\ s[m] \in Symbols
      BY <1>1, <1>3, <2>1
    <3>2. QED
      BY <3>1, ConcatProperties DEF Symbols
  <2>4. d \in [1..m -> Symbols]
    <3>1. ASSUME NEW i \in 1..m, i # m PROVE i \in 1..(m - 1)
      BY <1>3, <3>1
    <3>2. QED
      BY <2>3, <3>1
  <2>5. ASSUME NEW i \in 1..(m - 1) PROVE d[i] = c[i]
    <3>1. i \in 1..m /\ i # m
      BY <1>3
    <3>2. QED
      BY <3>1
  <2>6. d[1] = s[1]
    <3>1. 1 \in 1..(m - 1)
      BY <2>1
    <3>2. c[1] = s[1]
      BY <2>2 DEF Chain
    <3> HIDE DEF d
    <3>3. QED
      BY <2>5, <3>1, <3>2
  <2>7. ASSUME NEW i \in 2..m PROVE d[i] = d[i - 1] \o s[i]
    <3>1. i - 1 \in 1..(m - 1) /\ i \in 1..m
      BY <1>3, <2>7
    <3>2. d[i - 1] = c[i - 1]
      BY <2>5, <3>1
    <3>3. CASE i = m
      <4>1. d[i] = c[m - 1] \o s[m]
        BY <3>1, <3>3
      <4>2. QED
        BY <3>2, <3>3, <4>1
    <3>4. CASE i # m
      <4>1. i \in 2..(m - 1)
        BY <1>3, <2>7, <3>4
      <4>2. c[i] = c[i - 1] \o s[i]
        BY <2>2, <4>1 DEF Chain
      <4>3. i \in 1..(m - 1)
        BY <2>1, <4>1
      <4> HIDE DEF d
      <4>4. QED
        BY <2>5, <3>2, <4>2, <4>3
    <3>5. QED
      BY <3>3, <3>4
  <2> HIDE DEF d
  <2>8. QED
    BY <1>3, <2>4, <2>6, <2>7 DEF Chain
<1>7. QED
  BY <1>3, <1>5, <1>6

\* And there is one for each s.
LEMMA ChainUnique ==
    ASSUME NEW s, NEW n \in Nat, NEW f, NEW c, Chain(f, s, n), Chain(c, s, n)
    PROVE  \A i \in 1..n : f[i] = c[i]
<1> DEFINE T == {i \in Nat : 1 <= i /\ i <= n /\ f[i] # c[i]}
           m == Min(T)
<1> SUFFICES ASSUME T # {} PROVE FALSE
  OBVIOUS
<1>1. m \in T /\ \A k \in T : m <= k
  <2>1. T \in SUBSET Nat
    OBVIOUS
  <2> HIDE DEF T
  <2>2. QED
    BY <2>1, MinExists
<1>2. m \in Nat /\ 1 <= m /\ m <= n /\ f[m] # c[m]
  BY <1>1
<1>3. m # 1
  BY <1>2 DEF Chain
<1>4. m \in 2..n /\ m - 1 \in Nat /\ 1 <= m - 1 /\ m - 1 <= n /\ ~(m <= m - 1)
  BY <1>2, <1>3
<1>5. m - 1 \notin T
  <2> HIDE DEF T, m
  <2>1. QED
    BY <1>1, <1>4
<1>6. f[m - 1] = c[m - 1]
  BY <1>4, <1>5
<1> HIDE DEF T, m
<1>7. f[m] = f[m - 1] \o s[m] /\ c[m] = c[m - 1] \o s[m]
  BY <1>4 DEF Chain
<1>8. QED
  BY <1>2, <1>6, <1>7

\* FlattenSeq is the last of them.
LEMMA FlattenIs ==
    ASSUME NEW s \in Seq(Symbols), s # <<>>, NEW c \in [1..Len(s) -> Symbols], Chain(c, s, Len(s))
    PROVE  FlattenSeq(s) = c[Len(s)]
<1> DEFINE Is(f) == f = [i \in 1..Len(s) |-> IF i = 1 THEN s[i] ELSE f[i - 1] \o s[i]]
<1>1. Len(s) \in Nat /\ 1 <= Len(s)
  BY EmptySeq
<1>2. FlattenSeq(s) = (CHOOSE f : Is(f))[Len(s)]
  BY <1>1 DEF FlattenSeq
<1>3. Is(c)
  <2> DEFINE d == [i \in 1..Len(s) |-> IF i = 1 THEN s[i] ELSE c[i - 1] \o s[i]]
  <2>1. ASSUME NEW i \in 1..Len(s) PROVE c[i] = d[i]
    <3>1. i = 1 \/ i \in 2..Len(s)
      BY <1>1
    <3>2. QED
      BY <3>1 DEF Chain
  <2>2. DOMAIN c = 1..Len(s) /\ c = [i \in 1..Len(s) |-> c[i]]
    OBVIOUS
  <2>3. QED
    BY <2>1, <2>2
<1>4. ASSUME NEW f, Is(f) PROVE f[Len(s)] = c[Len(s)]
  <2>1. Chain(f, s, Len(s))
    <3>1. f[1] = s[1]
      BY <1>1, <1>4
    <3>2. ASSUME NEW i \in 2..Len(s) PROVE f[i] = f[i - 1] \o s[i]
      <4>1. i \in 1..Len(s) /\ i # 1
        BY <1>1, <3>2
      <4>2. QED
        BY <1>4, <4>1
    <3>3. QED
      BY <3>1, <3>2 DEF Chain
  <2>2. Len(s) \in 1..Len(s)
    BY <1>1
  <2>3. QED
    BY <1>1, <2>1, <2>2, ChainUnique
<1> HIDE DEF Is
<1>5. QED
  BY <1>2, <1>3, <1>4

\* A script is flattened to a sequence of symbols.
LEMMA FlattenType ==
    ASSUME NEW s \in Seq(Symbols)
    PROVE  FlattenSeq(s) \in Symbols
<1>1. CASE s = <<>>
  <2>1. FlattenSeq(s) = s
    BY <1>1 DEF FlattenSeq
  <2>2. QED
    BY <1>1, <2>1, EmptySeq DEF Symbols
<1>2. CASE s # <<>>
  <2>1. PICK c \in [1..Len(s) -> Symbols] : Chain(c, s, Len(s))
    BY <1>2, ChainExists
  <2>2. FlattenSeq(s) = c[Len(s)]
    BY <1>2, <2>1, FlattenIs
  <2>3. Len(s) \in 1..Len(s)
    BY <1>2, EmptySeq
  <2>4. QED
    BY <2>2, <2>3
<1>3. QED
  BY <1>1, <1>2

\* Joining is associative.
LEMMA JoinAssociative ==
    ASSUME NEW s \in Symbols, NEW t \in Symbols, NEW u \in Symbols
    PROVE  (s \o t) \o u = s \o (t \o u)
BY ConcatAssociative DEF Symbols

\* What comes after the same beginning is the same.
LEMMA JoinCancel ==
    ASSUME NEW s \in Symbols, NEW t \in Symbols, NEW u \in Symbols, s \o t = s \o u
    PROVE  t = u
<1>1. \A S : \A a, b, c \in Seq(S) : a \o b = a \o c => b = c
  BY ConcatSimplifications
<1>2. s \in Seq(STRING) /\ t \in Seq(STRING) /\ u \in Seq(STRING)
  BY DEF Symbols
<1>3. QED
  BY <1>1, <1>2

\* The shorter of two beginnings of one sequence is a beginning of the other.
LEMMA PrefixOfJoined ==
    ASSUME NEW s \in Symbols, NEW t \in Symbols, NEW u \in Symbols, NEW v \in Symbols,
           s \o t = u \o v, Len(u) <= Len(s)
    PROVE  u = SubSeq(s, 1, Len(u))
<1>1. /\ Len(s) \in Nat /\ Len(t) \in Nat /\ Len(u) \in Nat /\ Len(v) \in Nat
      /\ s \in Seq(STRING) /\ u \in Seq(STRING)
  BY DEF Symbols
<1>2. /\ \A i \in 1..Len(s) + Len(t) : (s \o t)[i] = IF i <= Len(s) THEN s[i] ELSE t[i - Len(s)]
      /\ \A i \in 1..Len(u) + Len(v) : (u \o v)[i] = IF i <= Len(u) THEN u[i] ELSE v[i - Len(u)]
  BY ConcatProperties DEF Symbols
<1>3. ASSUME NEW i \in 1..Len(u) PROVE u[i] = s[i]
  <2>1. /\ i \in 1..Len(s) + Len(t) /\ i \in 1..Len(u) + Len(v) /\ i <= Len(u) /\ i <= Len(s)
    BY <1>1
  <2>2. QED
    BY <1>2, <2>1
<1> DEFINE w == SubSeq(s, 1, Len(u))
<1>4. w \in Seq(STRING) /\ Len(w) = Len(u) /\ \A i \in 1..Len(u) : w[i] = s[i]
  BY <1>1
<1> HIDE DEF w
<1>5. \A i \in 1..Len(u) : u[i] = w[i]
  BY <1>3, <1>4
<1>6. u = w
  BY <1>1, <1>4, <1>5, SeqEqual
<1>7. QED
  BY <1>6 DEF w

\* The stream begins with the first request and goes on with that of the others.
LEMMA FlattenFirst ==
    ASSUME NEW s \in Seq(Symbols), s # <<>>
    PROVE  FlattenSeq(s) = s[1] \o FlattenSeq(Tail(s))
<1> DEFINE t == Tail(s)
<1>1. Len(s) \in Nat /\ 1 <= Len(s) /\ \A i \in 1..Len(s) : s[i] \in Symbols
  BY EmptySeq, ElementOfSeq
<1>2. t \in Seq(Symbols) /\ Len(t) = Len(s) - 1 /\ \A i \in 1..Len(t) : t[i] = s[i + 1]
  BY HeadTailProperties
<1> HIDE DEF t
<1>3. PICK c \in [1..Len(s) -> Symbols] : Chain(c, s, Len(s))
  BY ChainExists
<1>4. FlattenSeq(s) = c[Len(s)]
  BY <1>3, FlattenIs
<1>5. CASE t = <<>>
  <2>1. FlattenSeq(t) = <<>> /\ Len(s) = 1
    BY <1>1, <1>2, <1>5 DEF FlattenSeq
  <2>2. c[1] = s[1] /\ s[1] \in Symbols
    BY <1>1, <1>3, <2>1 DEF Chain
  <2>3. s[1] \o <<>> = s[1]
    BY <2>2, ConcatEmptySeq DEF Symbols
  <2>4. QED
    BY <1>4, <2>1, <2>2, <2>3 DEF t
<1>6. CASE t # <<>>
  <2>1. Len(t) \in Nat /\ 1 <= Len(t) /\ Len(s) = Len(t) + 1
    BY <1>1, <1>2, <1>6, EmptySeq
  <2>2. PICK d \in [1..Len(t) -> Symbols] : Chain(d, t, Len(t))
    BY <1>2, <1>6, ChainExists
  <2>3. FlattenSeq(t) = d[Len(t)]
    BY <1>2, <1>6, <2>2, FlattenIs
  <2> DEFINE e == [i \in 1..Len(s) |-> IF i = 1 THEN s[1] ELSE s[1] \o d[i - 1]]
  <2>4. e[1] = s[1] /\ \A i \in 2..Len(s) : e[i] = s[1] \o d[i - 1]
    <3>1. 1 \in 1..Len(s) /\ \A i \in 2..Len(s) : i \in 1..Len(s) /\ i # 1
      BY <1>1
    <3>2. QED
      BY <3>1
  <2> HIDE DEF e
  <2>5. ASSUME NEW i \in 2..Len(s) PROVE e[i] = e[i - 1] \o s[i]
    <3>1. i - 1 \in 1..Len(t) /\ t[i - 1] = s[i]
      <4>1. i - 1 \in 1..Len(t) /\ (i - 1) + 1 = i
        BY <2>1, <2>5
      <4>2. QED
        BY <1>2, <4>1
    <3>2. e[i] = s[1] \o d[i - 1]
      BY <2>4, <2>5
    <3>3. CASE i = 2
      <4>1. d[i - 1] = s[i]
        BY <2>2, <3>1, <3>3 DEF Chain
      <4>2. e[i - 1] = s[1]
        BY <2>4, <3>3
      <4>3. QED
        BY <3>2, <4>1, <4>2
    <3>4. CASE i # 2
      <4>1. i - 1 \in 2..Len(t) /\ i - 1 \in 2..Len(s) /\ (i - 1) - 1 \in 1..Len(t)
        BY <2>1, <2>5, <3>4
      <4>2. d[i - 1] = d[(i - 1) - 1] \o s[i]
        BY <2>2, <3>1, <4>1 DEF Chain
      <4>3. e[i - 1] = s[1] \o d[(i - 1) - 1]
        BY <2>4, <4>1
      <4>4. s[1] \in Symbols /\ d[(i - 1) - 1] \in Symbols /\ s[i] \in Symbols
        <5>1. 1 \in 1..Len(s) /\ i \in 1..Len(s)
          BY <1>1, <2>5
        <5>2. QED
          BY <1>1, <4>1, <5>1
      <4>5. (s[1] \o d[(i - 1) - 1]) \o s[i] = s[1] \o (d[(i - 1) - 1] \o s[i])
        BY <4>4, JoinAssociative
      <4>6. QED
        BY <3>2, <4>2, <4>3, <4>5
    <3>5. QED
      BY <3>3, <3>4
  <2>6. Chain(e, s, Len(s))
    BY <2>4, <2>5 DEF Chain
  <2>7. Len(s) \in 1..Len(s) /\ Len(s) \in 2..Len(s) /\ Len(s) - 1 = Len(t)
    BY <1>1, <2>1
  <2>8. e[Len(s)] = c[Len(s)]
    BY <1>1, <1>3, <2>6, <2>7, ChainUnique
  <2>9. e[Len(s)] = s[1] \o d[Len(t)]
    BY <2>4, <2>7
  <2>10. QED
    BY <1>4, <2>3, <2>8, <2>9 DEF t
<1>7. QED
  BY <1>5, <1>6

-------------------------------------------------------------------------------
(* Types *)

\* TypeOK, by what an action changes together.
ClientTypes == conns \in 0..MaxConns /\ room \in 0..SendBuffer /\ toSend \in Seq(STRING)
BufferTypes ==
    /\ m_read_buf \in Seq(STRING) /\ m_read_idx <= READ_BUFFER_SIZE
    /\ m_start_line \in 0..m_checked_idx /\ m_checked_idx \in 0..m_read_idx
FieldTypes ==
    /\ m_check_state \in {"REQUESTLINE", "HEADER", "CONTENT"}
    /\ m_content_length \in Nat
    /\ m_keepAlive \in BOOLEAN
    /\ m_url \in Paths \union {NoUrl}
OutTypes == m_write_idx \in 0..WRITE_BUFFER_SIZE /\ m_iv \in Seq(Nat) /\ m_file_stat \in Nat
MapTypes ==
    /\ m_file_address \in Nat \union {MAP_FAILED}
    /\ \A m \in mapped : m.at \in Nat \ {NULL} /\ m.size \in Nat \ {0}
PlaceTypes ==
    /\ pc \in {"closed", "in", "parse", "out", "sending"}
    /\ line_status \in {"OK", "OPEN", "BAD"}
    /\ ret \in Codes
AnswerTypes ==
    /\ bytes_have_send \in Nat /\ sent \in Nat
    /\ answers \in Seq(Codes)
    /\ {tight, lateBody, discarded, abandoned} \subseteq BOOLEAN

\* The groups are TypeOK.
LEMMA TypeGroups ==
    TypeOK <=> /\ ClientTypes /\ BufferTypes /\ FieldTypes /\ OutTypes
               /\ MapTypes /\ PlaceTypes /\ AnswerTypes
  BY DEF TypeOK, ClientTypes, BufferTypes, FieldTypes, OutTypes, MapTypes, PlaceTypes, AnswerTypes

\* And so after a step.
LEMMA TypeGroupsNext ==
    ASSUME ClientTypes', BufferTypes', FieldTypes', OutTypes', MapTypes', PlaceTypes', AnswerTypes'
    PROVE  TypeOK'
  BY DEF TypeOK, ClientTypes, BufferTypes, FieldTypes, OutTypes, MapTypes, PlaceTypes, AnswerTypes

\* An object that is reset is as init() leaves it.
LEMMA ResetTypes ==
    ASSUME Reset
    PROVE  BufferTypes' /\ FieldTypes' /\ m_write_idx' \in 0..WRITE_BUFFER_SIZE
<1>1. <<>> \in Seq(STRING) /\ Len(<<>>) = 0
  OBVIOUS
<1>2. 0 <= READ_BUFFER_SIZE /\ 0 \in 0..0 /\ 0 \in 0..WRITE_BUFFER_SIZE
  BY SizesAssumption
<1>3. BufferTypes'
  BY <1>1, <1>2 DEF Reset, BufferTypes, m_read_idx
<1>4. QED
  BY <1>2, <1>3 DEF Reset, FieldTypes

\* There is a free address for one mapping more.
LEMMA FreeAddress ==
    ASSUME TypeOK, MapInv, pc = "parse"
    PROVE  Min(1..MaxConns + 1 \ {m.at : m \in mapped}) \in Nat \ {NULL}
<1> DEFINE used == {m.at : m \in mapped}
         free == 1..MaxConns + 1 \ used
<1>1. MaxConns \in Nat /\ conns \in Nat /\ conns <= MaxConns
  BY SizesAssumption DEF TypeOK
<1>2. IsFiniteSet(mapped) /\ Cardinality(mapped) < conns /\ Cardinality(mapped) \in Nat
  BY FS_CardinalityType DEF MapInv
<1>3. IsFiniteSet(used) /\ Cardinality(used) <= Cardinality(mapped) /\ Cardinality(used) \in Nat
  <2> DEFINE f == [m \in mapped |-> m.at]
  <2>1. f \in Surjection(mapped, used)
    BY DEF Surjection
  <2>2. IsFiniteSet(used) /\ Cardinality(used) <= Cardinality(mapped)
    <3> HIDE DEF f, used
    <3>1. QED
      BY <1>2, <2>1, FS_Surjection
  <2>3. QED
    BY <2>2, FS_CardinalityType
<1>4. IsFiniteSet(1..MaxConns + 1) /\ Cardinality(1..MaxConns + 1) = MaxConns + 1
  <2>1. 1 \in Int /\ MaxConns + 1 \in Int
    BY <1>1
  <2>2. /\ IsFiniteSet(1..MaxConns + 1)
        /\ Cardinality(1..MaxConns + 1) = IF 1 > MaxConns + 1 THEN 0 ELSE (MaxConns + 1) - 1 + 1
    BY <2>1, FS_Interval
  <2>3. QED
    BY <1>1, <2>2
<1>5. free # {}
  <2> SUFFICES ASSUME 1..MaxConns + 1 \subseteq used PROVE FALSE
    OBVIOUS
  <2> HIDE DEF used
  <2>1. Cardinality(1..MaxConns + 1) <= Cardinality(used)
    BY <1>3, FS_Subset
  <2>2. QED
    BY <1>1, <1>2, <1>3, <1>4, <2>1
<1>6. free \in SUBSET Nat /\ \A k \in free : k # NULL
  BY <1>1 DEF NULL
<1>7. Min(free) \in free
  <2> HIDE DEF free
  <2>1. QED
    BY <1>5, <1>6, MinExists
<1>8. QED
  BY <1>6, <1>7

\* do_request() answers with what the file behind m_url allows.
LEMMA RequestIs ==
    ASSUME TypeOK, MapInv, pc = "parse", m_write_idx = 0, do_request
    PROVE  /\ ret' = Answer(m_url) /\ pc' = "out" /\ sent' = 0 /\ tight' = FALSE
           /\ UNCHANGED clientVars
           /\ m_write_idx' = IF ret' = "FILE_REQUEST" THEN 5 ELSE 6
           /\ m_iv' = IF ret' = "FILE_REQUEST" THEN <<5, m_file_stat'>> ELSE <<6>>
           /\ m_file_stat' \in Nat
           /\ \/ UNCHANGED mapVars
              \/ m_file_address' = MAP_FAILED /\ UNCHANGED mapped
              \/ /\ m_file_address' \in Nat \ {NULL} /\ m_file_stat' # 0
                 /\ mapped' = mapped \union {[at |-> m_file_address', size |-> m_file_stat']}
<1> DEFINE size == IF m_url \in DOMAIN Files THEN Files[m_url].size ELSE m_file_stat
<1>1. /\ m_file_stat' = size /\ Respond(Answer(m_url), size)
      /\ IF Answer(m_url) = "FILE_REQUEST" THEN Map(size) ELSE UNCHANGED mapVars
  BY DEF do_request
<1>2. size \in Nat
  <2>1. \A p \in DOMAIN Files : Files[p] \in [readable : BOOLEAN, dir : BOOLEAN, size : Nat]
    BY FilesAssumption
  <2>2. \A p \in DOMAIN Files : Files[p].size \in Nat
    BY <2>1
  <2>3. m_file_stat \in Nat
    BY DEF TypeOK
  <2>4. QED
    BY <2>2, <2>3
<1> HIDE DEF size
<1>3. /\ ret' = Answer(m_url) /\ pc' = "out" /\ sent' = 0 /\ tight' = FALSE /\ UNCHANGED clientVars
      /\ m_write_idx' = IF Answer(m_url) = "FILE_REQUEST" THEN 5 ELSE 6
      /\ m_iv' = IF Answer(m_url) = "FILE_REQUEST" THEN <<5, size>> ELSE <<6>>
  <2> DEFINE code == Answer(m_url)
             iov == Iov(code, 0, size)
  <2>1. /\ ret' = code /\ m_write_idx' = iov[1] /\ sent' = 0 /\ tight' = FALSE
        /\ IF code = "FILE_REQUEST" \/ iov[1] > WithHeader(0)
              THEN m_iv' = iov /\ pc' = "out" /\ UNCHANGED clientVars
              ELSE CloseConn /\ UNCHANGED m_iv
    BY <1>1 DEF Respond
  <2> HIDE DEF code
  <2>2. /\ iov = IF code = "FILE_REQUEST" THEN <<5, size>> ELSE <<6>>
        /\ iov[1] = IF code = "FILE_REQUEST" THEN 5 ELSE 6
        /\ code = "FILE_REQUEST" \/ iov[1] > WithHeader(0)
    BY IovIs
  <2> HIDE DEF iov
  <2>3. QED
    BY <2>1, <2>2 DEF code
<1>4. \/ UNCHANGED mapVars
      \/ m_file_address' = MAP_FAILED /\ UNCHANGED mapped
      \/ /\ m_file_address' \in Nat \ {NULL} /\ size # 0
         /\ mapped' = mapped \union {[at |-> m_file_address', size |-> size]}
  <2> DEFINE at == Min(1..MaxConns + 1 \ {m.at : m \in mapped})
  <2>1. at \in Nat \ {NULL}
    BY FreeAddress
  <2>2. Map(size) => IF size = 0
                        THEN m_file_address' = MAP_FAILED /\ UNCHANGED mapped
                        ELSE m_file_address' = at /\ mapped' = mapped \union {[at |-> at, size |-> size]}
    BY DEF Map
  <2> HIDE DEF at
  <2>3. QED
    BY <1>1, <2>1, <2>2
<1>5. QED
  BY <1>1, <1>2, <1>3, <1>4

\* What process_read() goes on with lies between the place where it was and the end.
LEMMA ScanBounds ==
    ASSUME TypeOK
    PROVE  /\ Scan.status \in {"OK", "OPEN", "BAD"}
           /\ Scan.checked \in m_checked_idx..m_read_idx
           /\ m_check_state # "CONTENT" => Scan = parse_line
           /\ m_check_state = "CONTENT" /\ line_status = "OK" =>
                Scan.status = "OK" /\ Scan.checked = m_checked_idx
<1>1. CASE m_check_state = "CONTENT" /\ line_status = "OK"
  <2>1. Scan = Found(m_checked_idx)
    BY <1>1 DEF Scan
  <2>2. Scan.status = "OK" /\ Scan.checked = m_checked_idx
    BY <2>1 DEF Found
  <2>3. m_checked_idx \in m_checked_idx..m_read_idx
    BY Indexes
  <2>4. QED
    BY <1>1, <2>2, <2>3
<1>2. CASE ~(m_check_state = "CONTENT" /\ line_status = "OK")
  <2>1. Scan = parse_line
    BY <1>2 DEF Scan
  <2>2. QED
    BY <1>2, <2>1, ScanResult
<1>3. QED
  BY <1>1, <1>2

\* A line moves both indexes behind it.
LEMMA GetLineTypes ==
    ASSUME TypeOK, NEW state, NEW line, line = Scan, GetLine(state, line)
    PROVE  BufferTypes' /\ UNCHANGED <<bytes_have_send, answers, lateBody, discarded, abandoned>>
<1>1. /\ m_checked_idx' = line.checked /\ m_start_line' = line.checked
      /\ UNCHANGED <<m_read_buf, bytes_have_send, answers, lateBody, discarded, abandoned>>
  BY DEF GetLine
<1>2. line.checked \in m_checked_idx..m_read_idx
  BY ScanBounds
<1>3. BufferTypes
  BY TypeGroups
<1>4. m_read_idx' = m_read_idx /\ m_checked_idx \in Nat /\ m_read_idx \in Nat
  BY <1>1, Indexes DEF m_read_idx
<1>5. line.checked \in Nat /\ line.checked <= m_read_idx
  BY <1>2, <1>4
<1>6. BufferTypes'
  BY <1>1, <1>3, <1>4, <1>5 DEF BufferTypes
<1>7. QED
  BY <1>1, <1>6

\* A response that is prepared has the types of one.
LEMMA RequestTypes ==
    ASSUME TypeOK, MapInv, pc = "parse", m_write_idx = 0, do_request
    PROVE  /\ ClientTypes' /\ OutTypes' /\ MapTypes' /\ pc' = "out"
           /\ ret' \in Codes /\ sent' = 0 /\ tight' = FALSE
<1>1. /\ ret' = Answer(m_url) /\ pc' = "out" /\ sent' = 0 /\ tight' = FALSE
      /\ UNCHANGED clientVars
      /\ m_write_idx' = IF ret' = "FILE_REQUEST" THEN 5 ELSE 6
      /\ m_iv' = IF ret' = "FILE_REQUEST" THEN <<5, m_file_stat'>> ELSE <<6>>
      /\ m_file_stat' \in Nat
      /\ \/ UNCHANGED mapVars
         \/ m_file_address' = MAP_FAILED /\ UNCHANGED mapped
         \/ /\ m_file_address' \in Nat \ {NULL} /\ m_file_stat' # 0
            /\ mapped' = mapped \union {[at |-> m_file_address', size |-> m_file_stat']}
  BY RequestIs
<1>2. ClientTypes /\ MapTypes
  BY TypeGroups
<1>3. ClientTypes'
  BY <1>1, <1>2 DEF ClientTypes, clientVars
<1>4. OutTypes'
  <2>1. 5 \in 0..WRITE_BUFFER_SIZE /\ 6 \in 0..WRITE_BUFFER_SIZE
    BY SizesAssumption, ResponseFits
  <2>2. <<5, m_file_stat'>> \in Seq(Nat) /\ <<6>> \in Seq(Nat)
    BY <1>1
  <2>3. QED
    BY <1>1, <2>1, <2>2 DEF OutTypes
<1>5. MapTypes'
  <2>1. CASE UNCHANGED mapVars
    BY <1>2, <2>1 DEF MapTypes, mapVars
  <2>2. CASE m_file_address' = MAP_FAILED /\ UNCHANGED mapped
    BY <1>2, <2>2 DEF MapTypes
  <2>3. CASE /\ m_file_address' \in Nat \ {NULL} /\ m_file_stat' # 0
             /\ mapped' = mapped \union {[at |-> m_file_address', size |-> m_file_stat']}
    BY <1>1, <1>2, <2>3 DEF MapTypes
  <2>4. QED
    BY <1>1, <2>1, <2>2, <2>3
<1>6. ret' \in Codes
  BY <1>1 DEF Answer, Codes
<1>7. QED
  BY <1>1, <1>3, <1>4, <1>5, <1>6

\* The response to a line that is no request line.
LEMMA BadIs ==
    ASSUME m_write_idx = 0, Respond("BAD_REQUEST", 0)
    PROVE  /\ ret' = "BAD_REQUEST" /\ m_write_idx' = 6 /\ m_iv' = <<6>> /\ pc' = "out"
           /\ UNCHANGED clientVars /\ sent' = 0 /\ tight' = FALSE
<1> DEFINE code == "BAD_REQUEST"
           iov == Iov(code, 0, 0)
<1>1. /\ ret' = code /\ m_write_idx' = iov[1] /\ sent' = 0 /\ tight' = FALSE
      /\ IF code = "FILE_REQUEST" \/ iov[1] > WithHeader(0)
            THEN m_iv' = iov /\ pc' = "out" /\ UNCHANGED clientVars
            ELSE CloseConn /\ UNCHANGED m_iv
  BY DEF Respond
<1>2. code # "FILE_REQUEST"
  OBVIOUS
<1> HIDE DEF code
<1>3. iov = <<6>> /\ iov[1] = 6 /\ iov[1] > WithHeader(0)
  BY <1>2, IovIs
<1> HIDE DEF iov
<1>4. QED
  BY <1>1, <1>3 DEF code

\* Each of the actions that read keeps the types.
LEMMA ReadTypes ==
    ASSUME TypeOK, read
    PROVE  TypeOK'
<1>1. /\ ClientTypes /\ BufferTypes /\ FieldTypes /\ OutTypes /\ MapTypes /\ PlaceTypes /\ AnswerTypes
  BY TypeGroups
<1>2. /\ m_read_buf \in Seq(STRING) /\ toSend \in Seq(STRING) /\ m_read_idx = Len(m_read_buf)
      /\ Len(m_read_buf) \in Nat /\ Len(toSend) \in Nat /\ m_read_idx <= READ_BUFFER_SIZE
      /\ READ_BUFFER_SIZE \in Nat /\ m_checked_idx \in Nat /\ m_checked_idx <= m_read_idx
  BY <1>1, Indexes, SizesAssumption DEF ClientTypes, BufferTypes
<1>3. \A n \in Nat : n <= Len(toSend) =>
        /\ SubSeq(toSend, 1, n) \in Seq(STRING) /\ Len(SubSeq(toSend, 1, n)) = n
        /\ SubSeq(toSend, n + 1, Len(toSend)) \in Seq(STRING)
        /\ m_read_buf \o SubSeq(toSend, 1, n) \in Seq(STRING)
        /\ Len(m_read_buf \o SubSeq(toSend, 1, n)) = m_read_idx + n
  BY <1>2
<1>4. ASSUME NEW n \in 1..Len(toSend), Read(n) PROVE TypeOK'
  <2>1. /\ m_read_idx + n < READ_BUFFER_SIZE
        /\ m_read_buf' = m_read_buf \o SubSeq(toSend, 1, n)
        /\ toSend' = SubSeq(toSend, n + 1, Len(toSend))
        /\ lateBody' = (lateBody \/ m_check_state = "CONTENT")
        /\ pc' = "parse" /\ line_status' = "OK"
        /\ UNCHANGED <<conns, script, room, parseVars, outVars, mapVars, ret, bytes_have_send,
                       sent, answers, tight, discarded, abandoned>>
    BY <1>4 DEF Read
  <2>2. n \in Nat /\ n <= Len(toSend)
    BY <1>2
  <2>3. toSend' \in Seq(STRING) /\ m_read_buf' \in Seq(STRING) /\ m_read_idx' = m_read_idx + n
    BY <1>3, <2>1, <2>2 DEF m_read_idx
  <2>4. BufferTypes'
    <3>1. m_read_idx' <= READ_BUFFER_SIZE /\ m_checked_idx <= m_read_idx'
      BY <1>2, <2>1, <2>2, <2>3
    <3>2. m_read_idx' \in Nat
      BY <1>2, <2>2, <2>3
    <3>3. QED
      BY <1>1, <1>2, <2>1, <2>3, <3>1, <3>2 DEF BufferTypes, parseVars
  <2>5. ClientTypes'
    BY <1>1, <2>1, <2>3 DEF ClientTypes
  <2>6. FieldTypes' /\ OutTypes' /\ MapTypes'
    BY <1>1, <2>1 DEF FieldTypes, OutTypes, MapTypes, parseVars, outVars, mapVars
  <2>7. PlaceTypes'
    BY <1>1, <2>1 DEF PlaceTypes
  <2>8. AnswerTypes'
    BY <1>1, <2>1 DEF AnswerTypes
  <2>9. QED
    BY <2>4, <2>5, <2>6, <2>7, <2>8, TypeGroupsNext
<1>5. ASSUME ReadFull PROVE TypeOK'
  <2> DEFINE n == READ_BUFFER_SIZE - m_read_idx
  <2>1. /\ m_read_idx + Len(toSend) >= READ_BUFFER_SIZE
        /\ m_read_buf' = m_read_buf \o SubSeq(toSend, 1, n)
        /\ pc' = "closed" /\ toSend' = <<>>
        /\ UNCHANGED <<conns, room, parseVars, outVars, mapVars, localVars, history>>
    BY <1>5 DEF ReadFull, CloseConn
  <2>2. n \in Nat /\ n <= Len(toSend) /\ m_read_idx + n = READ_BUFFER_SIZE
    BY <1>2, <2>1
  <2> HIDE DEF n
  <2>3. m_read_buf' \in Seq(STRING) /\ m_read_idx' = m_read_idx + n
    BY <1>3, <2>1, <2>2 DEF m_read_idx
  <2>4. BufferTypes'
    <3>1. m_read_idx' <= READ_BUFFER_SIZE /\ m_checked_idx <= m_read_idx' /\ m_read_idx' \in Nat
      BY <1>2, <2>2, <2>3
    <3>2. QED
      BY <1>1, <1>2, <2>1, <2>3, <3>1 DEF BufferTypes, parseVars
  <2>5. ClientTypes'
    BY <1>1, <2>1 DEF ClientTypes
  <2>6. FieldTypes' /\ OutTypes' /\ MapTypes'
    BY <1>1, <2>1 DEF FieldTypes, OutTypes, MapTypes, parseVars, outVars, mapVars
  <2>7. PlaceTypes'
    BY <1>1, <2>1 DEF PlaceTypes, localVars
  <2>8. AnswerTypes'
    BY <1>1, <2>1 DEF AnswerTypes, localVars, history
  <2>9. QED
    BY <2>4, <2>5, <2>6, <2>7, <2>8, TypeGroupsNext
<1>6. QED
  BY <1>4, <1>5 DEF read

\* Each iteration of the loop of process_read() keeps the types.
LEMMA ProcessTypes ==
    ASSUME TypeOK, MapInv, pc = "parse" => m_write_idx = 0, process
    PROVE  TypeOK'
<1>1. /\ ClientTypes /\ BufferTypes /\ FieldTypes /\ OutTypes /\ MapTypes /\ PlaceTypes /\ AnswerTypes
  BY TypeGroups
<1>2. PICK line \in {Scan} :
         \/ NoLine(line) \/ ParseRequestLine(line) \/ BadRequestLine(line) \/ ParseHeader(line)
         \/ AwaitContent(line) \/ EndOfHeader(line) \/ Content(line) \/ ContentIncomplete(line)
  BY DEF process
<1>3. line = Scan /\ line.status \in {"OK", "OPEN", "BAD"} /\ line.checked \in m_checked_idx..m_read_idx
  BY ScanBounds
<1>4. \A state : GetLine(state, line) => BufferTypes' /\ pc = "parse" /\ m_write_idx = 0 /\
        UNCHANGED <<bytes_have_send, answers, lateBody, discarded, abandoned>>
  BY <1>3, GetLineTypes DEF GetLine
<1>5. ASSUME NoLine(line) PROVE TypeOK'
  <2>1. /\ m_checked_idx' = line.checked /\ line_status' = line.status /\ pc' = "in"
        /\ UNCHANGED <<clientVars, m_read_buf, m_start_line, m_check_state, m_content_length,
                       m_keepAlive, m_url, outVars, mapVars, ret, bytes_have_send, history>>
    BY <1>5 DEF NoLine
  <2>2. m_read_idx' = m_read_idx
    BY <2>1 DEF m_read_idx
  <2>3. BufferTypes'
    <3>1. m_start_line \in Nat /\ m_checked_idx \in Nat /\ m_read_idx \in Nat /\ m_start_line <= m_checked_idx
      BY Indexes
    <3>2. m_start_line \in 0..line.checked /\ line.checked \in 0..m_read_idx
      BY <1>3, <3>1
    <3>3. QED
      BY <1>1, <2>1, <2>2, <3>2 DEF BufferTypes
  <2>4. ClientTypes' /\ FieldTypes' /\ OutTypes' /\ MapTypes'
    BY <1>1, <2>1 DEF ClientTypes, FieldTypes, OutTypes, MapTypes, clientVars, outVars, mapVars
  <2>5. PlaceTypes'
    BY <1>1, <1>3, <2>1 DEF PlaceTypes
  <2>6. AnswerTypes'
    BY <1>1, <2>1 DEF AnswerTypes, history
  <2>7. QED
    BY <2>3, <2>4, <2>5, <2>6, TypeGroupsNext
<1>6. ASSUME ParseRequestLine(line) PROVE TypeOK'
  <2>1. GetLine("REQUESTLINE", line)
    BY <1>6 DEF ParseRequestLine
  <2>2. BufferTypes' /\ UNCHANGED <<bytes_have_send, answers, lateBody, discarded, abandoned>>
    BY <1>4, <2>1
  <2>3. FieldTypes'
    <3>1. IsGet(line.text) /\ m_url' = Head(UrlPart(line.text)) /\ m_check_state' = "HEADER"
          /\ UNCHANGED <<m_content_length, m_keepAlive>>
      BY <1>6 DEF ParseRequestLine
    <3>2. Head(UrlPart(line.text)) \in Paths
      <4>1. PICK p \in Paths : UrlPart(line.text) = <<p>>
        BY <3>1 DEF IsGet
      <4>2. Head(<<p>>) = p
        OBVIOUS
      <4>3. QED
        BY <4>1, <4>2
    <3>3. QED
      BY <1>1, <3>1, <3>2 DEF FieldTypes
  <2>4. line_status' = "OK" /\ UNCHANGED <<clientVars, outVars, mapVars, pc, ret, sent, tight>>
    BY <1>6 DEF ParseRequestLine
  <2>5. ClientTypes' /\ OutTypes' /\ MapTypes'
    BY <1>1, <2>4 DEF ClientTypes, OutTypes, MapTypes, clientVars, outVars, mapVars
  <2>6. PlaceTypes'
    BY <1>1, <2>4 DEF PlaceTypes
  <2>7. AnswerTypes'
    BY <1>1, <2>2, <2>4 DEF AnswerTypes
  <2>8. QED
    BY <2>2, <2>3, <2>5, <2>6, <2>7, TypeGroupsNext
<1>7. ASSUME BadRequestLine(line) PROVE TypeOK'
  <2>1. /\ GetLine("REQUESTLINE", line) /\ Respond("BAD_REQUEST", 0) /\ line_status' = "OK"
        /\ UNCHANGED <<m_check_state, m_content_length, m_keepAlive, m_url, m_file_stat, mapVars>>
    BY <1>7 DEF BadRequestLine
  <2>2. /\ BufferTypes' /\ UNCHANGED <<bytes_have_send, answers, lateBody, discarded, abandoned>>
        /\ m_write_idx = 0
    BY <1>4, <2>1
  <2>3. /\ ret' = "BAD_REQUEST" /\ m_write_idx' = 6 /\ m_iv' = <<6>> /\ pc' = "out"
        /\ UNCHANGED clientVars /\ sent' = 0 /\ tight' = FALSE
    BY <2>1, <2>2, BadIs
  <2>4. FieldTypes' /\ ClientTypes' /\ MapTypes'
    BY <1>1, <2>1, <2>3 DEF FieldTypes, ClientTypes, MapTypes, clientVars, mapVars
  <2>5. OutTypes'
    <3>1. 6 \in 0..WRITE_BUFFER_SIZE /\ <<6>> \in Seq(Nat)
      BY SizesAssumption, ResponseFits
    <3>2. QED
      BY <1>1, <2>1, <2>3, <3>1 DEF OutTypes
  <2>6. PlaceTypes'
    BY <2>1, <2>3 DEF PlaceTypes, Codes
  <2>7. AnswerTypes'
    BY <1>1, <2>2, <2>3 DEF AnswerTypes
  <2>8. QED
    BY <2>2, <2>4, <2>5, <2>6, <2>7, TypeGroupsNext
<1>8. ASSUME ParseHeader(line) PROVE TypeOK'
  <2>1. GetLine("HEADER", line)
    BY <1>8 DEF ParseHeader
  <2>2. BufferTypes' /\ UNCHANGED <<bytes_have_send, answers, lateBody, discarded, abandoned>>
    BY <1>4, <2>1
  <2>3. FieldTypes'
    <3>1. /\ m_keepAlive' = (m_keepAlive \/ line.text = <<KeepAlive>>)
          /\ m_content_length' = IF line.text \in {<<h>> : h \in DOMAIN LengthOf}
                                    THEN LengthOf[Head(line.text)] ELSE m_content_length
          /\ UNCHANGED <<m_check_state, m_url>>
      BY <1>8 DEF ParseHeader
    <3>2. m_content_length' \in Nat
      <4>1. CASE line.text \in {<<h>> : h \in DOMAIN LengthOf}
        <5>1. PICK h \in DOMAIN LengthOf : line.text = <<h>>
          BY <4>1
        <5>2. Head(<<h>>) = h
          OBVIOUS
        <5>3. LengthOf[h] \in Nat
          BY LengthsAssumption
        <5>4. QED
          BY <3>1, <4>1, <5>1, <5>2, <5>3
      <4>2. CASE line.text \notin {<<h>> : h \in DOMAIN LengthOf}
        BY <1>1, <3>1, <4>2 DEF FieldTypes
      <4>3. QED
        BY <4>1, <4>2
    <3>3. m_keepAlive' \in BOOLEAN
      BY <3>1
    <3>4. QED
      BY <1>1, <3>1, <3>2, <3>3 DEF FieldTypes
  <2>4. line_status' = "OK" /\ UNCHANGED <<clientVars, outVars, mapVars, pc, ret, sent, tight>>
    BY <1>8 DEF ParseHeader
  <2>5. ClientTypes' /\ OutTypes' /\ MapTypes'
    BY <1>1, <2>4 DEF ClientTypes, OutTypes, MapTypes, clientVars, outVars, mapVars
  <2>6. PlaceTypes'
    BY <1>1, <2>4 DEF PlaceTypes
  <2>7. AnswerTypes'
    BY <1>1, <2>2, <2>4 DEF AnswerTypes
  <2>8. QED
    BY <2>2, <2>3, <2>5, <2>6, <2>7, TypeGroupsNext
<1>9. ASSUME AwaitContent(line) PROVE TypeOK'
  <2>1. GetLine("HEADER", line)
    BY <1>9 DEF AwaitContent
  <2>2. BufferTypes' /\ UNCHANGED <<bytes_have_send, answers, lateBody, discarded, abandoned>>
    BY <1>4, <2>1
  <2>3. FieldTypes'
    BY <1>1, <1>9 DEF AwaitContent, FieldTypes
  <2>4. line_status' = "OK" /\ UNCHANGED <<clientVars, outVars, mapVars, pc, ret, sent, tight>>
    BY <1>9 DEF AwaitContent
  <2>5. ClientTypes' /\ OutTypes' /\ MapTypes'
    BY <1>1, <2>4 DEF ClientTypes, OutTypes, MapTypes, clientVars, outVars, mapVars
  <2>6. PlaceTypes'
    BY <1>1, <2>4 DEF PlaceTypes
  <2>7. AnswerTypes'
    BY <1>1, <2>2, <2>4 DEF AnswerTypes
  <2>8. QED
    BY <2>2, <2>3, <2>5, <2>6, <2>7, TypeGroupsNext
<1>10. ASSUME EndOfHeader(line) PROVE TypeOK'
  <2>1. /\ GetLine("HEADER", line) /\ do_request /\ line_status' = "OK"
        /\ UNCHANGED <<m_check_state, m_content_length, m_keepAlive, m_url>>
    BY <1>10 DEF EndOfHeader
  <2>2. /\ BufferTypes' /\ UNCHANGED <<bytes_have_send, answers, lateBody, discarded, abandoned>>
        /\ pc = "parse" /\ m_write_idx = 0
    BY <1>4, <2>1
  <2>3. /\ ClientTypes' /\ OutTypes' /\ MapTypes' /\ pc' = "out"
        /\ ret' \in Codes /\ sent' = 0 /\ tight' = FALSE
    BY <2>1, <2>2, RequestTypes
  <2>4. FieldTypes'
    BY <1>1, <2>1 DEF FieldTypes
  <2>5. PlaceTypes'
    BY <2>1, <2>3 DEF PlaceTypes
  <2>6. AnswerTypes'
    BY <1>1, <2>2, <2>3 DEF AnswerTypes
  <2>7. QED
    BY <2>2, <2>3, <2>4, <2>5, <2>6, TypeGroupsNext
<1>11. ASSUME Content(line) PROVE TypeOK'
  <2>1. /\ GetLine("CONTENT", line) /\ do_request /\ line_status' = "OK"
        /\ UNCHANGED <<m_check_state, m_content_length, m_keepAlive, m_url>>
    BY <1>11 DEF Content
  <2>2. /\ BufferTypes' /\ UNCHANGED <<bytes_have_send, answers, lateBody, discarded, abandoned>>
        /\ pc = "parse" /\ m_write_idx = 0
    BY <1>4, <2>1
  <2>3. /\ ClientTypes' /\ OutTypes' /\ MapTypes' /\ pc' = "out"
        /\ ret' \in Codes /\ sent' = 0 /\ tight' = FALSE
    BY <2>1, <2>2, RequestTypes
  <2>4. FieldTypes'
    BY <1>1, <2>1 DEF FieldTypes
  <2>5. PlaceTypes'
    BY <2>1, <2>3 DEF PlaceTypes
  <2>6. AnswerTypes'
    BY <1>1, <2>2, <2>3 DEF AnswerTypes
  <2>7. QED
    BY <2>2, <2>3, <2>4, <2>5, <2>6, TypeGroupsNext
<1>12. ASSUME ContentIncomplete(line) PROVE TypeOK'
  <2>1. GetLine("CONTENT", line)
    BY <1>12 DEF ContentIncomplete
  <2>2. BufferTypes' /\ UNCHANGED <<bytes_have_send, answers, lateBody, discarded, abandoned>>
    BY <1>4, <2>1
  <2>3. FieldTypes'
    BY <1>1, <1>12 DEF ContentIncomplete, FieldTypes
  <2>4. line_status' = "OPEN" /\ UNCHANGED <<clientVars, outVars, mapVars, pc, ret, sent, tight>>
    BY <1>12 DEF ContentIncomplete
  <2>5. ClientTypes' /\ OutTypes' /\ MapTypes'
    BY <1>1, <2>4 DEF ClientTypes, OutTypes, MapTypes, clientVars, outVars, mapVars
  <2>6. PlaceTypes'
    BY <1>1, <2>4 DEF PlaceTypes
  <2>7. AnswerTypes'
    BY <1>1, <2>2, <2>4 DEF AnswerTypes
  <2>8. QED
    BY <2>2, <2>3, <2>5, <2>6, <2>7, TypeGroupsNext
<1>13. QED
  BY <1>2, <1>5, <1>6, <1>7, <1>8, <1>9, <1>10, <1>11, <1>12

\* The steps of the client keep the types.
LEMMA ClientStepTypes ==
    ASSUME TypeOK, (\E s \in Scripts : Connect(s)) \/ Drain \/ Hangup
    PROVE  TypeOK'
<1>1. /\ ClientTypes /\ BufferTypes /\ FieldTypes /\ OutTypes /\ MapTypes /\ PlaceTypes /\ AnswerTypes
  BY TypeGroups
<1>2. SendBuffer \in 0..SendBuffer /\ MaxConns \in Nat
  BY SizesAssumption
<1>3. ASSUME NEW s \in Scripts, Connect(s) PROVE TypeOK'
  <2>1. /\ conns < MaxConns /\ conns' = conns + 1 /\ toSend' = FlattenSeq(s) /\ room' = SendBuffer
        /\ Reset /\ pc' = "in"
        /\ answers' = <<>> /\ tight' = FALSE /\ sent' = 0 /\ lateBody' = FALSE /\ discarded' = FALSE
        /\ UNCHANGED <<m_iv, m_file_stat, mapVars, localVars, abandoned>>
    BY <1>3 DEF Connect
  <2>2. ClientTypes'
    <3>1. s \in Seq(Symbols) /\ FlattenSeq(s) \in Symbols
      BY ScriptsAssumption, FlattenType DEF Symbols
    <3>2. QED
      BY <1>1, <1>2, <2>1, <3>1 DEF ClientTypes, Symbols
  <2>3. BufferTypes' /\ FieldTypes' /\ m_write_idx' \in 0..WRITE_BUFFER_SIZE
    BY <2>1, ResetTypes
  <2>4. OutTypes' /\ MapTypes'
    BY <1>1, <2>1, <2>3 DEF OutTypes, MapTypes, mapVars
  <2>5. PlaceTypes'
    BY <1>1, <2>1 DEF PlaceTypes, localVars
  <2>6. AnswerTypes'
    <3>1. answers' \in Seq(Codes) /\ sent' \in Nat
      BY <2>1
    <3>2. tight' \in BOOLEAN /\ lateBody' \in BOOLEAN /\ discarded' \in BOOLEAN
      BY <2>1
    <3>3. bytes_have_send' \in Nat /\ abandoned' \in BOOLEAN
      BY <1>1, <2>1 DEF AnswerTypes, localVars
    <3>4. QED
      BY <3>1, <3>2, <3>3 DEF AnswerTypes
  <2>7. QED
    BY <2>2, <2>3, <2>4, <2>5, <2>6, TypeGroupsNext
<1>4. ASSUME Drain PROVE TypeOK'
  <2>1. /\ room' = SendBuffer
        /\ UNCHANGED <<conns, script, toSend, m_read_buf, parseVars, outVars, mapVars, pc, localVars, history>>
    BY <1>4 DEF Drain
  <2>2. ClientTypes'
    BY <1>1, <1>2, <2>1 DEF ClientTypes
  <2>3. BufferTypes' /\ FieldTypes' /\ OutTypes' /\ MapTypes'
    BY <1>1, <2>1 DEF BufferTypes, FieldTypes, OutTypes, MapTypes, m_read_idx, parseVars, outVars, mapVars
  <2>4. PlaceTypes' /\ AnswerTypes'
    BY <1>1, <2>1 DEF PlaceTypes, AnswerTypes, localVars, history
  <2>5. QED
    BY <2>2, <2>3, <2>4, TypeGroupsNext
<1>5. ASSUME Hangup PROVE TypeOK'
  <2>1. /\ pc' = "closed" /\ toSend' = <<>> /\ UNCHANGED <<conns, room>>
        /\ abandoned' = (abandoned \/ mapped # {})
        /\ UNCHANGED <<m_read_buf, parseVars, outVars, mapVars, localVars,
                       sent, answers, tight, lateBody, discarded>>
    BY <1>5 DEF Hangup, CloseConn
  <2>2. ClientTypes'
    BY <1>1, <2>1 DEF ClientTypes
  <2>3. BufferTypes' /\ FieldTypes' /\ OutTypes' /\ MapTypes'
    BY <1>1, <2>1 DEF BufferTypes, FieldTypes, OutTypes, MapTypes, m_read_idx, parseVars, outVars, mapVars
  <2>4. PlaceTypes'
    BY <1>1, <2>1 DEF PlaceTypes, localVars
  <2>5. AnswerTypes'
    <3>1. abandoned' \in BOOLEAN
      BY <2>1
    <3>2. QED
      BY <1>1, <2>1, <3>1 DEF AnswerTypes, localVars
  <2>6. QED
    BY <2>2, <2>3, <2>4, <2>5, TypeGroupsNext
<1>6. QED
  BY <1>3, <1>4, <1>5

\* A step of write() keeps the types.
LEMMA WriteTypes ==
    ASSUME TypeOK, pc \in {"out", "sending"} => ResponseInv, write
    PROVE  TypeOK'
<1>1. /\ ClientTypes /\ BufferTypes /\ FieldTypes /\ OutTypes /\ MapTypes /\ PlaceTypes /\ AnswerTypes
  BY TypeGroups
<1>2. ASSUME unmap PROVE MapTypes'
  BY <1>1, <1>2 DEF unmap, MapTypes, NULL
<1>3. ASSUME Send
      PROVE  /\ bytes_have_send' \in Nat /\ room' \in 0..SendBuffer /\ tight' \in BOOLEAN
             /\ Taken \in Nat /\ pc = "sending"
  <2>1. /\ pc = "sending" /\ room' = room - Taken /\ bytes_have_send' = bytes_have_send + Taken
        /\ tight' = (tight \/ Taken < Total)
    BY <1>3 DEF Send
  <2>2. Taken \in Nat /\ Taken <= room
    BY <2>1, TakenIs
  <2>3. room \in Nat /\ room <= SendBuffer /\ SendBuffer \in Nat /\ bytes_have_send \in Nat
    BY <1>1, SizesAssumption DEF ClientTypes, AnswerTypes
  <2>4. QED
    BY <2>1, <2>2, <2>3
<1>4. ASSUME WriteBegin PROVE TypeOK'
  <2>1. /\ \/ pc' = "in" /\ Reset /\ UNCHANGED bytes_have_send
           \/ /\ pc' = "sending" /\ bytes_have_send' = 0
              /\ UNCHANGED <<m_read_buf, parseVars, m_write_idx>>
        /\ UNCHANGED <<clientVars, m_iv, m_file_stat, mapVars, line_status, ret, history>>
    BY <1>4 DEF WriteBegin
  <2>2. BufferTypes' /\ FieldTypes' /\ m_write_idx' \in 0..WRITE_BUFFER_SIZE
    <3>1. CASE Reset
      BY <3>1, ResetTypes
    <3>2. CASE UNCHANGED <<m_read_buf, parseVars, m_write_idx>>
      BY <1>1, <3>2 DEF BufferTypes, FieldTypes, OutTypes, m_read_idx, parseVars
    <3>3. QED
      BY <2>1, <3>1, <3>2
  <2>3. ClientTypes' /\ OutTypes' /\ MapTypes'
    BY <1>1, <2>1, <2>2 DEF ClientTypes, OutTypes, MapTypes, clientVars, mapVars
  <2>4. PlaceTypes'
    BY <1>1, <2>1 DEF PlaceTypes
  <2>5. AnswerTypes'
    BY <1>1, <2>1 DEF AnswerTypes, history
  <2>6. QED
    BY <2>2, <2>3, <2>4, <2>5, TypeGroupsNext
<1>5. ASSUME Writev PROVE TypeOK'
  <2>1. /\ Send /\ sent' = sent + Taken
        /\ UNCHANGED <<conns, script, toSend, m_read_buf, parseVars, outVars, mapVars, pc, line_status,
                       ret, answers, lateBody, discarded, abandoned>>
    BY <1>5 DEF Writev
  <2>2. /\ bytes_have_send' \in Nat /\ room' \in 0..SendBuffer /\ tight' \in BOOLEAN /\ Taken \in Nat
    BY <1>3, <2>1
  <2>3. ClientTypes' /\ BufferTypes' /\ FieldTypes' /\ OutTypes' /\ MapTypes'
    BY <1>1, <2>1, <2>2 DEF ClientTypes, BufferTypes, FieldTypes, OutTypes, MapTypes, m_read_idx,
                            parseVars, outVars, mapVars
  <2>4. PlaceTypes'
    BY <1>1, <2>1 DEF PlaceTypes
  <2>5. AnswerTypes'
    <3>1. sent \in Nat
      BY <1>1 DEF AnswerTypes
    <3>2. sent' \in Nat
      BY <2>1, <2>2, <3>1
    <3>3. QED
      BY <1>1, <2>1, <2>2, <3>2 DEF AnswerTypes
  <2>6. QED
    BY <2>3, <2>4, <2>5, TypeGroupsNext
<1>6. ASSUME WritevLast PROVE TypeOK'
  <2>1. /\ Send /\ unmap /\ sent' = 0 /\ answers' = Append(answers, ret)
        /\ \/ /\ Reset /\ pc' = "in" /\ discarded' \in BOOLEAN /\ UNCHANGED toSend
           \/ /\ pc' = "closed" /\ toSend' = <<>>
              /\ UNCHANGED <<m_read_buf, parseVars, m_write_idx, discarded>>
        /\ UNCHANGED <<conns, m_iv, m_file_stat, line_status, ret, lateBody, abandoned>>
    <3>1. discarded' = (discarded \/ m_read_idx > Len(script[Len(answers) + 1])) => discarded' \in BOOLEAN
      OBVIOUS
    <3>2. QED
      BY <1>6, <3>1 DEF WritevLast
  <2>2. /\ bytes_have_send' \in Nat /\ room' \in 0..SendBuffer /\ tight' \in BOOLEAN /\ pc = "sending"
    BY <1>3, <2>1
  <2>3. BufferTypes' /\ FieldTypes' /\ m_write_idx' \in 0..WRITE_BUFFER_SIZE
    <3>1. CASE Reset
      BY <3>1, ResetTypes
    <3>2. CASE UNCHANGED <<m_read_buf, parseVars, m_write_idx>>
      BY <1>1, <3>2 DEF BufferTypes, FieldTypes, OutTypes, m_read_idx, parseVars
    <3>3. QED
      BY <2>1, <3>1, <3>2
  <2>4. MapTypes'
    BY <1>2, <2>1
  <2>5. ClientTypes' /\ OutTypes'
    <3>1. toSend' \in Seq(STRING)
      <4>1. toSend' = toSend \/ toSend' = <<>>
        BY <2>1
      <4>2. toSend \in Seq(STRING) /\ <<>> \in Seq(STRING)
        BY <1>1 DEF ClientTypes
      <4>3. QED
        BY <4>1, <4>2
    <3>2. QED
      BY <1>1, <2>1, <2>2, <2>3, <3>1 DEF ClientTypes, OutTypes
  <2>6. PlaceTypes'
    BY <1>1, <2>1 DEF PlaceTypes
  <2>7. AnswerTypes'
    <3>1. answers' \in Seq(Codes)
      BY <1>1, <2>1 DEF AnswerTypes, PlaceTypes
    <3>2. discarded' \in BOOLEAN
      BY <1>1, <2>1 DEF AnswerTypes
    <3>3. QED
      BY <1>1, <2>1, <2>2, <3>1, <3>2 DEF AnswerTypes
  <2>8. QED
    BY <2>3, <2>4, <2>5, <2>6, <2>7, TypeGroupsNext
<1>7. ASSUME WriteAgain PROVE TypeOK'
  <2>1. /\ pc' = "out"
        /\ UNCHANGED <<clientVars, m_read_buf, parseVars, outVars, mapVars, localVars, history>>
    BY <1>7 DEF WriteAgain
  <2>2. ClientTypes' /\ BufferTypes' /\ FieldTypes' /\ OutTypes' /\ MapTypes'
    BY <1>1, <2>1 DEF ClientTypes, BufferTypes, FieldTypes, OutTypes, MapTypes, m_read_idx,
                      clientVars, parseVars, outVars, mapVars
  <2>3. PlaceTypes' /\ AnswerTypes'
    BY <1>1, <2>1 DEF PlaceTypes, AnswerTypes, localVars, history
  <2>4. QED
    BY <2>2, <2>3, TypeGroupsNext
<1>8. ASSUME WriteError PROVE TypeOK'
  <2>1. /\ unmap /\ pc' = "closed" /\ toSend' = <<>> /\ UNCHANGED <<conns, room>>
        /\ UNCHANGED <<m_read_buf, parseVars, outVars, localVars, history>>
    BY <1>8 DEF WriteError, CloseConn
  <2>2. ClientTypes' /\ BufferTypes' /\ FieldTypes' /\ OutTypes'
    BY <1>1, <2>1 DEF ClientTypes, BufferTypes, FieldTypes, OutTypes, m_read_idx, parseVars, outVars
  <2>3. PlaceTypes' /\ AnswerTypes'
    BY <1>1, <2>1 DEF PlaceTypes, AnswerTypes, localVars, history
  <2>4. QED
    BY <1>2, <2>1, <2>2, <2>3, TypeGroupsNext
<1>9. QED
  BY <1>4, <1>5, <1>6, <1>7, <1>8 DEF write

-------------------------------------------------------------------------------
(* Mappings *)

\* Mappings that are not touched count as before.
LEMMA MapsKept ==
    ASSUME MapInv, UNCHANGED <<conns, m_file_stat, mapVars>>,
           \/ pc' = "closed"
           \/ pc \in {"in", "parse"} /\ pc' \in {"in", "parse"}
           \/ pc \in {"out", "sending"} /\ pc' \in {"out", "sending"}
    PROVE  MapInv'
<1>1. mapped' = mapped /\ InHand' = InHand /\ conns' = conns
  BY DEF mapVars, InHand
<1>2. QED
  BY <1>1 DEF MapInv

\* Nor is one left behind while the connection is in use.
LEMMA HandKept ==
    ASSUME MappedWhileSending, UNCHANGED <<m_file_stat, mapVars, abandoned>>,
           pc \notin {"out", "sending"} \/ pc' \in {"out", "sending"}
    PROVE  MappedWhileSending'
<1>1. mapped' = mapped /\ m_file_address' = m_file_address /\ m_file_stat' = m_file_stat
  BY DEF mapVars
<1>2. QED
  BY <1>1 DEF MappedWhileSending

\* When a response is done with, its mapping is, and those left behind are fewer than the
\* connections so far.
LEMMA Unmapped ==
    ASSUME MapInv, MappedWhileSending, pc \in {"out", "sending"}, unmap, UNCHANGED <<conns, abandoned>>
    PROVE  /\ IsFiniteSet(mapped') /\ Cardinality(mapped') < conns
           /\ ~abandoned' => mapped' = {} /\ ~(m_file_address' > NULL)
<1>1. m_file_address' = 0 /\ mapped' = mapped \ InHand
  BY DEF unmap, InHand, NULL
<1>2. IsFiniteSet(mapped \ InHand)
  BY FS_Subset DEF MapInv
<1>3. Cardinality(mapped') < conns
  BY <1>1 DEF MapInv
<1>4. ~abandoned' => mapped' = {}
  BY <1>1 DEF MappedWhileSending, InHand
<1>5. QED
  BY <1>1, <1>2, <1>3, <1>4 DEF NULL

\* do_request() maps one file or none, and there was none in hand.
LEMMA RequestMaps ==
    ASSUME TypeOK, MapInv, MappedWhileSending, pc = "parse", m_write_idx = 0, do_request,
           UNCHANGED abandoned
    PROVE  MapInv' /\ MappedWhileSending'
<1>1. /\ pc' = "out" /\ conns' = conns
      /\ \/ UNCHANGED mapVars
         \/ m_file_address' = MAP_FAILED /\ UNCHANGED mapped
         \/ /\ m_file_address' \in Nat \ {NULL} /\ m_file_stat' # 0
            /\ mapped' = mapped \union {[at |-> m_file_address', size |-> m_file_stat']}
  BY RequestIs DEF clientVars
<1>2. IsFiniteSet(mapped) /\ Cardinality(mapped) < conns
  BY DEF MapInv
<1>3. Cardinality(mapped) \in Nat /\ conns \in Nat
  BY <1>2, FS_CardinalityType DEF TypeOK
<1>4. ~abandoned => mapped = {} /\ ~(m_file_address > NULL)
  BY DEF MappedWhileSending
<1>5. CASE mapped' = mapped /\ (m_file_address' = m_file_address \/ m_file_address' = MAP_FAILED)
  <2>1. IsFiniteSet(mapped \ InHand') /\ Cardinality(mapped \ InHand') <= Cardinality(mapped)
    BY <1>2, FS_Subset
  <2>2. Cardinality(mapped \ InHand') \in Nat
    BY <2>1, FS_CardinalityType
  <2>3. Cardinality(mapped \ InHand') < conns
    BY <1>2, <1>3, <2>1, <2>2
  <2>4. MapInv'
    <3>1. (mapped \ InHand)' = mapped \ InHand'
      BY <1>5
    <3>2. Cardinality(mapped) <= conns
      BY <1>2, <1>3
    <3>3. QED
      BY <1>1, <1>2, <1>5, <2>3, <3>1, <3>2 DEF MapInv
  <2>5. ~abandoned => ~(m_file_address' > NULL)
    BY <1>4, <1>5 DEF MAP_FAILED, NULL
  <2>6. QED
    BY <1>1, <1>4, <1>5, <2>4, <2>5 DEF MappedWhileSending
<1>6. CASE /\ m_file_address' \in Nat \ {NULL} /\ m_file_stat' # 0
           /\ mapped' = mapped \union {[at |-> m_file_address', size |-> m_file_stat']}
  <2> DEFINE new == [at |-> m_file_address', size |-> m_file_stat']
  <2>1. mapped' = mapped \union {new} /\ InHand' = {new}
    BY <1>6 DEF InHand
  <2> HIDE DEF new
  <2>2. /\ IsFiniteSet(mapped \union {new})
        /\ Cardinality(mapped \union {new}) = IF new \in mapped THEN Cardinality(mapped)
                                                                ELSE Cardinality(mapped) + 1
    BY <1>2, FS_AddElement
  <2>3. Cardinality(mapped') <= conns /\ IsFiniteSet(mapped')
    BY <1>2, <1>3, <2>1, <2>2
  <2>4. mapped' \ InHand' \subseteq mapped
    BY <2>1
  <2>5. /\ IsFiniteSet(mapped' \ InHand') /\ Cardinality(mapped' \ InHand') <= Cardinality(mapped)
    BY <1>2, <2>4, FS_Subset
  <2>6. Cardinality(mapped' \ InHand') \in Nat
    BY <2>5, FS_CardinalityType
  <2>7. Cardinality(mapped' \ InHand') < conns
    BY <1>2, <1>3, <2>5, <2>6
  <2>8. MapInv'
    BY <1>1, <2>3, <2>7 DEF MapInv
  <2>9. ~abandoned => mapped' = {[at |-> m_file_address', size |-> m_file_stat']}
    BY <1>4, <1>6
  <2>10. m_file_address' > NULL
    BY <1>6 DEF NULL
  <2>11. QED
    BY <1>1, <2>8, <2>9, <2>10 DEF MappedWhileSending
<1>7. QED
  BY <1>1, <1>5, <1>6 DEF mapVars

\* Every step keeps account of the mappings.
LEMMA MapStep ==
    ASSUME TypeOK, ParserInv, MapInv, MappedWhileSending, Next
    PROVE  MapInv' /\ MappedWhileSending'
<1>1. pc = "parse" => m_write_idx = 0
  BY DEF ParserInv
<1>2. ASSUME NEW s \in Scripts, Connect(s) PROVE MapInv' /\ MappedWhileSending'
  <2>1. /\ pc = "closed" /\ pc' = "in" /\ conns' = conns + 1
        /\ UNCHANGED <<m_file_stat, mapVars, abandoned>>
    BY <1>2 DEF Connect
  <2>2. IsFiniteSet(mapped) /\ Cardinality(mapped) <= conns /\ conns \in Nat /\ Cardinality(mapped) \in Nat
    BY FS_CardinalityType DEF MapInv, TypeOK
  <2>3. Cardinality(mapped) < conns + 1 /\ Cardinality(mapped) <= conns + 1
    BY <2>2
  <2>4. mapped' = mapped
    BY <2>1 DEF mapVars
  <2>5. QED
    BY <2>1, <2>2, <2>3, <2>4, HandKept DEF MapInv
<1>3. ASSUME Drain PROVE MapInv' /\ MappedWhileSending'
  <2>1. UNCHANGED <<conns, m_file_stat, mapVars, abandoned, pc>> /\ pc \in {"out", "sending"}
    BY <1>3 DEF Drain, outVars, history
  <2>2. QED
    BY <2>1, MapsKept, HandKept
<1>4. ASSUME Hangup PROVE MapInv' /\ MappedWhileSending'
  <2>1. /\ UNCHANGED <<conns, m_file_stat, mapVars>> /\ pc' = "closed"
        /\ abandoned' = (abandoned \/ mapped # {})
    BY <1>4 DEF Hangup, CloseConn, outVars
  <2>2. MapInv'
    BY <2>1, MapsKept
  <2>3. MappedWhileSending'
    <3>1. mapped' = mapped /\ m_file_address' = m_file_address /\ m_file_stat' = m_file_stat
      BY <2>1 DEF mapVars
    <3>2. QED
      BY <2>1, <3>1 DEF MappedWhileSending
  <2>4. QED
    BY <2>2, <2>3
<1>5. ASSUME read PROVE MapInv' /\ MappedWhileSending'
  <2>1. /\ UNCHANGED <<conns, m_file_stat, mapVars, abandoned>>
        /\ pc = "in" /\ pc' \in {"parse", "closed"}
    BY <1>5 DEF read, Read, ReadFull, CloseConn, outVars, history
  <2>2. QED
    BY <2>1, MapsKept, HandKept
<1>6. ASSUME process PROVE MapInv' /\ MappedWhileSending'
  <2>1. PICK line \in {Scan} :
         \/ NoLine(line) \/ ParseRequestLine(line) \/ BadRequestLine(line) \/ ParseHeader(line)
         \/ AwaitContent(line) \/ EndOfHeader(line) \/ Content(line) \/ ContentIncomplete(line)
    BY <1>6 DEF process
  <2>2. ASSUME NoLine(line) PROVE MapInv' /\ MappedWhileSending'
    <3>1. UNCHANGED <<conns, m_file_stat, mapVars, abandoned>> /\ pc = "parse" /\ pc' = "in"
      BY <2>2 DEF NoLine, clientVars, outVars, history
    <3>2. QED
      BY <3>1, MapsKept, HandKept
  <2>3. ASSUME ParseRequestLine(line) \/ ParseHeader(line) \/ AwaitContent(line) \/ ContentIncomplete(line)
        PROVE  MapInv' /\ MappedWhileSending'
    <3>1. UNCHANGED <<conns, m_file_stat, mapVars, abandoned>> /\ pc = "parse" /\ pc' = "parse"
      BY <2>3 DEF ParseRequestLine, ParseHeader, AwaitContent, ContentIncomplete, GetLine,
                  clientVars, outVars
    <3>2. QED
      BY <3>1, MapsKept, HandKept
  <2>4. ASSUME EndOfHeader(line) \/ Content(line) PROVE MapInv' /\ MappedWhileSending'
    <3>1. do_request /\ pc = "parse" /\ UNCHANGED abandoned
      BY <2>4 DEF EndOfHeader, Content, GetLine
    <3>2. QED
      BY <1>1, <3>1, RequestMaps
  <2>5. ASSUME BadRequestLine(line) PROVE MapInv' /\ MappedWhileSending'
    <3>1. /\ pc = "parse" /\ Respond("BAD_REQUEST", 0)
          /\ UNCHANGED <<m_file_stat, mapVars, abandoned>>
      BY <2>5 DEF BadRequestLine, GetLine
    <3>2. pc' = "out" /\ conns' = conns
      BY <1>1, <3>1, BadIs DEF clientVars
    <3>3. mapped' = mapped /\ InHand' = InHand /\ mapped' \ InHand' \subseteq mapped
      BY <3>1 DEF mapVars, InHand
    <3>4. IsFiniteSet(mapped) /\ Cardinality(mapped) < conns /\ Cardinality(mapped) \in Nat /\ conns \in Nat
      BY <3>1, FS_CardinalityType DEF MapInv, TypeOK
    <3>5. Cardinality(mapped \ InHand) <= Cardinality(mapped) /\ Cardinality(mapped \ InHand) \in Nat
      BY <3>4, FS_Subset, FS_CardinalityType
    <3>6. Cardinality(mapped \ InHand) < conns /\ Cardinality(mapped) <= conns
      BY <3>4, <3>5
    <3>7. MapInv'
      BY <3>2, <3>3, <3>4, <3>6 DEF MapInv
    <3>8. QED
      BY <3>1, <3>7, HandKept
  <2>6. QED
    BY <2>1, <2>2, <2>3, <2>4, <2>5
<1>7. ASSUME WriteBegin \/ Writev \/ WriteAgain PROVE MapInv' /\ MappedWhileSending'
  <2>1. pc \in {"out", "sending"} => m_write_idx # 0
    BY DEF ParserInv, ResponseInv, HeaderLength
  <2>2. /\ UNCHANGED <<conns, m_file_stat, mapVars, abandoned>>
        /\ pc \in {"out", "sending"} /\ pc' \in {"out", "sending"}
    BY <1>7, <2>1 DEF WriteBegin, Writev, WriteAgain, Send, clientVars, outVars, history
  <2>3. QED
    BY <2>2, MapsKept, HandKept
<1>8. ASSUME WritevLast \/ WriteError PROVE MapInv' /\ MappedWhileSending'
  <2>1. /\ unmap /\ UNCHANGED <<conns, abandoned>> /\ pc \in {"out", "sending"}
        /\ pc' \in {"in", "closed"}
    BY <1>8 DEF WritevLast, WriteError, Send, CloseConn, history
  <2>2. /\ IsFiniteSet(mapped') /\ Cardinality(mapped') < conns
        /\ ~abandoned' => mapped' = {} /\ ~(m_file_address' > NULL)
    BY <2>1, Unmapped
  <2>3. Cardinality(mapped') \in Nat /\ conns \in Nat
    BY <2>2, FS_CardinalityType DEF TypeOK
  <2>4. Cardinality(mapped') <= conns
    BY <2>2, <2>3
  <2>5. QED
    BY <2>1, <2>2, <2>4 DEF MapInv, MappedWhileSending
<1>9. QED
  BY <1>2, <1>3, <1>4, <1>5, <1>6, <1>7, <1>8 DEF Next, write

-------------------------------------------------------------------------------
(* The parser *)

\* Nothing was received, nothing is to be answered; and so it is after a reset.
LEMMA ResetParser ==
    ASSUME Reset, pc' = "in"
    PROVE  ParserInv'
<1>1. Len(<<>>) = 0 /\ <<>> \in Symbols
  BY DEF Symbols
<1>2. LineEnds(<<>>) = {}
  BY <1>1 DEF LineEnds
<1>3. Verdict(<<>>) = "NO_REQUEST"
  BY <1>2 DEF Verdict
<1>4. Even(<<>>, 0 + 1, 0)
  BY DEF Even
<1>5. /\ m_read_buf' = <<>> /\ m_checked_idx' = 0 /\ m_start_line' = 0
      /\ m_check_state' = "REQUESTLINE" /\ m_content_length' = 0 /\ m_keepAlive' = FALSE
      /\ m_write_idx' = 0
  BY DEF Reset
<1>6. LineInv' /\ BodyInv'
  BY <1>4, <1>5 DEF LineInv, BodyInv
<1>7. QED
  BY <1>3, <1>5, <1>6 DEF ParserInv

\* A parser that waits for a line is where no line ends and none has begun to end.
LEMMA IsLooking ==
    ASSUME TypeOK, LineInv, m_check_state # "CONTENT"
    PROVE  /\ Looking
           /\ m_start_line = 0 \/ Begun(m_read_buf, m_start_line)
<1>1. /\ m_read_buf \in Symbols /\ m_checked_idx \in Nat /\ m_start_line \in Nat /\ m_start_line <= m_checked_idx
      /\ m_check_state \in {"REQUESTLINE", "HEADER"}
  BY Indexes DEF TypeOK
<1>2. m_start_line = 0 \/ Begun(m_read_buf, m_start_line)
  BY <1>1 DEF LineInv
<1>3. Even(m_read_buf, m_start_line + 1, m_checked_idx)
  BY DEF LineInv
<1>4. CASE m_checked_idx # m_start_line
  <2>1. m_checked_idx \in m_start_line + 1..m_checked_idx
    BY <1>1, <1>4
  <2>2. QED
    BY <1>2, <1>3, <2>1 DEF Even, Looking
<1>5. CASE m_checked_idx = m_start_line /\ m_start_line # 0
  <2>1. m_read_buf[(m_start_line - 1) + 1] = "LF"
    BY <1>1, <1>2, <1>5, LineEndsAre DEF Begun
  <2>2. (m_start_line - 1) + 1 = m_start_line
    BY <1>1
  <2>3. QED
    BY <1>2, <1>3, <1>5, <2>1, <2>2 DEF Looking
<1>6. CASE m_checked_idx = 0
  BY <1>2, <1>3, <1>6 DEF Looking
<1>7. QED
  BY <1>4, <1>5, <1>6

\* More input leaves what was parsed as it was.
LEMMA ReadParser ==
    ASSUME TypeOK, ParserInv, NEW n \in 1..Len(toSend), Read(n)
    PROVE  ParserInv'
<1> DEFINE s == m_read_buf
           w == m_read_buf \o SubSeq(toSend, 1, n)
<1>1. /\ pc = "in" /\ pc' = "parse" /\ line_status' = "OK" /\ m_read_buf' = w
      /\ lateBody' = (lateBody \/ m_check_state = "CONTENT")
      /\ UNCHANGED <<parseVars, m_write_idx>>
  BY DEF Read, outVars
<1>2. LineInv /\ m_write_idx = 0
  BY <1>1 DEF ParserInv
<1>3. s \in Symbols /\ w \in Symbols /\ Starts(s, w)
  <2>1. s \in Seq(STRING) /\ toSend \in Seq(STRING)
    BY DEF TypeOK
  <2>2. SubSeq(toSend, 1, n) \in Seq(STRING)
    BY <2>1
  <2>3. Len(w) = Len(s) + Len(SubSeq(toSend, 1, n)) /\ w \in Seq(STRING)
    BY <2>1, <2>2
  <2>4. Len(s) \in Nat /\ Len(SubSeq(toSend, 1, n)) \in Nat
    BY <2>1, <2>2
  <2>5. \A i \in 1..Len(s) : w[i] = s[i]
    BY <2>1, <2>2
  <2>6. QED
    BY <2>1, <2>3, <2>4, <2>5 DEF Starts, Symbols
<1>4. m_start_line \in Nat /\ m_checked_idx \in Nat /\ m_checked_idx <= Len(s) /\ Len(s) \in Nat
  BY Indexes
<1> HIDE DEF s, w
<1>5. /\ m_check_state' = m_check_state /\ m_start_line' = m_start_line /\ m_checked_idx' = m_checked_idx
      /\ m_content_length' = m_content_length /\ m_keepAlive' = m_keepAlive /\ m_url' = m_url
      /\ m_write_idx' = 0
  BY <1>1, <1>2 DEF parseVars
<1>6. ASSUME m_check_state = "HEADER"
      PROVE  /\ Begun(w, m_start_line) /\ m_url = Asked(w)
             /\ m_content_length = BodyLength(w, m_start_line)
             /\ m_keepAlive <=> Wished(w, m_start_line)
  <2>1. /\ Begun(s, m_start_line) /\ m_url = Asked(s)
        /\ m_content_length = BodyLength(s, m_start_line)
        /\ m_keepAlive <=> Wished(s, m_start_line)
    BY <1>2, <1>6 DEF LineInv, s
  <2>2. QED
    BY <1>3, <1>4, <2>1, BegunKept
<1>7. ASSUME m_check_state = "CONTENT"
      PROVE  /\ Headed(w) /\ m_url = Asked(w)
             /\ m_content_length = BodyLength(w, HeadLength(w) - 3)
             /\ m_keepAlive <=> StaysOpen(w)
             /\ m_checked_idx >= HeadLength(w)
  <2>1. /\ Headed(s) /\ m_url = Asked(s)
        /\ m_content_length = BodyLength(s, HeadLength(s) - 3)
        /\ m_keepAlive <=> StaysOpen(s)
        /\ m_checked_idx >= HeadLength(s)
    BY <1>2, <1>7 DEF LineInv, s
  <2>2. QED
    BY <1>3, <2>1, HeadedKept
<1>8. ASSUME m_check_state # "CONTENT" PROVE Even(w, m_start_line + 1, m_checked_idx)
  <2>1. Even(s, m_start_line + 1, m_checked_idx)
    BY <1>2, <1>8 DEF LineInv, s
  <2>2. \A k \in m_start_line + 1..m_checked_idx : k \in 1..Len(s) /\ w[k] = s[k]
    BY <1>3, <1>4 DEF Starts
  <2>3. QED
    BY <2>1, <2>2 DEF Even
<1>9. LineInv'
  BY <1>1, <1>2, <1>5, <1>6, <1>7, <1>8 DEF LineInv
<1>10. BodyInv'
  BY <1>1, <1>5 DEF BodyInv
<1>11. QED
  BY <1>1, <1>5, <1>9, <1>10 DEF ParserInv

\* Where no line is found there is nothing to answer yet.
LEMMA NoLineParser ==
    ASSUME TypeOK, ParserInv, NEW line, line = Scan, NoLine(line)
    PROVE  ParserInv'
<1>1. /\ pc = "parse" /\ line.status # "OK"
      /\ m_checked_idx' = line.checked /\ line_status' = line.status /\ pc' = "in"
      /\ UNCHANGED <<m_read_buf, m_start_line, m_check_state, m_content_length,
                     m_keepAlive, m_url, m_write_idx, lateBody>>
  BY DEF NoLine, outVars, history
<1>2. LineInv /\ BodyInv /\ m_write_idx = 0
  BY <1>1 DEF ParserInv
<1>3. /\ m_read_buf \in Symbols /\ m_start_line \in Nat /\ m_checked_idx \in Nat /\ m_read_idx \in Nat
      /\ m_start_line <= m_checked_idx /\ m_read_idx = Len(m_read_buf)
  BY Indexes
<1>4. CASE m_check_state # "CONTENT"
  <2>1. line = parse_line
    BY <1>4, ScanBounds
  <2>2. Looking /\ (m_start_line = 0 \/ Begun(m_read_buf, m_start_line))
    BY <1>2, <1>4, IsLooking
  <2>3. FoundNone(line)
    BY <1>1, <2>1, <2>2, ScanResult
  <2>4. /\ line.checked \in m_checked_idx..m_read_idx
        /\ Even(m_read_buf, m_start_line + 1, line.checked)
        /\ Stuck(m_read_buf, line.checked)
    BY <2>3 DEF FoundNone
  <2>5. line.checked \in Nat /\ m_start_line <= line.checked /\ line.checked <= Len(m_read_buf)
    BY <1>3, <2>4
  <2>6. Verdict(m_read_buf) = "NO_REQUEST"
    BY <1>3, <2>2, <2>4, <2>5, NoVerdict
  <2>7. LineInv'
    BY <1>1, <1>2, <1>4, <2>4 DEF LineInv
  <2>8. BodyInv'
    BY <1>1, <1>4 DEF BodyInv
  <2>9. QED
    BY <1>1, <1>2, <2>6, <2>7, <2>8 DEF ParserInv
<1>5. CASE m_check_state = "CONTENT"
  <2>1. line_status # "OK" /\ line.checked \in m_checked_idx..m_read_idx
    BY <1>1, <1>5, ScanBounds
  <2>2. /\ Headed(m_read_buf) /\ m_checked_idx >= HeadLength(m_read_buf)
        /\ m_content_length = BodyLength(m_read_buf, HeadLength(m_read_buf) - 3)
    BY <1>2, <1>5 DEF LineInv
  <2>3. /\ HeadLength(m_read_buf) \in 4..Len(m_read_buf)
        /\ Verdict(m_read_buf) = IF Len(m_read_buf) - HeadLength(m_read_buf)
                                      >= BodyLength(m_read_buf, HeadLength(m_read_buf) - 3)
                                    THEN Answer(Asked(m_read_buf)) ELSE "NO_REQUEST"
    BY <1>3, <2>2, VerdictHeaded
  <2>4. HeadLength(m_read_buf) \in Nat /\ m_content_length \in Nat
    BY <2>3 DEF TypeOK
  <2>5. line.checked >= HeadLength(m_read_buf)
    BY <1>3, <2>1, <2>2, <2>4
  <2>6. ~lateBody => m_read_idx < HeadLength(m_read_buf) + m_content_length
    BY <1>1, <1>2, <1>5, <2>1 DEF BodyInv
  <2>7. ~lateBody => Verdict(m_read_buf) = "NO_REQUEST"
    BY <1>3, <2>2, <2>3, <2>4, <2>6
  <2>8. LineInv'
    BY <1>1, <1>2, <1>5, <2>5 DEF LineInv
  <2>9. BodyInv'
    <3>1. m_read_idx' = m_read_idx
      BY <1>1 DEF m_read_idx
    <3>2. QED
      BY <1>1, <1>5, <2>6, <3>1 DEF BodyInv
  <2>10. QED
    BY <1>1, <1>2, <2>7, <2>8, <2>9 DEF ParserInv
<1>6. QED
  BY <1>4, <1>5

\* The line that the parser gets is the next line of the input.
LEMMA LineIs ==
    ASSUME TypeOK, ParserInv, NEW state \in {"REQUESTLINE", "HEADER"},
           NEW line, line = Scan, GetLine(state, line)
    PROVE  /\ line.checked - 1 \in Nat /\ (line.checked - 1) + 1 = line.checked
           /\ LineAt(m_read_buf, m_start_line, line.checked - 1)
           /\ line.text = Text(m_read_buf, m_start_line, line.checked - 1)
           /\ Even(m_read_buf, line.checked + 1, line.checked)
<1>1. pc = "parse" /\ line.status = "OK" /\ m_check_state = state
  BY DEF GetLine
<1>2. LineInv /\ m_check_state # "CONTENT"
  BY <1>1 DEF ParserInv
<1>3. Looking /\ line = parse_line
  BY <1>2, IsLooking, ScanBounds
<1>4. FoundLine(line)
  BY <1>1, <1>3, ScanResult
<1>5. line.checked \in m_checked_idx + 1..m_read_idx /\ m_checked_idx \in Nat
  BY <1>4, Indexes DEF FoundLine
<1>6. line.checked - 1 \in Nat /\ (line.checked - 1) + 1 = line.checked
  BY <1>5
<1>7. Even(m_read_buf, line.checked + 1, line.checked)
  BY <1>5 DEF Even
<1>8. QED
  BY <1>4, <1>6, <1>7 DEF FoundLine

\* After the request line come the headers.
LEMMA ParseRequestLineParser ==
    ASSUME TypeOK, ParserInv, NEW line, line = Scan, ParseRequestLine(line)
    PROVE  ParserInv'
<1> DEFINE s == m_read_buf
           e == line.checked - 1
           text == line.text
<1>1. /\ GetLine("REQUESTLINE", line) /\ IsGet(text) /\ m_url' = Head(UrlPart(text))
      /\ m_check_state' = "HEADER" /\ line_status' = "OK"
      /\ UNCHANGED <<m_content_length, m_keepAlive, m_write_idx, pc>>
  BY DEF ParseRequestLine, outVars
<1>2. /\ pc = "parse" /\ m_check_state = "REQUESTLINE" /\ UNCHANGED <<m_read_buf, lateBody>>
      /\ m_checked_idx' = line.checked /\ m_start_line' = line.checked
  BY <1>1 DEF GetLine
<1>3. m_start_line = 0 /\ m_content_length = 0 /\ ~m_keepAlive /\ m_write_idx = 0
  BY <1>2 DEF ParserInv, LineInv
<1>4. /\ e \in Nat /\ e + 1 = line.checked /\ LineAt(s, 0, e) /\ text = Text(s, 0, e)
      /\ Even(s, line.checked + 1, line.checked) /\ s \in Symbols
  BY <1>1, <1>3, LineIs, Indexes
<1>5. text \in Symbols
  <2> HIDE DEF s, e, text
  <2>1. QED
    BY <1>4, TextIs
<1>6. s' = s
  BY <1>2
<1> HIDE DEF s, e, text
<1>7. IsRequest(text) /\ m_url' = CHOOSE p \in Paths : text \in Forms(p)
  BY <1>1, <1>5, GetIsRequest
<1>8. /\ Begun(s, line.checked) /\ m_url' = Asked(s)
      /\ BodyLength(s, line.checked) = 0 /\ ~Wished(s, line.checked)
  BY <1>4, <1>7, FirstLineBegins
<1>9. LineInv'
  BY <1>1, <1>2, <1>3, <1>4, <1>6, <1>8 DEF LineInv, s
<1>10. BodyInv'
  BY <1>1, <1>2 DEF BodyInv
<1>11. QED
  BY <1>1, <1>2, <1>3, <1>9, <1>10 DEF ParserInv

\* A line that is no request line is answered so.
LEMMA BadRequestLineParser ==
    ASSUME TypeOK, ParserInv, NEW line, line = Scan, BadRequestLine(line)
    PROVE  ParserInv'
<1> DEFINE s == m_read_buf
           e == line.checked - 1
           text == line.text
<1>1. /\ GetLine("REQUESTLINE", line) /\ ~IsGet(text) /\ Respond("BAD_REQUEST", 0)
      /\ UNCHANGED <<m_check_state, m_keepAlive>>
  BY DEF BadRequestLine
<1>2. pc = "parse" /\ m_check_state = "REQUESTLINE" /\ UNCHANGED m_read_buf
  BY <1>1 DEF GetLine
<1>3. m_start_line = 0 /\ ~m_keepAlive /\ m_write_idx = 0
  BY <1>2 DEF ParserInv, LineInv
<1>4. /\ e \in Nat /\ LineAt(s, 0, e) /\ text = Text(s, 0, e) /\ s \in Symbols
  BY <1>1, <1>3, LineIs, Indexes
<1>5. text \in Symbols
  <2> HIDE DEF s, e, text
  <2>1. QED
    BY <1>4, TextIs
<1>6. /\ ret' = "BAD_REQUEST" /\ m_write_idx' = 6 /\ m_iv' = <<6>> /\ pc' = "out"
      /\ sent' = 0 /\ tight' = FALSE
  BY <1>1, <1>3, BadIs
<1>7. s' = s
  BY <1>2
<1> HIDE DEF s, e, text
<1>8. ~IsRequest(text)
  BY <1>1, <1>5, GetIsRequest
<1>9. Verdict(s) = "BAD_REQUEST" /\ ~StaysOpen(s)
  BY <1>4, <1>8, VerdictBad
<1>10. ResponseInv'
  BY <1>1, <1>2, <1>3, <1>6, <1>9 DEF ResponseInv, HeaderLength, s
<1>11. QED
  BY <1>6, <1>10 DEF ParserInv

\* A header is one more that HttpRequest finds.
LEMMA ParseHeaderParser ==
    ASSUME TypeOK, ParserInv, NEW line, line = Scan, ParseHeader(line)
    PROVE  ParserInv'
<1> DEFINE s == m_read_buf
           n == m_start_line
           e == line.checked - 1
           text == line.text
<1>1. /\ GetLine("HEADER", line) /\ text # <<>>
      /\ m_keepAlive' = (m_keepAlive \/ text = <<KeepAlive>>)
      /\ m_content_length' = IF text \in {<<h>> : h \in DOMAIN LengthOf}
                                THEN LengthOf[Head(text)] ELSE m_content_length
      /\ line_status' = "OK"
      /\ UNCHANGED <<m_check_state, m_url, m_write_idx, pc>>
  BY DEF ParseHeader, outVars
<1>2. /\ pc = "parse" /\ m_check_state = "HEADER" /\ UNCHANGED <<m_read_buf, lateBody>>
      /\ m_checked_idx' = line.checked /\ m_start_line' = line.checked
  BY <1>1 DEF GetLine
<1>3. /\ Begun(s, n) /\ m_url = Asked(s) /\ m_content_length = BodyLength(s, n)
      /\ m_keepAlive <=> Wished(s, n)
  BY <1>2 DEF ParserInv, LineInv
<1>4. /\ e \in Nat /\ e + 1 = line.checked /\ LineAt(s, n, e) /\ text = Text(s, n, e)
      /\ Even(s, line.checked + 1, line.checked) /\ s \in Symbols /\ n \in Nat
  BY <1>1, LineIs, Indexes
<1>5. m_write_idx = 0 /\ s' = s
  BY <1>2 DEF ParserInv
<1> HIDE DEF s, n, e, text
<1>6. e # n + 1
  <2> SUFFICES ASSUME e = n + 1 PROVE FALSE
    OBVIOUS
  <2>1. text \in Symbols /\ Len(text) = e - 1 - n
    BY <1>4, TextIs
  <2>2. Len(text) = 0
    BY <1>4, <2>1
  <2>3. QED
    BY <1>1, <2>1, <2>2 DEF Symbols
<1>7. Begun(s, line.checked)
  BY <1>3, <1>4, <1>6, HeaderFound
<1>8. /\ m_content_length' = BodyLength(s, line.checked)
      /\ m_keepAlive' <=> Wished(s, line.checked)
  <2>1. /\ BodyLength(s, e + 1) = IF text \in {<<h>> : h \in DOMAIN LengthOf}
                                     THEN LengthOf[Head(text)] ELSE BodyLength(s, n)
        /\ Wished(s, e + 1) <=> Wished(s, n) \/ text = <<KeepAlive>>
    BY <1>3, <1>4, <1>6, HeaderRead
  <2>2. QED
    BY <1>1, <1>3, <1>4, <2>1
<1>9. LineInv'
  BY <1>1, <1>2, <1>3, <1>4, <1>5, <1>7, <1>8 DEF LineInv, s
<1>10. BodyInv'
  BY <1>1, <1>2 DEF BodyInv
<1>11. QED
  BY <1>1, <1>2, <1>5, <1>9, <1>10 DEF ParserInv

\* At the empty line the whole header is known.
LEMMA EmptyLine ==
    ASSUME TypeOK, ParserInv, NEW line, line = Scan, GetLine("HEADER", line), line.text = <<>>
    PROVE  /\ Headed(m_read_buf) /\ HeadLength(m_read_buf) = line.checked
           /\ m_url = Asked(m_read_buf)
           /\ m_content_length = BodyLength(m_read_buf, HeadLength(m_read_buf) - 3)
           /\ m_keepAlive <=> StaysOpen(m_read_buf)
           /\ m_write_idx = 0 /\ pc = "parse"
<1> DEFINE s == m_read_buf
           n == m_start_line
           e == line.checked - 1
<1>1. pc = "parse" /\ m_check_state = "HEADER"
  BY DEF GetLine
<1>2. /\ Begun(s, n) /\ m_url = Asked(s) /\ m_content_length = BodyLength(s, n)
      /\ m_keepAlive <=> Wished(s, n)
  BY <1>1 DEF ParserInv, LineInv
<1>3. /\ e \in Nat /\ e + 1 = line.checked /\ LineAt(s, n, e) /\ line.text = Text(s, n, e)
      /\ s \in Symbols /\ n \in Nat
  BY LineIs, Indexes
<1> HIDE DEF s, n, e
<1>4. e = n + 1 /\ e + 1 = n + 2
  <2>1. Len(Text(s, n, e)) = e - 1 - n /\ e \in n + 1..Len(s) - 1
    BY <1>3, TextIs
  <2>2. Len(<<>>) = 0
    OBVIOUS
  <2>3. e - 1 - n = 0
    BY <1>3, <2>1, <2>2
  <2>4. QED
    BY <1>3, <2>3
<1>5. /\ Headed(s) /\ HeadLength(s) = n + 2
      /\ BodyLength(s, HeadLength(s) - 3) = BodyLength(s, n)
      /\ StaysOpen(s) <=> Wished(s, n)
  <2>1. LineAt(s, n, n + 1)
    BY <1>3, <1>4
  <2>2. QED
    BY <1>2, <1>3, <2>1, HeaderEnds
<1>6. m_write_idx = 0
  BY <1>1 DEF ParserInv
<1>7. QED
  BY <1>1, <1>2, <1>3, <1>4, <1>5, <1>6 DEF s

\* A body that was announced is waited for from the end of the header on.
LEMMA AwaitContentParser ==
    ASSUME TypeOK, ParserInv, NEW line, line = Scan, AwaitContent(line)
    PROVE  ParserInv'
<1>1. /\ GetLine("HEADER", line) /\ line.text = <<>>
      /\ m_check_state' = "CONTENT" /\ line_status' = "OK"
      /\ UNCHANGED <<m_content_length, m_keepAlive, m_url, m_write_idx, pc>>
  BY DEF AwaitContent, outVars
<1>2. /\ UNCHANGED <<m_read_buf, lateBody>>
      /\ m_checked_idx' = line.checked
  BY <1>1 DEF GetLine
<1>3. /\ Headed(m_read_buf) /\ HeadLength(m_read_buf) = line.checked
      /\ m_url = Asked(m_read_buf)
      /\ m_content_length = BodyLength(m_read_buf, HeadLength(m_read_buf) - 3)
      /\ m_keepAlive <=> StaysOpen(m_read_buf)
      /\ m_write_idx = 0 /\ pc = "parse"
  BY <1>1, EmptyLine
<1>4. line.checked >= line.checked
  <2>1. line.checked \in Nat
    BY <1>3, VerdictHeaded, Indexes
  <2>2. QED
    BY <2>1
<1>5. LineInv'
  BY <1>1, <1>2, <1>3, <1>4 DEF LineInv
<1>6. BodyInv'
  BY <1>1, <1>2, <1>3 DEF BodyInv
<1>7. QED
  BY <1>1, <1>3, <1>5, <1>6 DEF ParserInv

\* A request that is complete gets its answer.
LEMMA RequestParser ==
    ASSUME TypeOK, ParserInv, MapInv, do_request, pc = "parse", m_write_idx = 0,
           Headed(m_read_buf), m_url = Asked(m_read_buf),
           m_content_length = BodyLength(m_read_buf, HeadLength(m_read_buf) - 3),
           m_keepAlive <=> StaysOpen(m_read_buf),
           m_read_idx >= m_content_length + HeadLength(m_read_buf),
           UNCHANGED <<m_read_buf, m_keepAlive>>
    PROVE  ParserInv'
<1>1. /\ ret' = Answer(m_url) /\ pc' = "out" /\ sent' = 0 /\ tight' = FALSE
      /\ m_write_idx' = IF ret' = "FILE_REQUEST" THEN 5 ELSE 6
      /\ m_iv' = IF ret' = "FILE_REQUEST" THEN <<5, m_file_stat'>> ELSE <<6>>
  BY RequestIs
<1>2. m_read_buf \in Symbols /\ m_read_idx = Len(m_read_buf) /\ m_read_idx \in Nat
  BY Indexes
<1>3. /\ HeadLength(m_read_buf) \in 4..Len(m_read_buf)
      /\ Verdict(m_read_buf) = IF Len(m_read_buf) - HeadLength(m_read_buf)
                                    >= BodyLength(m_read_buf, HeadLength(m_read_buf) - 3)
                                  THEN Answer(Asked(m_read_buf)) ELSE "NO_REQUEST"
  BY <1>2, VerdictHeaded
<1>4. m_content_length \in Nat /\ HeadLength(m_read_buf) \in Nat
  BY <1>3 DEF TypeOK
<1>5. Len(m_read_buf) - HeadLength(m_read_buf) >= m_content_length
  BY <1>2, <1>4
<1>6. Verdict(m_read_buf) = Answer(m_url)
  BY <1>3, <1>5
<1>7. ResponseInv'
  BY <1>1, <1>6 DEF ResponseInv, HeaderLength
<1>8. QED
  BY <1>1, <1>7 DEF ParserInv

\* A request without a body is complete with the empty line.
LEMMA EndOfHeaderParser ==
    ASSUME TypeOK, ParserInv, MapInv, NEW line, line = Scan, EndOfHeader(line)
    PROVE  ParserInv'
<1>1. /\ GetLine("HEADER", line) /\ line.text = <<>> /\ m_content_length = 0 /\ do_request
      /\ UNCHANGED m_keepAlive
  BY DEF EndOfHeader
<1>2. /\ Headed(m_read_buf) /\ m_url = Asked(m_read_buf)
      /\ m_content_length = BodyLength(m_read_buf, HeadLength(m_read_buf) - 3)
      /\ m_keepAlive <=> StaysOpen(m_read_buf)
      /\ m_write_idx = 0 /\ pc = "parse"
  BY <1>1, EmptyLine
<1>3. UNCHANGED m_read_buf
  BY <1>1 DEF GetLine
<1>4. m_read_idx >= m_content_length + HeadLength(m_read_buf)
  <2>1. m_read_buf \in Symbols /\ m_read_idx = Len(m_read_buf) /\ m_read_idx \in Nat
    BY Indexes
  <2>2. HeadLength(m_read_buf) \in 4..m_read_idx
    BY <1>2, <2>1, VerdictHeaded
  <2>3. QED
    BY <1>1, <2>1, <2>2
<1>5. QED
  BY <1>1, <1>2, <1>3, <1>4, RequestParser

\* A body is there, or it is known that it is not, unless it came late.
LEMMA ContentParser ==
    ASSUME TypeOK, ParserInv, MapInv, NEW line, line = Scan, Content(line) \/ ContentIncomplete(line)
    PROVE  ParserInv'
<1>1. /\ pc = "parse" /\ m_check_state = "CONTENT" /\ m_checked_idx' = line.checked
      /\ UNCHANGED <<m_read_buf, lateBody, m_check_state, m_content_length, m_keepAlive, m_url>>
  BY DEF Content, ContentIncomplete, GetLine
<1>2. LineInv /\ BodyInv /\ m_write_idx = 0
  BY <1>1 DEF ParserInv
<1>3. /\ Headed(m_read_buf) /\ m_url = Asked(m_read_buf)
      /\ m_content_length = BodyLength(m_read_buf, HeadLength(m_read_buf) - 3)
      /\ m_keepAlive <=> StaysOpen(m_read_buf)
      /\ m_checked_idx >= HeadLength(m_read_buf)
  BY <1>1, <1>2 DEF LineInv
<1>4. /\ m_read_buf \in Symbols /\ m_read_idx = Len(m_read_buf) /\ m_read_idx \in Nat /\ m_checked_idx \in Nat
      /\ line.checked \in m_checked_idx..m_read_idx /\ m_content_length \in Nat
  BY Indexes, ScanBounds DEF TypeOK
<1>5. HeadLength(m_read_buf) \in Nat
  BY <1>3, <1>4, VerdictHeaded
<1>6. line.checked >= HeadLength(m_read_buf) /\ line.checked \in Nat
  BY <1>3, <1>4, <1>5
<1>7. ASSUME Content(line) PROVE ParserInv'
  <2>1. do_request /\ m_read_idx >= m_content_length + line.checked
    BY <1>7 DEF Content, HasContent
  <2>2. m_read_idx >= m_content_length + HeadLength(m_read_buf)
    BY <1>4, <1>5, <1>6, <2>1
  <2>3. QED
    BY <1>1, <1>2, <1>3, <2>1, <2>2, RequestParser
<1>8. ASSUME ContentIncomplete(line) PROVE ParserInv'
  <2>1. /\ ~(m_read_idx >= m_content_length + line.checked) /\ line_status' = "OPEN"
        /\ UNCHANGED <<pc, m_write_idx>>
    BY <1>8 DEF ContentIncomplete, HasContent, outVars
  <2>2. ASSUME ~lateBody PROVE m_read_idx < HeadLength(m_read_buf) + m_content_length
    <3>1. CASE line_status = "OK"
      <4>1. m_checked_idx = HeadLength(m_read_buf) /\ line.checked = m_checked_idx
        BY <1>1, <1>2, <2>2, <3>1, ScanBounds DEF BodyInv
      <4>2. QED
        BY <1>4, <2>1, <4>1
    <3>2. CASE line_status # "OK"
      BY <1>1, <1>2, <2>2, <3>2 DEF BodyInv
    <3>3. QED
      BY <3>1, <3>2
  <2>3. m_read_idx' = m_read_idx
    BY <1>1 DEF m_read_idx
  <2>4. LineInv'
    BY <1>1, <1>3, <1>6 DEF LineInv
  <2>5. BodyInv'
    BY <1>1, <2>1, <2>2, <2>3 DEF BodyInv
  <2>6. QED
    BY <1>1, <1>2, <2>1, <2>4, <2>5 DEF ParserInv
<1>9. QED
  BY <1>7, <1>8

-------------------------------------------------------------------------------
(* Sending *)

\* As long as each writev() took all of the response, the first one did, and was the last.
LEMMA SentAtOnce ==
    ASSUME TypeOK, ResponseInv, Send, ~tight'
    PROVE  sent = 0 /\ Taken = Promised /\ Done
<1>1. /\ pc = "sending" /\ bytes_have_send' = bytes_have_send + Taken
      /\ tight' = (tight \/ Taken < Total)
  BY DEF Send
<1>2. ~tight /\ ~(Taken < Total)
  BY <1>1
<1>3. sent = 0 /\ bytes_have_send = 0
  BY <1>1, <1>2 DEF ResponseInv
<1>4. /\ Total = Promised /\ Total \in Nat /\ Total >= m_write_idx /\ m_write_idx \in {5, 6}
      /\ Taken \in Nat /\ Taken <= Total
  BY TakenIs
<1>5. Taken = Total
  BY <1>2, <1>4
<1>6. bytes_have_send' = Total
  BY <1>1, <1>3, <1>4, <1>5
<1>7. Done
  BY <1>4, <1>6 DEF Done
<1>8. QED
  BY <1>3, <1>4, <1>5, <1>7

\* A step of write() leaves the response as it is, or is done with it.
LEMMA WriteParser ==
    ASSUME TypeOK, ParserInv, write
    PROVE  ParserInv'
<1>1. pc \in {"out", "sending"} /\ ResponseInv
  BY DEF ParserInv, write, WriteBegin, Writev, WritevLast, WriteAgain, WriteError, Send
<1>2. ASSUME UNCHANGED <<m_read_buf, ret, m_keepAlive, m_write_idx, m_iv, m_file_stat>>,
             pc' \in {"out", "sending"},
             ~tight' => sent' = 0 /\ (pc' = "sending" => bytes_have_send' = 0)
      PROVE  ParserInv'
  <2>1. ResponseInv'
    BY <1>1, <1>2 DEF ResponseInv, HeaderLength
  <2>2. QED
    BY <1>2, <2>1 DEF ParserInv
<1>3. CASE WriteBegin
  <2>1. m_write_idx # 0
    BY <1>1 DEF ResponseInv, HeaderLength
  <2>2. /\ pc' = "sending" /\ bytes_have_send' = 0
        /\ UNCHANGED <<m_read_buf, parseVars, m_write_idx, m_iv, m_file_stat, ret, history>>
    BY <1>3, <2>1 DEF WriteBegin
  <2>3. ~tight' => sent' = 0
    BY <1>1, <2>2 DEF ResponseInv, history
  <2>4. QED
    BY <1>2, <2>2, <2>3 DEF parseVars
<1>4. CASE Writev
  <2>1. /\ Send /\ ~Done /\ pc = "sending"
        /\ UNCHANGED <<m_read_buf, parseVars, outVars, pc, ret>>
    BY <1>4 DEF Writev, Send
  <2>2. tight'
    BY <1>1, <2>1, SentAtOnce
  <2>3. QED
    BY <1>2, <2>1, <2>2 DEF parseVars, outVars
<1>5. CASE WritevLast
  <2>1. pc' = "closed" \/ (pc' = "in" /\ Reset)
    BY <1>5 DEF WritevLast
  <2>2. CASE pc' = "closed"
    BY <2>2 DEF ParserInv
  <2>3. QED
    BY <2>1, <2>2, ResetParser
<1>6. CASE WriteAgain
  <2>1. /\ pc = "sending" /\ pc' = "out"
        /\ UNCHANGED <<m_read_buf, parseVars, outVars, localVars, history>>
    BY <1>6 DEF WriteAgain
  <2>2. ~tight' => sent' = 0
    BY <1>1, <2>1 DEF ResponseInv, history
  <2>3. QED
    BY <1>2, <2>1, <2>2 DEF parseVars, outVars, localVars
<1>7. CASE WriteError
  BY <1>7 DEF WriteError, CloseConn, ParserInv
<1>8. QED
  BY <1>3, <1>4, <1>5, <1>6, <1>7 DEF write

\* Every step keeps what the parser and the response know of the input.
LEMMA ParserStep ==
    ASSUME TypeOK, ParserInv, MapInv, Next
    PROVE  ParserInv'
<1>1. ASSUME NEW s \in Scripts, Connect(s) PROVE ParserInv'
  BY <1>1, ResetParser DEF Connect
<1>2. ASSUME Drain PROVE ParserInv'
  <2>1. UNCHANGED <<m_read_buf, parseVars, outVars, pc, localVars, history>> /\ pc \in {"out", "sending"}
    BY <1>2 DEF Drain
  <2>2. ResponseInv
    BY <2>1 DEF ParserInv
  <2>3. ResponseInv'
    BY <2>1, <2>2 DEF ResponseInv, HeaderLength, parseVars, outVars, localVars, history
  <2>4. QED
    BY <2>1, <2>3 DEF ParserInv
<1>3. ASSUME Hangup PROVE ParserInv'
  BY <1>3 DEF Hangup, CloseConn, ParserInv
<1>4. ASSUME read PROVE ParserInv'
  <2>1. ASSUME ReadFull PROVE ParserInv'
    BY <2>1 DEF ReadFull, CloseConn, ParserInv
  <2>2. QED
    BY <1>4, <2>1, ReadParser DEF read
<1>5. ASSUME process PROVE ParserInv'
  <2>1. PICK line \in {Scan} :
         \/ NoLine(line) \/ ParseRequestLine(line) \/ BadRequestLine(line) \/ ParseHeader(line)
         \/ AwaitContent(line) \/ EndOfHeader(line) \/ Content(line) \/ ContentIncomplete(line)
    BY <1>5 DEF process
  <2>2. line = Scan
    OBVIOUS
  <2>3. QED
    BY <2>1, <2>2, NoLineParser, ParseRequestLineParser, BadRequestLineParser, ParseHeaderParser,
       AwaitContentParser, EndOfHeaderParser, ContentParser
<1>6. ASSUME write PROVE ParserInv'
  BY <1>6, WriteParser
<1>7. QED
  BY <1>1, <1>2, <1>3, <1>4, <1>5, <1>6 DEF Next

-------------------------------------------------------------------------------
(* The invariant *)

\* Before the first connection nothing was received, sent or mapped.
LEMMA InitIInv == Init => IInv
<1> SUFFICES ASSUME Init PROVE IInv
  OBVIOUS
<1>1. /\ conns = 0 /\ toSend = <<>> /\ room = SendBuffer /\ m_read_buf = <<>>
      /\ m_checked_idx = 0 /\ m_start_line = 0 /\ m_check_state = "REQUESTLINE"
      /\ m_content_length = 0 /\ m_keepAlive = FALSE /\ m_url = NoUrl
      /\ m_write_idx = 0 /\ m_iv = <<>> /\ m_file_stat = 0
      /\ m_file_address = 0 /\ mapped = {}
      /\ pc = "closed" /\ line_status = "OK" /\ ret = "NO_REQUEST" /\ bytes_have_send = 0
      /\ sent = 0 /\ answers = <<>> /\ tight = FALSE
      /\ lateBody = FALSE /\ discarded = FALSE /\ abandoned = FALSE
  BY DEF Init, NULL
<1>2. /\ <<>> \in Seq(STRING) /\ Len(<<>>) = 0 /\ <<>> \in Seq(Nat) /\ <<>> \in Seq(Codes)
      /\ 0 \in 0..0 /\ 0 \in 0..MaxConns /\ SendBuffer \in 0..SendBuffer
      /\ 0 \in 0..WRITE_BUFFER_SIZE /\ 0 <= READ_BUFFER_SIZE
  BY SizesAssumption
<1>3. ClientTypes /\ BufferTypes /\ FieldTypes /\ OutTypes
  BY <1>1, <1>2 DEF ClientTypes, BufferTypes, FieldTypes, OutTypes, m_read_idx
<1>4. MapTypes /\ PlaceTypes /\ AnswerTypes
  BY <1>1, <1>2 DEF MapTypes, PlaceTypes, AnswerTypes, Codes
<1>5. TypeOK
  BY <1>3, <1>4, TypeGroups
<1>6. ParserInv
  BY <1>1 DEF ParserInv
<1>7. MapInv
  <2>1. IsFiniteSet({}) /\ Cardinality({}) = 0
    BY FS_EmptySet
  <2>2. QED
    BY <1>1, <2>1 DEF MapInv
<1>8. MappedWhileSending
  BY <1>1 DEF MappedWhileSending, NULL
<1>9. QED
  BY <1>5, <1>6, <1>7, <1>8 DEF IInv

\* And every step keeps the invariant.
LEMMA NextIInv == IInv /\ [Next]_vars => IInv'
<1> SUFFICES ASSUME IInv, [Next]_vars PROVE IInv'
  OBVIOUS
<1>1. TypeOK /\ ParserInv /\ MapInv /\ MappedWhileSending
  BY DEF IInv
<1>2. CASE Next
  <2>1. MapInv' /\ MappedWhileSending'
    BY <1>1, <1>2, MapStep
  <2>2. ParserInv'
    BY <1>1, <1>2, ParserStep
  <2>3. (pc = "parse" => m_write_idx = 0) /\ (pc \in {"out", "sending"} => ResponseInv)
    BY <1>1 DEF ParserInv
  <2>4. TypeOK'
    BY <1>1, <1>2, <2>3, ClientStepTypes, ReadTypes, ProcessTypes, WriteTypes DEF Next
  <2>5. QED
    BY <2>1, <2>2, <2>4 DEF IInv
<1>3. CASE UNCHANGED vars
  <2>1. UNCHANGED <<conns, script, toSend, room, m_read_buf,
                    m_checked_idx, m_start_line, m_check_state, m_content_length, m_keepAlive, m_url,
                    m_write_idx, m_iv, m_file_stat, m_file_address, mapped, pc,
                    line_status, ret, bytes_have_send,
                    sent, answers, tight, lateBody, discarded, abandoned>>
    BY <1>3 DEF vars, clientVars, parseVars, outVars, mapVars, localVars, history
  <2>2. TypeOK'
    BY <1>1, <2>1 DEF TypeOK, m_read_idx
  <2>3. LineInv' = LineInv /\ BodyInv' = BodyInv /\ ResponseInv' = ResponseInv
    BY <2>1 DEF LineInv, BodyInv, ResponseInv, HeaderLength, m_read_idx
  <2>4. ParserInv'
    BY <1>1, <2>1, <2>3 DEF ParserInv
  <2>5. MapInv' /\ MappedWhileSending'
    BY <1>1, <2>1 DEF MapInv, InHand, MappedWhileSending
  <2>6. QED
    BY <2>2, <2>4, <2>5 DEF IInv
<1>4. QED
  BY <1>2, <1>3

\* The invariant holds.
THEOREM IInvHolds == Spec => []IInv
<1>1. QED
  BY InitIInv, NextIInv, PTL DEF Spec

\* Every variable keeps its type, the buffers their bounds and the indexes of the parser
\* their order.
THEOREM TypeCorrect == Spec => []TypeOK
<1>1. IInv => TypeOK
  BY DEF IInv
<1>2. QED
  BY <1>1, IInvHolds, PTL

\* In whatever pieces the input arrives: what is answered is what HttpRequest says of all
\* of it, and no answer that is due is missed, but for a body that came late.
THEOREM ParsedRight == Spec => []VerdictRight
<1>1. IInv => VerdictRight
  BY DEF IInv, ParserInv, ResponseInv, VerdictRight
<1>2. QED
  BY <1>1, IInvHolds, PTL

\* The file of a response is mapped as long as the response is in hand, and no longer.
THEOREM MappingsKept == Spec => []MappedWhileSending
<1>1. IInv => MappedWhileSending
  BY DEF IInv
<1>2. QED
  BY <1>1, IInvHolds, PTL

\* A connection stays open after a response if and only if its request asked for that.
THEOREM KeptAsAsked == Spec => KeepAliveHonoured
<1>1. ASSUME IInv, WritevLast PROVE (pc' = "in") = StaysOpen(m_read_buf)
  <2>1. pc = "sending"
    BY <1>1 DEF WritevLast, Send
  <2>2. m_keepAlive <=> StaysOpen(m_read_buf)
    BY <1>1, <2>1 DEF IInv, ParserInv, ResponseInv
  <2>3. (pc' = "in") <=> m_keepAlive
    BY <1>1 DEF WritevLast
  <2>4. StaysOpen(m_read_buf) \in BOOLEAN
    BY DEF StaysOpen
  <2>5. QED
    BY <2>2, <2>3, <2>4
<1>2. IInv => [WritevLast => (pc' = "in") = StaysOpen(m_read_buf)]_vars
  BY <1>1
<1>3. QED
  BY <1>2, IInvHolds, PTL DEF KeepAliveHonoured

\* What counts as sent is what its header promises, unless a writev() took a part of it.
THEOREM SentInFull == Spec => SentWhole
<1>1. ASSUME IInv, WritevLast PROVE sent + Taken = Promised \/ tight'
  <2> SUFFICES ASSUME ~tight' PROVE sent + Taken = Promised
    OBVIOUS
  <2>1. Send /\ pc = "sending"
    BY <1>1 DEF WritevLast, Send
  <2>2. TypeOK /\ ResponseInv
    BY <1>1, <2>1 DEF IInv, ParserInv
  <2>3. sent = 0 /\ Taken = Promised /\ Taken \in Nat
    BY <2>1, <2>2, SentAtOnce, TakenIs
  <2>4. QED
    BY <2>3
<1>2. IInv => [WritevLast => sent + Taken = Promised \/ tight']_vars
  BY <1>1
<1>3. QED
  BY <1>2, IInvHolds, PTL DEF SentWhole

===============================================================================
