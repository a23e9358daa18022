---------------------------- MODULE HttpOrderProofs ----------------------------
(***************************************************************************)
(* A proof that HttpConn answers the requests of a client in order, for    *)
(* any scripts.                                                            *)
(*                                                                         *)
(* The invariant is an account of the stream: after the answers that were  *)
(* given, what is left of the requests is in the buffer or still to come.  *)
(* That the buffer holds the next request and nothing else when an answer  *)
(* is given follows from VerdictRight, from init() not having thrown bytes *)
(* away, and from a request being no more than one (ScriptsAssumption).    *)
(***************************************************************************)
EXTENDS HttpConnProofs

\* What is left of the requests is in the buffer or still to come, and a response in hand
\* answers something.
StreamInv ==
    /\ pc # "closed" => script \in Scripts
    /\ pc # "closed" /\ ~discarded =>
        /\ Len(answers) <= Len(script)
        /\ FlattenSeq(SubSeq(script, Len(answers) + 1, Len(script))) = m_read_buf \o toSend
    /\ pc \in {"out", "sending"} => ret # "NO_REQUEST"

\* Nothing is owed to a connection that is closed.
LEMMA ClosedStream ==
    ASSUME pc' = "closed"
    PROVE  StreamInv' /\ AnswersInOrder'
BY DEF StreamInv, AnswersInOrder

\* Most steps only move input from the stream to the buffer.
LEMMA StreamKept ==
    ASSUME StreamInv, AnswersInOrder, pc # "closed", UNCHANGED <<script, answers, discarded>>,
           m_read_buf' \o toSend' = m_read_buf \o toSend,
           pc' \in {"out", "sending"} => ret' # "NO_REQUEST"
    PROVE  StreamInv' /\ AnswersInOrder'
BY DEF StreamInv, AnswersInOrder

\* A new connection has its script before it.
LEMMA ConnectStream ==
    ASSUME NEW s \in Scripts, Connect(s)
    PROVE  StreamInv' /\ AnswersInOrder'
<1>1. /\ script' = s /\ toSend' = FlattenSeq(s) /\ pc' = "in" /\ answers' = <<>> /\ m_read_buf' = <<>>
  BY DEF Connect, Reset
<1>2. s \in Seq(Symbols)
  BY ScriptsAssumption DEF Symbols
<1>3. Len(s) \in Nat /\ SubSeq(s, 1, Len(s)) = s
  BY <1>2, SubSeqFull
<1>4. <<>> \o FlattenSeq(s) = FlattenSeq(s)
  BY <1>2, FlattenType, ConcatEmptySeq DEF Symbols
<1>5. Len(answers') = 0 /\ Len(answers') + 1 = 1
  BY <1>1
<1>6. /\ Len(answers') <= Len(script')
      /\ FlattenSeq(SubSeq(script', Len(answers') + 1, Len(script'))) = m_read_buf' \o toSend'
  <2>1. Len(answers') <= Len(script')
    BY <1>1, <1>3, <1>5
  <2>2. SubSeq(script', Len(answers') + 1, Len(script')) = s
    BY <1>1, <1>3, <1>5
  <2>3. m_read_buf' \o toSend' = FlattenSeq(s)
    BY <1>1, <1>4
  <2>4. FlattenSeq(SubSeq(script', Len(answers') + 1, Len(script'))) = FlattenSeq(s)
    BY <2>2
  <2>5. QED
    BY <2>1, <2>3, <2>4
<1>7. StreamInv'
  BY <1>1, <1>6 DEF StreamInv
<1>8. AnswersInOrder'
  BY <1>5, <1>6 DEF AnswersInOrder
<1>9. QED
  BY <1>7, <1>8

\* read() takes a piece off the stream and puts it behind what it has.
LEMMA ReadStream ==
    ASSUME TypeOK, StreamInv, AnswersInOrder, read
    PROVE  StreamInv' /\ AnswersInOrder'
<1>1. CASE ReadFull
  BY <1>1, ClosedStream DEF ReadFull, CloseConn
<1>2. ASSUME NEW n \in 1..Len(toSend), Read(n)
      PROVE  StreamInv' /\ AnswersInOrder'
  <2>1. /\ m_read_buf' = m_read_buf \o SubSeq(toSend, 1, n)
        /\ toSend' = SubSeq(toSend, n + 1, Len(toSend))
        /\ pc = "in" /\ pc' = "parse" /\ UNCHANGED <<script, answers, discarded>>
    BY <1>2 DEF Read
  <2>2. m_read_buf \in Symbols /\ toSend \in Seq(STRING) /\ Len(toSend) \in Nat
    BY DEF TypeOK, Symbols
  <2> DEFINE a == SubSeq(toSend, 1, n)
             b == SubSeq(toSend, n + 1, Len(toSend))
  <2>3. a \in Symbols /\ b \in Symbols
    BY <2>2 DEF Symbols
  <2>4. a \o b = toSend
    <3>1. SubSeq(toSend, 1, n) \o SubSeq(toSend, n + 1, Len(toSend)) = SubSeq(toSend, 1, Len(toSend))
      <4>1. 1 \in 1..Len(toSend) + 1 /\ n \in (1 - 1)..Len(toSend) /\ Len(toSend) \in n..Len(toSend)
        BY <2>2
      <4>2. QED
        BY <2>2, <4>1, ConcatAdjacentSubSeq
    <3>2. SubSeq(toSend, 1, Len(toSend)) = toSend
      BY <2>2, SubSeqFull
    <3>3. QED
      BY <3>1, <3>2
  <2> HIDE DEF a, b
  <2>5. (m_read_buf \o a) \o b = m_read_buf \o (a \o b)
    BY <2>2, <2>3, JoinAssociative
  <2>6. m_read_buf' \o toSend' = m_read_buf \o toSend
    BY <2>1, <2>4, <2>5 DEF a, b
  <2>7. QED
    BY <2>1, <2>6, StreamKept
<1>3. QED
  BY <1>1, <1>2 DEF read

\* A response that process() prepares is an answer.
LEMMA RespondStream ==
    ASSUME StreamInv, AnswersInOrder, pc = "parse", NEW code, NEW size, Respond(code, size),
           code # "NO_REQUEST", UNCHANGED <<m_read_buf, answers, discarded>>
    PROVE  StreamInv' /\ AnswersInOrder'
<1>1. CASE pc' = "closed"
  BY <1>1, ClosedStream
<1>2. CASE pc' # "closed"
  <2>1. ret' = code /\ UNCHANGED clientVars
    BY <1>2 DEF Respond, CloseConn
  <2>2. QED
    BY <2>1, StreamKept DEF clientVars
<1>3. QED
  BY <1>1, <1>2

\* The parser leaves stream and buffer alone.
LEMMA ProcessStream ==
    ASSUME StreamInv, AnswersInOrder, process
    PROVE  StreamInv' /\ AnswersInOrder'
<1>1. PICK line \in {Scan} :
         \/ NoLine(line) \/ ParseRequestLine(line) \/ BadRequestLine(line) \/ ParseHeader(line)
         \/ AwaitContent(line) \/ EndOfHeader(line) \/ Content(line) \/ ContentIncomplete(line)
  BY DEF process
<1>2. CASE NoLine(line)
  BY <1>2, StreamKept DEF NoLine, clientVars, history
<1>3. CASE ParseRequestLine(line) \/ ParseHeader(line) \/ AwaitContent(line) \/ ContentIncomplete(line)
  <2>1. /\ pc = "parse" /\ pc' = pc /\ UNCHANGED clientVars
        /\ UNCHANGED <<m_read_buf, answers, discarded>>
    BY <1>3 DEF ParseRequestLine, ParseHeader, AwaitContent, ContentIncomplete, GetLine
  <2>2. QED
    BY <2>1, StreamKept DEF clientVars
<1>4. CASE BadRequestLine(line)
  <2>1. /\ pc = "parse" /\ UNCHANGED <<m_read_buf, answers, discarded>>
        /\ Respond("BAD_REQUEST", 0)
    BY <1>4 DEF BadRequestLine, GetLine
  <2>2. QED
    BY <2>1, RespondStream
<1>5. CASE EndOfHeader(line) \/ Content(line)
  <2>1. /\ pc = "parse" /\ UNCHANGED <<m_read_buf, answers, discarded>> /\ do_request
    BY <1>5 DEF EndOfHeader, Content, GetLine
  <2>2. PICK size : Respond(Answer(m_url), size)
    BY <2>1 DEF do_request
  <2>3. Answer(m_url) # "NO_REQUEST"
    BY DEF Answer
  <2>4. QED
    BY <2>1, <2>2, <2>3, RespondStream
<1>6. QED
  BY <1>1, <1>2, <1>3, <1>4, <1>5

\* The response that counts as sent answers the first request that is left, all of it and
\* no more.
LEMMA AnswerStream ==
    ASSUME TypeOK, ParserInv, StreamInv, AnswersInOrder, WritevLast, pc' # "closed", ~discarded'
    PROVE  StreamInv' /\ AnswersInOrder'
<1> DEFINE n == Len(answers)
           left == SubSeq(script, n + 1, Len(script))
<1>1. /\ pc = "sending" /\ m_keepAlive /\ Reset /\ pc' = "in" /\ answers' = Append(answers, ret)
      /\ discarded' = (discarded \/ m_read_idx > Len(script[n + 1]))
      /\ UNCHANGED <<script, toSend>>
  BY DEF WritevLast, Send
<1>2. ~discarded /\ ~(m_read_idx > Len(script[n + 1]))
  BY <1>1
<1>3. script \in Seq(Symbols) /\ \A k \in DOMAIN script : OneRequest(script[k])
  BY <1>1, ScriptsAssumption DEF StreamInv, Symbols
<1>4. Len(script) \in Nat /\ \A k \in 1..Len(script) : script[k] \in Symbols
  BY <1>3, ElementOfSeq
<1>5. /\ m_read_buf \in Symbols /\ toSend \in Symbols /\ Len(m_read_buf) \in Nat /\ Len(toSend) \in Nat
      /\ answers \in Seq(Codes) /\ n \in Nat /\ ret \in Codes
  BY DEF TypeOK, Symbols
<1>6. n <= Len(script) /\ FlattenSeq(left) = m_read_buf \o toSend
  BY <1>1, <1>2 DEF StreamInv
<1>7. ret = Verdict(m_read_buf) /\ StaysOpen(m_read_buf) /\ Verdict(m_read_buf) # "NO_REQUEST"
  BY <1>1 DEF ParserInv, ResponseInv, StreamInv
<1>8. left \in Seq(Symbols)
  <2>1. \A k \in (n + 1)..Len(script) : script[k] \in Symbols
    BY <1>4, <1>5
  <2>2. n + 1 \in Int /\ Len(script) \in Int
    BY <1>4, <1>5
  <2>3. QED
    BY <2>1, <2>2, SubSeqProperties
<1>9. n < Len(script)
  <2> SUFFICES ASSUME n = Len(script) PROVE FALSE
    BY <1>4, <1>5, <1>6
  <2>1. left = <<>>
    BY <1>4, SubSeqEmpty
  <2>2. FlattenSeq(left) = <<>>
    BY <2>1 DEF FlattenSeq
  <2>3. m_read_buf = <<>>
    BY <1>5, <1>6, <2>2, ConcatEqualIffEmpty DEF Symbols
  <2>4. LineEnds(m_read_buf) = {}
    BY <2>3 DEF LineEnds
  <2>5. ~StaysOpen(m_read_buf)
    BY <2>4 DEF StaysOpen, Headers
  <2>6. QED
    BY <1>7, <2>5
<1>10. n + 1 \in 1..Len(script) /\ Len(script) \in (n + 1)..Len(script)
  BY <1>4, <1>5, <1>9
<1> DEFINE r == script[n + 1]
           others == SubSeq(script, n + 2, Len(script))
<1>11. left # <<>> /\ left[1] = r /\ Tail(left) = others
  <2>1. Head(left) = script[n + 1] /\ Tail(left) = SubSeq(script, (n + 1) + 1, Len(script))
    BY <1>3, <1>10, HeadTailOfSubSeq
  <2>2. (n + 1) + 1 = n + 2
    BY <1>5
  <2>3. Len(left) # 0
    <3>1. Len(left) = Len(script) - (n + 1) + 1
      BY <1>4, <1>5, <1>10, SubSeqProperties
    <3>2. QED
      BY <1>4, <1>5, <1>9, <3>1
  <2>4. left # <<>>
    BY <2>3, EmptySeq
  <2>5. Head(left) = left[1]
    BY <1>8, <2>4
  <2>6. QED
    BY <2>1, <2>2, <2>4, <2>5
<1>12. r \in Symbols /\ Len(r) \in Nat /\ others \in Seq(Symbols)
  <2>1. r \in Symbols
    BY <1>4, <1>10
  <2>2. Tail(left) \in Seq(Symbols)
    BY <1>8, <1>11, HeadTailProperties
  <2>3. QED
    BY <1>11, <2>1, <2>2 DEF Symbols
<1> HIDE DEF n, left, r, others
<1>13. r \o FlattenSeq(others) = m_read_buf \o toSend
  BY <1>6, <1>8, <1>11, FlattenFirst
<1>14. FlattenSeq(others) \in Symbols
  BY <1>12, FlattenType
<1>15. m_read_buf = r
  <2>1. m_read_idx <= Len(r) /\ m_read_idx = Len(m_read_buf)
    BY <1>2, <1>5, <1>12 DEF m_read_idx, r
  <2>2. m_read_buf = SubSeq(r, 1, Len(m_read_buf))
    BY <1>5, <1>12, <1>13, <1>14, <2>1, PrefixOfJoined
  <2>3. OneRequest(r)
    BY <1>3, <1>4, <1>10 DEF r
  <2>4. CASE Len(m_read_buf) < Len(r)
    <3>1. Len(m_read_buf) \in 0..Len(r) - 1
      BY <1>5, <1>12, <2>4
    <3>2. QED
      BY <1>7, <2>2, <2>3, <3>1 DEF OneRequest
  <2>5. CASE Len(m_read_buf) = Len(r)
    BY <1>12, <2>2, <2>5, SubSeqFull DEF Symbols
  <2>6. QED
    BY <1>5, <1>12, <2>1, <2>4, <2>5
<1>16. FlattenSeq(others) = toSend
  BY <1>5, <1>12, <1>13, <1>14, <1>15, JoinCancel
<1>17. /\ m_read_buf' = <<>> /\ m_read_buf' \o toSend' = toSend
       /\ Len(answers') = n + 1 /\ answers'[n + 1] = ret /\ \A k \in 1..n : answers'[k] = answers[k]
  <2>1. m_read_buf' = <<>> /\ <<>> \o toSend = toSend
    BY <1>1, <1>5, ConcatEmptySeq DEF Reset, Symbols
  <2>2. answers' = Append(answers, ret) /\ n = Len(answers)
    BY <1>1 DEF n
  <2>3. QED
    BY <1>1, <1>5, <2>1, <2>2
<1>18. (n + 1) + 1 = n + 2 /\ Len(answers') <= Len(script)
  BY <1>5, <1>10, <1>17
<1>19. StreamInv'
  <2>1. FlattenSeq(SubSeq(script', Len(answers') + 1, Len(script'))) = m_read_buf' \o toSend'
    BY <1>1, <1>16, <1>17, <1>18 DEF others
  <2>2. script \in Scripts
    BY <1>1 DEF StreamInv
  <2>3. QED
    BY <1>1, <1>18, <2>1, <2>2 DEF StreamInv
<1>20. AnswersInOrder'
  <2>1. \A k \in 1..n : answers[k] = Verdict(script[k])
    BY <1>1, <1>2 DEF AnswersInOrder, n
  <2>2. ret = Verdict(script[n + 1])
    BY <1>7, <1>15 DEF r
  <2>3. ASSUME NEW k \in 1..Len(answers') PROVE answers'[k] = Verdict(script[k])
    <3>1. k \in 1..n \/ k = n + 1
      BY <1>5, <1>17
    <3>2. QED
      BY <1>17, <2>1, <2>2, <3>1
  <2>4. QED
    BY <1>1, <1>18, <2>3 DEF AnswersInOrder
<1>21. QED
  BY <1>19, <1>20

\* write() sends, and takes nothing from stream and buffer before it is done.
LEMMA WriteStream ==
    ASSUME TypeOK, ParserInv, StreamInv, AnswersInOrder, write
    PROVE  StreamInv' /\ AnswersInOrder'
<1>1. CASE WriteBegin
  <2>1. pc = "out" /\ m_write_idx # 0
    BY <1>1 DEF WriteBegin, ParserInv, ResponseInv, HeaderLength
  <2>2. UNCHANGED <<script, toSend, m_read_buf, answers, discarded, ret>>
    BY <1>1, <2>1 DEF WriteBegin, clientVars, history
  <2>3. QED
    BY <2>1, <2>2, StreamKept DEF StreamInv
<1>2. CASE Writev
  <2>1. pc = "sending" /\ UNCHANGED <<script, toSend, m_read_buf, answers, discarded, ret>>
    BY <1>2 DEF Writev, Send
  <2>2. QED
    BY <2>1, StreamKept DEF StreamInv
<1>3. CASE WritevLast
  <2>1. CASE pc' = "closed"
    BY <2>1, ClosedStream
  <2>2. CASE pc' # "closed" /\ ~discarded'
    BY <1>3, <2>2, AnswerStream
  <2>3. CASE pc' # "closed" /\ discarded'
    <3>1. pc = "sending" /\ pc' = "in" /\ UNCHANGED script
      BY <1>3, <2>3 DEF WritevLast, Send
    <3>2. QED
      BY <2>3, <3>1 DEF StreamInv, AnswersInOrder
  <2>4. QED
    BY <2>1, <2>2, <2>3
<1>4. CASE WriteAgain
  <2>1. pc = "sending" /\ UNCHANGED <<script, toSend, m_read_buf, answers, discarded, ret>>
    BY <1>4 DEF WriteAgain, clientVars, localVars, history
  <2>2. QED
    BY <2>1, StreamKept DEF StreamInv
<1>5. CASE WriteError
  BY <1>5, ClosedStream DEF WriteError, CloseConn
<1>6. QED
  BY <1>1, <1>2, <1>3, <1>4, <1>5 DEF write

\* Every step keeps the account.
LEMMA StreamStep ==
    ASSUME IInv, StreamInv, AnswersInOrder, [Next]_vars
    PROVE  StreamInv' /\ AnswersInOrder'
<1>1. TypeOK /\ ParserInv
  BY DEF IInv
<1>2. CASE \E s \in Scripts : Connect(s)
  BY <1>2, ConnectStream
<1>3. CASE Drain
  <2>1. pc # "closed" /\ UNCHANGED <<script, toSend, m_read_buf, answers, discarded, ret, pc>>
    BY <1>3 DEF Drain, localVars, history
  <2>2. QED
    BY <2>1, StreamKept DEF StreamInv
<1>4. CASE Hangup
  BY <1>4, ClosedStream DEF Hangup, CloseConn
<1>5. CASE read
  BY <1>1, <1>5, ReadStream
<1>6. CASE process
  BY <1>6, ProcessStream
<1>7. CASE write
  BY <1>1, <1>7, WriteStream
<1>8. CASE UNCHANGED vars
  <2>1. UNCHANGED <<script, toSend, m_read_buf, answers, discarded, ret, pc>>
    BY <1>8 DEF vars, clientVars, localVars, history
  <2>2. QED
    BY <2>1 DEF StreamInv, AnswersInOrder
<1>9. QED
  BY <1>2, <1>3, <1>4, <1>5, <1>6, <1>7, <1>8 DEF Next

\* The client gets the answers to its requests, in order, each once and none else, unless
\* init() threw away what it sent before it had an answer.
THEOREM AnsweredInOrder == Spec => []AnswersInOrder
<1>1. Init => StreamInv /\ AnswersInOrder
  BY DEF Init, StreamInv, AnswersInOrder
<1>2. IInv /\ (StreamInv /\ AnswersInOrder) /\ [Next]_vars => (StreamInv /\ AnswersInOrder)'
  BY StreamStep
<1>3. QED
  BY <1>1, <1>2, IInvHolds, PTL DEF Spec
================================================================================
