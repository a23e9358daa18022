-------------------------------- MODULE HttpConn -------------------------------
(***************************************************************************)
(* One HttpConn of http/httpConn.{h,cpp}, an element of the array users    *)
(* that serves one connection after the other: read() takes what arrived,  *)
(* process() parses it line by line and prepares a response, write() sends *)
(* it with writev().  Reactor shows that these never run at the same time  *)
(* on one object, but for a tick that closes it under a worker; here they  *)
(* follow each other, and what they do with the bytes is kept.             *)
(*                                                                         *)
(* An iteration of the loop of process_read() is a step, and so is a call  *)
(* of writev().  The terminators that the parser writes over line ends and *)
(* blanks are left out: a line is the text between two of them, and no     *)
(* byte that was overwritten is looked at again as anything else.          *)
(*                                                                         *)
(* Left out: a path that is longer than FILENAME_LEN, which do_request()   *)
(* cuts off, and a file that stat() finds and open() or, if it is not      *)
(* empty, mmap() does not.  The constructor sets no field; users is one    *)
(* allocation of megabytes, which comes from the system as zeros, and so   *)
(* the pointer and the sizes start here.                                   *)
(***************************************************************************)
EXTENDS HttpRequest, SequencesExt

CONSTANTS Scripts,            \* what clients send: sequences of requests
          READ_BUFFER_SIZE,
          WRITE_BUFFER_SIZE,
          SendBuffer,         \* what the socket takes before writev() says EAGAIN
          MaxConns            \* bound on the connections

ASSUME SizesAssumption ==
    /\ READ_BUFFER_SIZE \in Nat \ {0} /\ WRITE_BUFFER_SIZE \in Nat \ {0}
    /\ SendBuffer \in Nat \ {0} /\ MaxConns \in Nat
\* The 1024 bytes of the code hold the five lines of any header, a form, and the '\0'.
ASSUME ResponseFits == WRITE_BUFFER_SIZE > 7

\* One request and no more: what comes before its end is not answered, or ends the connection.
OneRequest(r) == \A n \in 0..Len(r) - 1 :
    LET part == SubSeq(r, 1, n) IN Verdict(part) # "NO_REQUEST" => ~StaysOpen(part)

ASSUME ScriptsAssumption ==
    \A s \in Scripts : s \in Seq(Seq(STRING)) /\ \A k \in DOMAIN s : OneRequest(s[k])

VARIABLES
    \* the client and the socket
    conns,            \* connections so far
    script, toSend,   \* what the client sends, and what of it was not received yet
    room,             \* room in the send buffer of the socket
    \* the fields of HttpConn
    m_read_buf,       \* its first m_read_idx symbols
    m_checked_idx, m_start_line, m_check_state, m_content_length, m_keepAlive, m_url,
    m_write_idx, m_iv, m_file_stat, m_file_address,
    \* where the connection is, and locals
    pc,               \* "in" and "out": epoll waits for that
    line_status, ret, bytes_have_send,
    mapped,           \* the file mappings of this object
    \* history
    sent,             \* what the client got of the response in hand
    answers,          \* the responses that count as sent
    tight,            \* a writev() did not take all of the response in hand
    lateBody,         \* a body came in a later read() than its header
    discarded,        \* init() threw away bytes of a later request
    abandoned         \* closed with a mapped file

parseVars == <<m_checked_idx, m_start_line, m_check_state, m_content_length, m_keepAlive, m_url>>
outVars == <<m_write_idx, m_iv, m_file_stat>>
mapVars == <<m_file_address, mapped>>
localVars == <<line_status, ret, bytes_have_send>>
clientVars == <<conns, script, toSend, room>>
history == <<sent, answers, tight, lateBody, discarded, abandoned>>
vars == <<clientVars, m_read_buf, parseVars, outVars, mapVars, pc, localVars, history>>

NoUrl == "none"
NULL == 0
MAP_FAILED == -1

Init ==
    /\ conns = 0 /\ script = <<>> /\ toSend = <<>> /\ room = SendBuffer
    /\ m_read_buf = <<>>
    /\ m_checked_idx = 0 /\ m_start_line = 0 /\ m_check_state = "REQUESTLINE"
    /\ m_content_length = 0 /\ m_keepAlive = FALSE /\ m_url = NoUrl
    /\ m_write_idx = 0 /\ m_iv = <<>> /\ m_file_stat = 0
    /\ m_file_address = NULL /\ mapped = {}
    /\ pc = "closed" /\ line_status = "OK" /\ ret = "NO_REQUEST" /\ bytes_have_send = 0
    /\ sent = 0 /\ answers = <<>> /\ tight = FALSE
    /\ lateBody = FALSE /\ discarded = FALSE /\ abandoned = FALSE

-------------------------------------------------------------------------------
(* Helpers that several operations call *)

\* Slip: the line that was parsed last is taken for the start of the next request.
ResetKeepsState ==
    /\ m_read_buf' = <<>>
    /\ m_checked_idx' = 0 /\ m_start_line' = 0
    /\ m_content_length' = 0 /\ m_keepAlive' = FALSE /\ m_url' = NoUrl
    /\ m_write_idx' = 0
    /\ UNCHANGED m_check_state

\* Slip: the indexes of the parser go on from the last request.
ResetKeepsIndexes ==
    /\ m_read_buf' = <<>>
    /\ UNCHANGED <<m_checked_idx, m_start_line>> /\ m_check_state' = "REQUESTLINE"
    /\ m_content_length' = 0 /\ m_keepAlive' = FALSE /\ m_url' = NoUrl
    /\ m_write_idx' = 0

\* Slip: whoever asked once is kept open for good.
ResetKeepsAlive ==
    /\ m_read_buf' = <<>>
    /\ m_checked_idx' = 0 /\ m_start_line' = 0 /\ m_check_state' = "REQUESTLINE"
    /\ m_content_length' = 0 /\ m_url' = NoUrl
    /\ m_write_idx' = 0
    /\ UNCHANGED m_keepAlive

\* init() without parameters; m_file_address, m_file_stat and m_iv stay as they are.
Reset ==
    /\ m_read_buf' = <<>>
    /\ m_checked_idx' = 0 /\ m_start_line' = 0 /\ m_check_state' = "REQUESTLINE"
    /\ m_content_length' = 0 /\ m_keepAlive' = FALSE /\ m_url' = NoUrl
    /\ m_write_idx' = 0

\* Slip: m_file_address is set to 0 and the mapping stays.
UnmapForgets ==
    /\ m_file_address' = NULL
    /\ UNCHANGED mapped

\* munmap() of m_file_stat.st_size bytes; another length than that of the mapping is
\* taken to leave the mapping.
unmap ==
    /\ m_file_address' = NULL
    /\ mapped' = mapped \ {[at |-> m_file_address, size |-> m_file_stat]}

\* mmap() of an empty file fails, and nobody looks.
Map(size) ==
    IF size = 0
       THEN m_file_address' = MAP_FAILED /\ UNCHANGED mapped
       ELSE LET at == Min(1..MaxConns + 1 \ {m.at : m \in mapped})
            IN  m_file_address' = at /\ mapped' = mapped \union {[at |-> at, size |-> size]}

\* close_conn(); the client is gone.
CloseConn ==
    /\ pc' = "closed"
    /\ script' = <<>> /\ toSend' = <<>>
    /\ UNCHANGED <<conns, room>>

-------------------------------------------------------------------------------
(* The client *)

\* accept() and init(sockfd, addr).
Connect(s) ==
    /\ pc = "closed" /\ conns < MaxConns
    /\ conns' = conns + 1
    /\ script' = s /\ toSend' = FlattenSeq(s)
    /\ room' = SendBuffer
    /\ Reset
    /\ pc' = "in"
    /\ answers' = <<>> /\ tight' = FALSE /\ sent' = 0
    /\ lateBody' = FALSE /\ discarded' = FALSE
    /\ UNCHANGED <<m_iv, m_file_stat, mapVars, localVars, abandoned>>

\* The client reads what was sent to it.
Drain ==
    /\ pc \in {"out", "sending"} /\ room < SendBuffer
    /\ room' = SendBuffer
    /\ UNCHANGED <<conns, script, toSend, m_read_buf, parseVars, outVars, mapVars, pc, localVars,
                   history>>

\* A hang-up, a failing recv() or the timer, between two operations.
Hangup ==
    /\ pc \in {"in", "out"}
    /\ CloseConn
    /\ abandoned' = (abandoned \/ mapped # {})
    /\ UNCHANGED <<m_read_buf, parseVars, outVars, mapVars, localVars,
                   sent, answers, tight, lateBody, discarded>>

-------------------------------------------------------------------------------
(* read() *)

m_read_idx == Len(m_read_buf)

\* What has arrived of the stream is read until recv() says EAGAIN.
Read(n) ==
    /\ pc = "in"
    /\ m_read_idx + n < READ_BUFFER_SIZE
    /\ m_read_buf' = m_read_buf \o SubSeq(toSend, 1, n)
    /\ toSend' = SubSeq(toSend, n + 1, Len(toSend))
    /\ lateBody' = (lateBody \/ m_check_state = "CONTENT")
    /\ pc' = "parse" /\ line_status' = "OK"
    /\ UNCHANGED <<conns, script, room, parseVars, outVars, mapVars, ret, bytes_have_send,
                   sent, answers, tight, discarded, abandoned>>

\* At least as much arrives as there is room for: the next recv() is given no room,
\* returns 0, and that is taken for the end of the connection.
ReadFull ==
    /\ pc = "in"
    /\ m_read_idx + Len(toSend) >= READ_BUFFER_SIZE
    /\ m_read_buf' = m_read_buf \o SubSeq(toSend, 1, READ_BUFFER_SIZE - m_read_idx)
    /\ CloseConn
    /\ UNCHANGED <<parseVars, outVars, mapVars, localVars, history>>

-------------------------------------------------------------------------------
(* process_write() *)

AddResponse(idx, len) ==
    IF idx >= WRITE_BUFFER_SIZE \/ len >= WRITE_BUFFER_SIZE - 1 - idx THEN idx ELSE idx + len

\* Every line of a header is given the length 1, and so is the form after it: the status
\* line and what add_headers() adds, whose results are not looked at.
WithHeader(idx) ==
    LET line(i) == AddResponse(i, 1) IN line(line(line(line(line(idx)))))

\* Slip: m_iv_count is left at 1 for a file.
IovOneEntry(code, idx, size) ==
    IF code = "FILE_REQUEST" THEN <<WithHeader(idx)>> ELSE <<AddResponse(WithHeader(idx), 1)>>

Iov(code, idx, size) ==
    IF code = "FILE_REQUEST" THEN <<WithHeader(idx), size>> ELSE <<AddResponse(WithHeader(idx), 1)>>

\* The end of process(): the response is prepared and EPOLLOUT armed, or the connection
\* is closed because the form of an error did not fit.
Respond(code, size) ==
    LET iov == Iov(code, m_write_idx, size)
        fits == code = "FILE_REQUEST" \/ iov[1] > WithHeader(m_write_idx) IN
    /\ ret' = code
    /\ m_write_idx' = iov[1]
    /\ IF fits THEN m_iv' = iov /\ pc' = "out" /\ UNCHANGED clientVars
               ELSE CloseConn /\ UNCHANGED m_iv
    /\ sent' = 0 /\ tight' = FALSE

\* do_request(): the file behind m_url is looked up and mapped.
do_request ==
    LET found == m_url \in DOMAIN Files
        size == IF found THEN Files[m_url].size ELSE m_file_stat IN
    /\ m_file_stat' = size
    /\ IF Answer(m_url) = "FILE_REQUEST" THEN Map(size) ELSE UNCHANGED mapVars
    /\ Respond(Answer(m_url), size)

-------------------------------------------------------------------------------
(* process_read(), one iteration after the other, and the rest of process() *)

Byte(i) == m_read_buf[i + 1]

\* parse_line(): up to the first CR or LF from m_checked_idx on.
Special(i) == Byte(i) \in {"CR", "LF"}
Line(status, at) == [status |-> status, checked |-> at, text |-> <<>>]
Found(at) ==
    [status |-> "OK", checked |-> at, text |-> SubSeq(m_read_buf, m_start_line + 1, at - 2)]

LineUpTo(i) ==
    IF Byte(i) = "CR" /\ i + 1 = m_read_idx THEN Line("OPEN", i)
    ELSE IF Byte(i) = "CR" /\ Byte(i + 1) = "LF" THEN Found(i + 2)
    ELSE IF Byte(i) = "LF" /\ i > 1 /\ Byte(i - 1) = "CR" THEN Found(i + 1)
    ELSE Line("BAD", i)

parse_line ==
    IF \E i \in m_checked_idx..m_read_idx - 1 : Special(i)
       THEN LineUpTo(CHOOSE i \in m_checked_idx..m_read_idx - 1 :
                        Special(i) /\ \A j \in m_checked_idx..i - 1 : ~Special(j))
       ELSE Line("OPEN", m_read_idx)

\* The condition of the loop: in a body no line is looked for, the first time.
Scan == IF m_check_state = "CONTENT" /\ line_status = "OK"
           THEN Found(m_checked_idx)
           ELSE parse_line

GetLine(state, line) ==
    /\ pc = "parse" /\ line.status = "OK" /\ m_check_state = state
    /\ m_checked_idx' = line.checked /\ m_start_line' = line.checked
    /\ UNCHANGED <<m_read_buf, bytes_have_send, answers, lateBody, discarded, abandoned>>

\* No line, or a bad one: NO_REQUEST, and EPOLLIN is armed.
NoLine(line) ==
    /\ pc = "parse" /\ line.status # "OK"
    /\ m_checked_idx' = line.checked /\ line_status' = line.status
    /\ pc' = "in"
    /\ UNCHANGED <<clientVars, m_read_buf, m_start_line, m_check_state, m_content_length,
                   m_keepAlive, m_url, outVars, mapVars, ret, bytes_have_send, history>>

\* parse_request_line(): method, url and version, cut at the first two blanks; a host
\* before the path is skipped.
Blanks(text) == {i \in 1..Len(text) : text[i] = "sp"}
FirstBlank(text) == Min(Blanks(text))
SecondBlank(text) == Min(Blanks(text) \ {FirstBlank(text)})
UrlPart(text) ==
    LET url == SubSeq(text, FirstBlank(text) + 1, SecondBlank(text) - 1) IN
    IF url # <<>> /\ Head(url) = "http://" THEN Tail(url) ELSE url
IsGet(text) ==
    /\ Cardinality(Blanks(text)) > 1
    /\ SubSeq(text, 1, FirstBlank(text) - 1) = <<"GET">>
    /\ SubSeq(text, SecondBlank(text) + 1, Len(text)) = <<"HTTP/1.1">>
    /\ UrlPart(text) \in {<<p>> : p \in Paths}

ParseRequestLine(line) ==
    /\ GetLine("REQUESTLINE", line) /\ IsGet(line.text)
    /\ m_url' = Head(UrlPart(line.text))
    /\ m_check_state' = "HEADER"
    /\ line_status' = "OK"
    /\ UNCHANGED <<clientVars, m_content_length, m_keepAlive, outVars, mapVars, pc, ret, sent, tight>>

BadRequestLine(line) ==
    /\ GetLine("REQUESTLINE", line) /\ ~IsGet(line.text)
    /\ Respond("BAD_REQUEST", 0)
    /\ line_status' = "OK"
    /\ UNCHANGED <<m_check_state, m_content_length, m_keepAlive, m_url, m_file_stat, mapVars>>

\* parse_request_headers(), a header.
ParseHeader(line) ==
    /\ GetLine("HEADER", line) /\ line.text # <<>>
    /\ m_keepAlive' = (m_keepAlive \/ line.text = <<KeepAlive>>)
    /\ m_content_length' = IF line.text \in {<<h>> : h \in DOMAIN LengthOf}
                              THEN LengthOf[Head(line.text)] ELSE m_content_length
    /\ line_status' = "OK"
    /\ UNCHANGED <<clientVars, m_check_state, m_url, outVars, mapVars, pc, ret, sent, tight>>

\* parse_request_headers(), the empty line.
AwaitContent(line) ==
    /\ GetLine("HEADER", line) /\ line.text = <<>> /\ m_content_length # 0
    /\ m_check_state' = "CONTENT"
    /\ line_status' = "OK"
    /\ UNCHANGED <<clientVars, m_content_length, m_keepAlive, m_url, outVars, mapVars, pc, ret, sent, tight>>

EndOfHeader(line) ==
    /\ GetLine("HEADER", line) /\ line.text = <<>> /\ m_content_length = 0
    /\ do_request
    /\ line_status' = "OK"
    /\ UNCHANGED <<m_check_state, m_content_length, m_keepAlive, m_url>>

\* Slip: one byte more than the body has is waited for.
HasContentTooLate(checked) == m_read_idx > m_content_length + checked

HasContent(checked) == m_read_idx >= m_content_length + checked

\* parse_request_content(): the body is there, or it is scanned for lines after all.
Content(line) ==
    /\ GetLine("CONTENT", line) /\ HasContent(line.checked)
    /\ do_request
    /\ line_status' = "OK"
    /\ UNCHANGED <<m_check_state, m_content_length, m_keepAlive, m_url>>

ContentIncomplete(line) ==
    /\ GetLine("CONTENT", line) /\ ~HasContent(line.checked)
    /\ line_status' = "OPEN"
    /\ UNCHANGED <<clientVars, m_check_state, m_content_length, m_keepAlive, m_url, outVars, mapVars,
                   pc, ret, sent, tight>>

-------------------------------------------------------------------------------
(* write() *)

\* EPOLLOUT is reported when there is room.
WriteBegin ==
    /\ pc = "out" /\ room > 0
    /\ IF m_write_idx = 0
          THEN pc' = "in" /\ Reset /\ UNCHANGED bytes_have_send
          ELSE /\ pc' = "sending" /\ bytes_have_send' = 0
               /\ UNCHANGED <<m_read_buf, parseVars, m_write_idx>>
    /\ UNCHANGED <<clientVars, m_iv, m_file_stat, mapVars, line_status, ret, history>>

Total == IF Len(m_iv) = 2 THEN m_iv[1] + m_iv[2] ELSE m_iv[1]
Taken == Min({room, Total})

\* What is compared with what has been sent is the rest of the header alone.
Done == m_write_idx - bytes_have_send' <= bytes_have_send'

\* What the header promises: its own five lines and the content it announces.
Promised == 5 + (IF ret = "FILE_REQUEST" THEN m_file_stat ELSE 1)

\* One writev(), always from the start of the response.
Send ==
    /\ pc = "sending" /\ room > 0
    /\ room' = room - Taken
    /\ bytes_have_send' = bytes_have_send + Taken
    /\ tight' = (tight \/ Taken < Total)

\* writev() took too little to stop.
Writev ==
    /\ Send /\ ~Done
    /\ sent' = sent + Taken
    /\ UNCHANGED <<conns, script, toSend, m_read_buf, parseVars, outVars, mapVars, pc, line_status,
                   ret, answers, lateBody, discarded, abandoned>>

\* The response counts as sent: the object is reset or the connection closed.
WritevLast ==
    /\ Send /\ Done
    /\ unmap
    /\ sent' = 0
    /\ answers' = Append(answers, ret)
    /\ IF m_keepAlive
          THEN /\ Reset /\ pc' = "in"
               /\ discarded' = (discarded \/ m_read_idx > Len(script[Len(answers) + 1]))
               /\ UNCHANGED <<script, toSend>>
          ELSE /\ pc' = "closed" /\ script' = <<>> /\ toSend' = <<>>
               /\ UNCHANGED <<m_read_buf, parseVars, m_write_idx, discarded>>
    /\ UNCHANGED <<conns, m_iv, m_file_stat, line_status, ret, lateBody, abandoned>>

\* Slip: EPOLLOUT is not armed again.
WriteAgainForgets ==
    /\ pc = "sending" /\ room = 0
    /\ pc' = "off"
    /\ UNCHANGED <<clientVars, m_read_buf, parseVars, outVars, mapVars, localVars, history>>

\* EAGAIN.
WriteAgain ==
    /\ pc = "sending" /\ room = 0
    /\ pc' = "out"
    /\ UNCHANGED <<clientVars, m_read_buf, parseVars, outVars, mapVars, localVars, history>>

WriteError ==
    /\ pc = "sending"
    /\ unmap
    /\ CloseConn
    /\ UNCHANGED <<m_read_buf, parseVars, outVars, localVars, history>>

-------------------------------------------------------------------------------
read == (\E n \in 1..Len(toSend) : Read(n)) \/ ReadFull

process == \E line \in {Scan} :
    \/ NoLine(line) \/ ParseRequestLine(line) \/ BadRequestLine(line) \/ ParseHeader(line)
    \/ AwaitContent(line) \/ EndOfHeader(line) \/ Content(line) \/ ContentIncomplete(line)

write == WriteBegin \/ Writev \/ WritevLast \/ WriteAgain \/ WriteError

Next == (\E s \in Scripts : Connect(s)) \/ Drain \/ Hangup \/ read \/ process \/ write

Spec == Init /\ [][Next]_vars

\* The client sends what it has and reads what it is sent; main and the workers go on.
Fairness ==
    /\ WF_vars(read) /\ WF_vars(Drain)
    /\ WF_vars(process)
    /\ WF_vars(WriteBegin) /\ WF_vars(Writev \/ WritevLast \/ WriteAgain)

FairSpec == Spec /\ Fairness

-------------------------------------------------------------------------------
(* Properties *)

Codes == {"NO_REQUEST", "BAD_REQUEST", "NO_RESOURCE", "FORBIDDEN_REQUEST", "FILE_REQUEST"}

\* Every variable keeps its type and the three indexes of the parser their order.
TypeOK ==
    /\ conns \in 0..MaxConns /\ room \in 0..SendBuffer
    /\ toSend \in Seq(STRING) /\ m_read_buf \in Seq(STRING)
    /\ m_read_idx <= READ_BUFFER_SIZE
    /\ m_start_line \in 0..m_checked_idx /\ m_checked_idx \in 0..m_read_idx
    /\ m_check_state \in {"REQUESTLINE", "HEADER", "CONTENT"}
    /\ m_content_length \in Nat
    /\ m_keepAlive \in BOOLEAN
    /\ m_url \in Paths \union {NoUrl}
    /\ m_write_idx \in 0..WRITE_BUFFER_SIZE
    /\ m_iv \in Seq(Nat) /\ m_file_stat \in Nat
    /\ m_file_address \in Nat \union {MAP_FAILED}
    /\ \A m \in mapped : m.at \in Nat \ {NULL} /\ m.size \in Nat \ {0}
    /\ pc \in {"closed", "in", "parse", "out", "sending"}
    /\ line_status \in {"OK", "OPEN", "BAD"}
    /\ ret \in Codes
    /\ bytes_have_send \in Nat /\ sent \in Nat
    /\ answers \in Seq(Codes)
    /\ {tight, lateBody, discarded, abandoned} \subseteq BOOLEAN

\* However the input is cut into pieces, a request is answered as HttpRequest says of all
\* that has arrived, and not earlier; and not later, but for a body that came after its
\* header.
VerdictRight ==
    /\ pc \in {"out", "sending"} => ret = Verdict(m_read_buf)
    /\ pc = "in" /\ ~lateBody => Verdict(m_read_buf) = "NO_REQUEST"

\* The server closes a connection after a response, or keeps it, as the request it answers
\* has asked for, whatever requests before it on the connection or on the object asked for.
KeepAliveHonoured == [][WritevLast => (pc' = "in") = StaysOpen(m_read_buf)]_vars

\* The client gets the answers to its requests, in order, each once and none else, unless
\* it sent a request before it had the answer to the one before (httpConn.cpp:172).
AnswersInOrder ==
    pc # "closed" /\ ~discarded =>
        /\ Len(answers) <= Len(script)
        /\ \A k \in 1..Len(answers) : answers[k] = Verdict(script[k])

\* A response that counts as sent is the one its header promises, unless a writev() did
\* not take all of it: then its end may be missing, or its beginning come twice
\* (httpConn.cpp:142).
SentWhole == [][WritevLast => sent + Taken = Promised \/ tight']_vars

\* A file is mapped from do_request() until its response is sent, once, and unmapped with
\* the address and the length it was mapped with, unless a connection was closed in between.
MappedWhileSending ==
    ~abandoned =>
        /\ mapped = IF m_file_address > NULL
                       THEN {[at |-> m_file_address, size |-> m_file_stat]} ELSE {}
        /\ mapped # {} => pc \in {"out", "sending"}

\* Every request of a client whose requests can be understood is answered, or the
\* connection is closed; a late body or bytes thrown away may leave the client waiting.
Understood == \A k \in DOMAIN script : Verdict(script[k]) # "NO_REQUEST"
RequestServed ==
    \A k \in 1..2 :
        pc # "closed" /\ k <= Len(script) /\ Understood ~>
            Len(answers) >= k \/ pc = "closed" \/ lateBody \/ discarded
===============================================================================
