------------------------------ MODULE HttpRequest ------------------------------
(***************************************************************************)
(* What a request is and which answer it deserves, said of the bytes as a  *)
(* whole: no parser state, no pieces.  HttpConn, which gets them in pieces *)
(* and parses line by line, is checked against this.                       *)
(*                                                                         *)
(* Input is a sequence of symbols.  CR, LF and sp (a blank) are bytes; the *)
(* other symbols stand for a word: a path, "http://" with a host, a header *)
(* line.  Each takes one place of the read buffer; two words that touch    *)
(* are not one of these words.                                             *)
(***************************************************************************)
EXTENDS Integers, Sequences, FiniteSetsExt

CONSTANTS Paths,     \* what can be asked for, from its first '/' on
          Files,     \* the paths stat() finds: who may read it, what it is, its size
          LengthOf   \* the Content-Length headers, with the number they give

ASSUME FilesAssumption ==
    /\ DOMAIN Files \subseteq Paths
    /\ \A p \in DOMAIN Files : Files[p] \in [readable : BOOLEAN, dir : BOOLEAN, size : Nat]
ASSUME PathsAssumption == Paths \intersect {"CR", "LF", "sp", "http://"} = {}
ASSUME LengthsAssumption == \A h \in DOMAIN LengthOf : LengthOf[h] \in Nat

KeepAlive == "Connection: keep-alive"

\* The answer to a request that was understood, from the file behind its path.
Answer(path) ==
    IF path \notin DOMAIN Files THEN "NO_RESOURCE"
    ELSE IF ~Files[path].readable THEN "FORBIDDEN_REQUEST"
    ELSE IF Files[path].dir THEN "BAD_REQUEST"
    ELSE "FILE_REQUEST"

Forms(p) == {<<"GET", "sp", p, "sp", "HTTP/1.1">>,
             <<"GET", "sp", "http://", p, "sp", "HTTP/1.1">>}

\* Where a line ends, and where something ends that is no line.
LineEnds(s) == {i \in 1..Len(s) - 1 : s[i] = "CR" /\ s[i + 1] = "LF"}
Stray(s, i) ==
    \/ s[i] = "CR" /\ i < Len(s) /\ s[i + 1] # "LF"
    \/ s[i] = "LF" /\ (i = 1 \/ s[i - 1] # "CR")
CleanTo(s, n) == \A i \in 1..n : ~Stray(s, i)

\* The header ends with an empty line.
BlankLines(s) == {i \in LineEnds(s) : i + 2 \in LineEnds(s)}

\* The symbols up to n that are a line of their own.
Headers(s, n) == {i \in 1..n : i - 2 \in LineEnds(s) /\ i + 1 \in LineEnds(s)}

\* The last Content-Length counts.
Lengths(s, n) == {i \in Headers(s, n) : s[i] \in DOMAIN LengthOf}
BodyLength(s, n) == IF Lengths(s, n) = {} THEN 0 ELSE LengthOf[s[Max(Lengths(s, n))]]

Complete(s) ==
    /\ BlankLines(s) # {}
    /\ LET n == Min(BlankLines(s))
       IN  CleanTo(s, n) /\ Len(s) - (n + 3) >= BodyLength(s, n)

\* The first line, and whether it is a request line.
FirstLine(s) == SubSeq(s, 1, Min(LineEnds(s)) - 1)
IsRequest(line) == \E p \in Paths : line \in Forms(p)

\* The answer to what has arrived, "NO_REQUEST" as long as more is needed.
Verdict(s) ==
    IF LineEnds(s) = {} \/ ~CleanTo(s, Min(LineEnds(s))) THEN "NO_REQUEST"
    ELSE IF ~IsRequest(FirstLine(s)) THEN "BAD_REQUEST"
    ELSE IF ~Complete(s) THEN "NO_REQUEST"
    ELSE Answer(CHOOSE p \in Paths : FirstLine(s) \in Forms(p))

\* The connection is to stay open after the answer; never after a line that is no request.
StaysOpen(s) ==
    /\ IsRequest(FirstLine(s))
    /\ \E i \in Headers(s, Min(BlankLines(s))) : s[i] = KeepAlive
===============================================================================
