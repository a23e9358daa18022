--------------------------------- MODULE Buffer --------------------------------
(***************************************************************************)
(* The class Buffer of buffer/buffer.{h,cpp}: a vector of bytes of which   *)
(* those from readPos_ up to writePos_ are content, the ones before can be *)
(* used again and the ones behind can be written.  Log owns one and uses   *)
(* it under its mutex, so operations follow each other.                    *)
(*                                                                         *)
(* Positions count from 0 as in the code; byte i is buffer_[i + 1].        *)
(***************************************************************************)
EXTENDS Integers, SequencesExt

CONSTANTS Bytes, NUL,    \* the bytes, and the byte 0 among them
          Strings,       \* what can be written at once
          InitBuffSize,  \* the size the constructor is given
          ExtraSize,     \* the second piece of readv(), on the stack
          MaxContent     \* bound on the bytes held at a time

ASSUME BufferAssumption ==
    /\ InitBuffSize \in Nat \ {0} /\ ExtraSize \in Nat /\ MaxContent \in Nat
    /\ NUL \in Bytes /\ Strings \subseteq Seq(Bytes)

VARIABLES buffer_, readPos_, writePos_,
          broken,   \* writePos_ is behind the end: what follows is undefined
          peak      \* history: the most bytes there had to be room for so far

vars == <<buffer_, readPos_, writePos_, broken, peak>>

Zeros(n) == [i \in 1..n |-> NUL]

Init ==
    /\ buffer_ = Zeros(InitBuffSize)
    /\ readPos_ = 0 /\ writePos_ = 0
    /\ broken = FALSE /\ peak = 0

-------------------------------------------------------------------------------
(* The object as a value: what the methods that Append() calls make of it  *)

This == [buf |-> buffer_, r |-> readPos_, w |-> writePos_]

Readable(b) == b.w - b.r
Writable(b) == Len(b.buf) - b.w

\* std::copy() of s to the position at.
Copy(buf, at, s) ==
    [i \in 1..Len(buf) |-> IF i > at /\ i <= at + Len(s) THEN s[i - at] ELSE buf[i]]

Content(b) == SubSeq(b.buf, b.r + 1, b.w)

\* resize(); the bytes that are added are 0.
Grown(b, len) == [b EXCEPT !.buf = @ \o Zeros(b.w + len + 1 - Len(@))]

\* The content moves to the front.
Shifted(b) == [buf |-> Copy(b.buf, 0, Content(b)), r |-> 0, w |-> Readable(b)]

\* Slip: the room in front of the content is not counted.
MakeSpaceBehind(b, len) == Grown(b, len)

\* Slip: the content moves and writePos_ does not.
MakeSpaceKeepsEnd(b, len) ==
    IF Writable(b) + b.r < len THEN Grown(b, len) ELSE [Shifted(b) EXCEPT !.w = b.w]

MakeSpace_(b, len) ==
    IF Writable(b) + b.r < len THEN Grown(b, len) ELSE Shifted(b)

EnsureWriteable(b, len) == IF Writable(b) < len THEN MakeSpace_(b, len) ELSE b

Appended(b, s) ==
    LET e == EnsureWriteable(b, Len(s))
    IN  [e EXCEPT !.buf = Copy(@, e.w, s), !.w = @ + Len(s)]

-------------------------------------------------------------------------------
(* Operations *)

BecomesFor(b, bytes) ==
    /\ buffer_' = b.buf /\ readPos_' = b.r /\ writePos_' = b.w
    /\ peak' = IF bytes > peak THEN bytes ELSE peak
    /\ UNCHANGED broken

Becomes(b) == BecomesFor(b, Readable(b))

Fits(s) == ~broken /\ Readable(This) + Len(s) <= MaxContent

\* EnsureWriteable(), called from outside.
Reserve(len) ==
    /\ ~broken /\ Readable(This) + len <= MaxContent
    /\ BecomesFor(EnsureWriteable(This, len), Readable(This) + len)

\* Append(), of a string or of what another Buffer holds.
Append_(s) == Fits(s) /\ Becomes(Appended(This, s))

\* Retrieve(); with its assertion as a guard.
Retrieve(n) ==
    /\ ~broken /\ n <= Readable(This)
    /\ Becomes([This EXCEPT !.r = @ + n])

\* RetrieveUntil(end): up to the first byte c of the content.
RetrieveUntil(c) ==
    /\ ~broken
    /\ \E i \in 1..Readable(This) :
        /\ Content(This)[i] = c
        /\ \A j \in 1..i - 1 : Content(This)[j] # c
        /\ Becomes([This EXCEPT !.r = @ + (i - 1)])

\* RetrieveAll() and RetrieveAllToStr().
RetrieveAll ==
    /\ ~broken
    /\ Becomes([buf |-> Zeros(Len(buffer_)), r |-> 0, w |-> 0])

\* Slip: writePos_ stays where it was when the room behind it has been filled.
ReadFdKeepsEnd(s) ==
    LET room == Writable(This)
        full == [This EXCEPT !.buf = Copy(@, writePos_, SubSeq(s, 1, room))] IN
    /\ Fits(s) /\ Len(s) <= room + ExtraSize
    /\ IF Len(s) <= room
          THEN Becomes([This EXCEPT !.buf = Copy(@, writePos_, s), !.w = @ + Len(s)])
          ELSE Becomes(Appended(full, SubSeq(s, room + 1, Len(s))))

\* ReadFd(): readv() fills the room behind the content, then a buffer on the stack, whose
\* bytes are appended.  An error leaves everything as it was.
ReadFd(s) ==
    LET room == Writable(This)
        full == [This EXCEPT !.buf = Copy(@, writePos_, SubSeq(s, 1, room)), !.w = Len(buffer_)] IN
    /\ Fits(s) /\ Len(s) <= room + ExtraSize
    /\ IF Len(s) <= room
          THEN Becomes([This EXCEPT !.buf = Copy(@, writePos_, s), !.w = @ + Len(s)])
          ELSE Becomes(Appended(full, SubSeq(s, room + 1, Len(s))))

\* WriteFd(): write() takes some of the content.
WriteFd(n) ==
    /\ ~broken /\ n <= Readable(This)
    /\ Becomes([This EXCEPT !.r = @ + n])

\* What Log::write() does: vsnprintf() into BeginWrite() with the room there is, then
\* HasWritten() of what it returns, the length of the whole text.
Vsnprintf(s) ==
    LET room == Writable(This) IN
    /\ Fits(s)
    /\ IF Len(s) < room
          THEN Becomes([This EXCEPT !.buf = Copy(@, writePos_, s \o <<NUL>>), !.w = @ + Len(s)])
          ELSE LET b == [This EXCEPT !.buf = Copy(@, writePos_, SubSeq(s, 1, room - 1) \o <<NUL>>),
                                     !.w = @ + Len(s)]
               IN  IF Len(s) = room
                      THEN Becomes(b)
                      ELSE /\ buffer_' = b.buf /\ writePos_' = b.w /\ broken' = TRUE
                           /\ UNCHANGED <<readPos_, peak>>

Next ==
    \/ \E s \in Strings : Append_(s) \/ ReadFd(s) \/ Vsnprintf(s)
    \/ \E n \in 0..MaxContent : Reserve(n) \/ Retrieve(n) \/ WriteFd(n)
    \/ \E c \in Bytes : RetrieveUntil(c)
    \/ RetrieveAll

Spec == Init /\ [][Next]_vars

-------------------------------------------------------------------------------
(* Properties *)

\* The positions keep their order inside the vector, until a print is longer than its
\* room (log.cpp:150).
TypeOK ==
    /\ broken \in BOOLEAN /\ peak \in Nat
    /\ buffer_ \in Seq(Bytes) /\ readPos_ \in Nat /\ writePos_ \in Nat
    /\ IF broken THEN writePos_ > Len(buffer_)
                 ELSE readPos_ <= writePos_ /\ writePos_ <= Len(buffer_)

\* However often the content is moved and taken from, the vector stays below twice the
\* most it had to hold: room in front is used again before the vector grows.
SizeBounded == Len(buffer_) <= InitBuffSize \/ Len(buffer_) <= 2 * peak

\* Moving, growing and the two pieces of readv() are invisible: Buffer is a ByteQueue.
BQ == INSTANCE ByteQueue WITH
          content <- IF broken THEN <<>> ELSE Content(This),
          intact <- ~broken
ImplementsByteQueue == BQ!Spec
===============================================================================
