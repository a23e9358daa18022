------------------------------- MODULE AsyncLog --------------------------------
(***************************************************************************)
(* Log (log/log.{h,cpp}) over its BlockDeque (log/blockqueue.h): threads   *)
(* that log, the thread FlushLogThread() that writes the queued lines, and *)
(* the exit of the program, which runs ~Log().  The state begins where     *)
(* init() returns (main.cpp:114).                                          *)
(*                                                                         *)
(* A step is the code between two points where another thread can be seen. *)
(* A method of BlockDeque is one step: its mutex is held from its first    *)
(* line to its last, but for condConsumer_.wait(), where pop() is cut.     *)
(* Lines are numbered in the order in which write() takes them up. fputs() *)
(* puts a line into the stream of the open file; it is in the file itself  *)
(* when the stream is flushed.                                             *)
(*                                                                         *)
(* Left out: the assert() of log.cpp:131 (fopen() of the next file is      *)
(* taken to succeed), and an fflush() of the macro that another call of    *)
(* write() overtakes with its fclose(), which is undefined.                *)
(***************************************************************************)
EXTENDS Integers, Sequences, FiniteSets

CONSTANTS Loggers,     \* the threads that use the LOG_ macros
          NoThread,
          Capacity,    \* capacity_ of the queue
          MAX_LINES,   \* when write() turns to another file
          MaxLines,    \* bound on the calls of write()
          MaxDay       \* bound on the days that pass, which stay in one month

ASSUME LoggersAssumption == IsFiniteSet(Loggers) /\ NoThread \notin Loggers
ASSUME LogBoundsAssumption ==
    Capacity \in Nat \ {0} /\ MAX_LINES \in Nat \ {0} /\ MaxLines \in Nat /\ MaxDay \in 0..27

NoPart == -1           \* the file of a day that has no number in its name
Files == [day : 0..MaxDay, part : Nat \union {NoPart}]
PlainFile(d) == [day |-> d, part |-> NoPart]

VARIABLES deq_, isClose_,
          mtx_,          \* mtx_ of Log: the logger between the two halves of a write()
          toDay_, lineCount_,
          fp_,           \* the open file
          newFile,       \* local newFile of each logger
          pc,            \* where each logger is
          t,             \* local t of each logger: the day it has read
          writer,        \* where the writing thread is
          str,           \* local str of AsyncWrite_()
          woken,         \* the writing thread has been notified in its wait
          exiting,       \* where ~Log() is
          clock,         \* the day
          calls,         \* how many calls of write() have begun
          lines,         \* how many lines write() has taken up
          home,          \* history: the file that was open when each line was taken up
          written,       \* the lines put into the streams of the files, in that order
          filed,         \* the file each of them was put into
          synced,        \* how many of them were flushed; a full stream may have saved more
          direct,        \* history: the lines that found the queue full
          overlapped     \* history: two calls of write() were under way at once

queueVars == <<deq_, isClose_>>
fileVars == <<toDay_, lineCount_, fp_>>
loggerVars == <<pc, t, newFile>>
writerVars == <<writer, str>>
takenVars == <<lines, home>>
outVars == <<written, filed, synced>>
vars == <<queueVars, mtx_, fileVars, loggerVars, writerVars, woken, exiting, clock,
          calls, takenVars, outVars, direct, overlapped>>

Init ==
    /\ deq_ = <<>> /\ isClose_ = FALSE
    /\ mtx_ = NoThread
    /\ toDay_ = 0 /\ lineCount_ = 0 /\ fp_ = PlainFile(0)
    /\ newFile = [l \in Loggers |-> PlainFile(0)]
    /\ pc = [l \in Loggers |-> "idle"]
    /\ t = [l \in Loggers |-> 0]
    /\ writer = "pop" /\ str = 0 /\ woken = FALSE
    /\ exiting = "no"
    /\ clock = 0
    /\ calls = 0 /\ lines = 0 /\ home = <<>>
    /\ written = <<>> /\ filed = <<>> /\ synced = 0
    /\ direct = {} /\ overlapped = FALSE

Goto(l, at) == pc' = [pc EXCEPT ![l] = at]

\* notify_one() or notify_all() of condConsumer_: lost unless the writer is waiting.
Notify == woken' = (woken \/ writer = "wait")

empty == deq_ = <<>>
\* Slip: one more line than there is room for.
FullTooLate == Len(deq_) > Capacity

full == Len(deq_) >= Capacity

\* The line that is taken up and counted is made while fp_ is open.
TakeNext ==
    /\ lineCount_' = lineCount_ + 1
    /\ lines' = lines + 1
    /\ home' = Append(home, fp_)

\* fputs()
Puts(k) ==
    /\ written' = Append(written, k)
    /\ filed' = Append(filed, fp_)
    /\ UNCHANGED synced

\* fflush() or fclose()
Sync == synced' = Len(written)

-------------------------------------------------------------------------------
(* write() and the macro around it *)

\* The call reads the clock; the log is open and the level is high enough.
WriteBegin(l) ==
    /\ exiting = "no"
    /\ pc[l] = "idle" /\ calls < MaxLines
    /\ calls' = calls + 1
    /\ t' = [t EXCEPT ![l] = clock]
    /\ Goto(l, "test")
    /\ overlapped' = (overlapped \/ \E m \in Loggers : pc[m] # "idle")
    /\ UNCHANGED <<queueVars, mtx_, fileVars, newFile, writerVars, woken, exiting, clock,
                   takenVars, outVars, direct>>

\* The day has changed or the file is full.
NeedsFile(l) == toDay_ # t[l] \/ (lineCount_ # 0 /\ lineCount_ % MAX_LINES = 0)

\* toDay_ and lineCount_ are read without the mutex.
WriteTest(l) ==
    /\ pc[l] = "test"
    /\ Goto(l, IF NeedsFile(l) THEN "name" ELSE "line")
    /\ UNCHANGED <<queueVars, mtx_, fileVars, t, newFile, writerVars, woken, exiting, clock,
                   calls, takenVars, outVars, direct, overlapped>>

\* The mutex is taken and given up, and toDay_ is read again.
NameTest(l) ==
    /\ pc[l] = "name" /\ mtx_ = NoThread
    /\ Goto(l, IF toDay_ # t[l] THEN "day" ELSE "part")
    /\ UNCHANGED <<queueVars, mtx_, fileVars, t, newFile, writerVars, woken, exiting, clock,
                   calls, takenVars, outVars, direct, overlapped>>

NameDay(l) ==
    /\ pc[l] = "day"
    /\ newFile' = [newFile EXCEPT ![l] = PlainFile(t[l])]
    /\ toDay_' = t[l]
    /\ Goto(l, "reset")
    /\ UNCHANGED <<queueVars, mtx_, lineCount_, fp_, t, writerVars, woken, exiting, clock,
                   calls, takenVars, outVars, direct, overlapped>>

\* Slip: the lines of the new day go on being counted with those of the old one.
ResetCountNot(l) ==
    /\ pc[l] = "reset"
    /\ Goto(l, "open")
    /\ UNCHANGED <<queueVars, mtx_, fileVars, t, newFile, writerVars, woken, exiting, clock,
                   calls, takenVars, outVars, direct, overlapped>>

\* The count is set to 0 after the day, and without the mutex: an increment that another
\* logger has under way may overwrite it.
ResetCount(l) ==
    /\ pc[l] = "reset"
    /\ \/ lineCount_' = 0
       \/ \E m \in Loggers \ {l} : pc[m] = "line" /\ mtx_ = NoThread /\ UNCHANGED lineCount_
    /\ Goto(l, "open")
    /\ UNCHANGED <<queueVars, mtx_, toDay_, fp_, t, newFile, writerVars, woken, exiting, clock,
                   calls, takenVars, outVars, direct, overlapped>>

NamePart(l) ==
    /\ pc[l] = "part"
    /\ newFile' = [newFile EXCEPT ![l] = [day |-> t[l], part |-> lineCount_ \div MAX_LINES]]
    /\ Goto(l, "open")
    /\ UNCHANGED <<queueVars, mtx_, fileVars, t, writerVars, woken, exiting, clock,
                   calls, takenVars, outVars, direct, overlapped>>

\* flush(), fclose() and fopen() under the mutex.
OpenFile(l) ==
    /\ pc[l] = "open" /\ mtx_ = NoThread
    /\ fp_' = newFile[l]
    /\ Sync
    /\ Notify
    /\ Goto(l, "line")
    /\ UNCHANGED <<queueVars, mtx_, toDay_, lineCount_, t, newFile, writerVars, exiting, clock,
                   calls, takenVars, written, filed, direct, overlapped>>

\* Slip: the mutex is given up before the line is queued.
TakeUpUnlocked(l) ==
    /\ pc[l] = "line" /\ mtx_ = NoThread /\ ~full
    /\ TakeNext
    /\ Goto(l, "push")
    /\ UNCHANGED <<queueVars, mtx_, toDay_, fp_, t, newFile, writerVars, woken, exiting, clock,
                   calls, outVars, direct, overlapped>>

\* The line is made under the mutex; the queue has room for it.
TakeUp(l) ==
    /\ pc[l] = "line" /\ mtx_ = NoThread /\ ~full
    /\ mtx_' = l
    /\ TakeNext
    /\ Goto(l, "push")
    /\ UNCHANGED <<queueVars, toDay_, fp_, t, newFile, writerVars, woken, exiting, clock,
                   calls, outVars, direct, overlapped>>

\* The queue is full and the line goes straight to the stream.
PutDirectly(l) ==
    /\ pc[l] = "line" /\ mtx_ = NoThread /\ full
    /\ TakeNext
    /\ Puts(lines + 1)
    /\ direct' = direct \union {lines + 1}
    /\ Goto(l, "flush")
    /\ UNCHANGED <<queueVars, mtx_, toDay_, fp_, t, newFile, writerVars, woken, exiting, clock,
                   calls, overlapped>>

\* push_back(), which would wait on condProducer_ as long as the queue is full.  The
\* line is the last that was taken up, for the mutex is still held.
Push(l) ==
    /\ pc[l] = "push" /\ ~full
    /\ deq_' = Append(deq_, lines)
    /\ mtx_' = NoThread
    /\ Notify
    /\ Goto(l, "flush")
    /\ UNCHANGED <<isClose_, fileVars, t, newFile, writerVars, exiting, clock,
                   calls, takenVars, outVars, direct, overlapped>>

\* Slip: flush() notifies the writing thread and leaves the stream alone.
FlushQueueOnly(l) ==
    /\ pc[l] = "flush"
    /\ Notify
    /\ Goto(l, "idle")
    /\ UNCHANGED <<queueVars, mtx_, fileVars, t, newFile, writerVars, exiting, clock,
                   calls, takenVars, outVars, direct, overlapped>>

\* The macro calls flush(), without the mutex; the queue is not emptied by that.
Flush(l) ==
    /\ pc[l] = "flush"
    /\ Sync
    /\ Notify
    /\ Goto(l, "idle")
    /\ UNCHANGED <<queueVars, mtx_, fileVars, t, newFile, writerVars, exiting, clock,
                   calls, takenVars, written, filed, direct, overlapped>>

-------------------------------------------------------------------------------
(* AsyncWrite_() *)

\* Slip: the last line of the queue is taken instead of the first.
TakeLast ==
    /\ str' = deq_[Len(deq_)]
    /\ deq_' = SubSeq(deq_, 1, Len(deq_) - 1)
    /\ writer' = "put"

TakeFront ==
    /\ str' = Head(deq_)
    /\ deq_' = Tail(deq_)
    /\ writer' = "put"

PopLine ==
    /\ writer = "pop" /\ ~empty
    /\ TakeFront
    /\ UNCHANGED <<isClose_, mtx_, fileVars, loggerVars, woken, exiting, clock,
                   calls, takenVars, outVars, direct, overlapped>>

\* pop() does not look at isClose_ before it waits.
PopWait ==
    /\ writer = "pop" /\ empty
    /\ writer' = "wait"
    /\ UNCHANGED <<queueVars, mtx_, fileVars, loggerVars, str, woken, exiting, clock,
                   calls, takenVars, outVars, direct, overlapped>>

\* wait() has returned: give up if the queue is closed, wait again if it is empty.
AfterWait ==
    /\ writer = "wait"
    /\ woken' = FALSE
    /\ \/ isClose_ /\ writer' = "exited" /\ UNCHANGED <<str, deq_>>
       \/ ~isClose_ /\ empty /\ UNCHANGED <<writer, str, deq_>>
       \/ ~isClose_ /\ ~empty /\ TakeFront
    /\ UNCHANGED <<isClose_, mtx_, fileVars, loggerVars, exiting, clock,
                   calls, takenVars, outVars, direct, overlapped>>

Wake == woken /\ AfterWait

\* A condition variable may return from wait() without a notification.
SpuriousWake == ~woken /\ AfterWait

\* The line is put into whichever file is open by now; nothing is flushed.
PutLine ==
    /\ writer = "put" /\ mtx_ = NoThread
    /\ Puts(str)
    /\ writer' = "pop"
    /\ str' = 0
    /\ UNCHANGED <<queueVars, mtx_, fileVars, loggerVars, woken, exiting, clock,
                   calls, takenVars, direct, overlapped>>

-------------------------------------------------------------------------------
(* ~Log(), run when the program exits; nobody logs any more *)

ExitBegin ==
    /\ exiting = "no" /\ \A l \in Loggers : pc[l] = "idle"
    /\ exiting' = "drain"
    /\ UNCHANGED <<queueVars, mtx_, fileVars, loggerVars, writerVars, woken, clock,
                   calls, takenVars, outVars, direct, overlapped>>

\* Slip: the loop that waits for the queue to become empty is missing.
NoDrain ==
    /\ exiting = "drain"
    /\ exiting' = "close"
    /\ UNCHANGED <<queueVars, mtx_, fileVars, loggerVars, writerVars, woken, clock,
                   calls, takenVars, outVars, direct, overlapped>>

Drain ==
    /\ exiting = "drain"
    /\ IF empty THEN exiting' = "close" /\ UNCHANGED woken
                ELSE Notify /\ UNCHANGED exiting
    /\ UNCHANGED <<queueVars, mtx_, fileVars, loggerVars, writerVars, clock,
                   calls, takenVars, outVars, direct, overlapped>>

\* Close() up to the end of its critical section.
Close ==
    /\ exiting = "close"
    /\ deq_' = <<>> /\ isClose_' = TRUE
    /\ exiting' = "notify"
    /\ UNCHANGED <<mtx_, fileVars, loggerVars, writerVars, woken, clock,
                   calls, takenVars, outVars, direct, overlapped>>

CloseNotify ==
    /\ exiting = "notify"
    /\ Notify
    /\ exiting' = "join"
    /\ UNCHANGED <<queueVars, mtx_, fileVars, loggerVars, writerVars, clock,
                   calls, takenVars, outVars, direct, overlapped>>

\* join() returns; only then the stream is flushed and closed.
JoinAndClose ==
    /\ exiting = "join" /\ writer = "exited" /\ mtx_ = NoThread
    /\ Sync
    /\ exiting' = "done"
    /\ UNCHANGED <<queueVars, mtx_, fileVars, loggerVars, writerVars, woken, clock,
                   calls, takenVars, written, filed, direct, overlapped>>

Midnight ==
    /\ clock < MaxDay
    /\ clock' = clock + 1
    /\ UNCHANGED <<queueVars, mtx_, fileVars, loggerVars, writerVars, woken, exiting,
                   calls, takenVars, outVars, direct, overlapped>>

-------------------------------------------------------------------------------
write(l) ==
    \/ WriteBegin(l) \/ WriteTest(l) \/ NameTest(l) \/ NameDay(l) \/ ResetCount(l)
    \/ NamePart(l) \/ OpenFile(l) \/ TakeUp(l) \/ PutDirectly(l) \/ Push(l) \/ Flush(l)

AsyncWrite_ == PopLine \/ PopWait \/ Wake \/ SpuriousWake \/ PutLine

Destroy == ExitBegin \/ Drain \/ Close \/ CloseNotify \/ JoinAndClose

Next == (\E l \in Loggers : write(l)) \/ AsyncWrite_ \/ Destroy \/ Midnight

Spec == Init /\ [][Next]_vars

\* Threads that can run do; one that waits for a mutex that is free again and again
\* gets it.  Nobody has to begin a call or to exit, and no wait ends by chance.
Fairness ==
    /\ \A l \in Loggers :
         /\ WF_vars(WriteTest(l) \/ NameDay(l) \/ ResetCount(l) \/ NamePart(l) \/ Push(l) \/ Flush(l))
         /\ SF_vars(NameTest(l) \/ OpenFile(l) \/ TakeUp(l) \/ PutDirectly(l))
    /\ WF_vars(PopLine \/ PopWait \/ Wake) /\ SF_vars(PutLine)
    /\ WF_vars(Drain \/ Close \/ CloseNotify \/ JoinAndClose)

FairSpec == Spec /\ Fairness

-------------------------------------------------------------------------------
(* Properties *)

Lines == 1..MaxLines

\* Every variable keeps its type; the queue never holds more than it has room for.
TypeOK ==
    /\ deq_ \in Seq(Lines) /\ Len(deq_) <= Capacity
    /\ isClose_ \in BOOLEAN
    /\ mtx_ \in Loggers \union {NoThread}
    /\ toDay_ \in 0..MaxDay /\ lineCount_ \in 0..MaxLines
    /\ fp_ \in Files
    /\ newFile \in [Loggers -> Files]
    /\ pc \in [Loggers -> {"idle", "test", "name", "day", "reset", "part", "open", "line", "push", "flush"}]
    /\ t \in [Loggers -> 0..MaxDay]
    /\ writer \in {"pop", "wait", "put", "exited"}
    /\ str \in Lines \union {0}
    /\ woken \in BOOLEAN
    /\ exiting \in {"no", "drain", "close", "notify", "join", "done"}
    /\ clock \in 0..MaxDay
    /\ calls \in 0..MaxLines /\ lines \in 0..MaxLines
    /\ home \in Seq(Files)
    /\ written \in Seq(Lines) /\ filed \in Seq(Files)
    /\ synced \in Nat
    /\ direct \in SUBSET Lines
    /\ overlapped \in BOOLEAN

\* A logger that has found room in the queue still finds it when it pushes, so that it
\* never waits in push_back() with the mutex of Log, which the writer needs as well.
PushNeverWaits == \A l \in Loggers : pc[l] = "push" => ~full

\* Lines keep their order but for those that found the queue full, and such a line
\* overtakes no more than a full queue and the line in the hands of the writer.
OrderKept ==
    \A i \in DOMAIN written :
        LET overtaken == {j \in i + 1..Len(written) : written[j] < written[i]} IN
        /\ written[i] \notin direct => overtaken = {}
        /\ Cardinality(overtaken) <= Capacity + 1

\* The lines that were put into f although another file was open when they were made.
Strays(f) == {k \in 1..lines :
    home[k] # f /\ \E i \in DOMAIN written : written[i] = k /\ filed[i] = f}

\* Unless two calls of write() overlapped: a line is made while the file of its day is open;
\* a file is given up for the next one of the day when exactly MAX_LINES lines were made for it;
\* and what a file holds beyond those, the lines still queued when it was opened, is no more
\* than a full queue and the line in the hands of the writer.
FileFits == ~overlapped =>
    /\ \A l \in Loggers : pc[l] = "line" => fp_.day = t[l]
    /\ \A j, k \in DOMAIN home : home[j] = home[k] => k - j < MAX_LINES
    /\ \A k \in DOMAIN home :
          k > 1 /\ home[k - 1] # home[k] /\ home[k - 1].day = home[k].day
            => k > MAX_LINES /\ home[k - MAX_LINES] = home[k - 1]
    /\ \A i \in DOMAIN filed : Cardinality(Strays(filed[i])) <= Capacity + 1

IsPut(k) == \E i \in DOMAIN written : written[i] = k
InFile(k) == \E i \in 1..synced : written[i] = k

\* Again and again every line taken up is in a stream, also when the program exits (the calls
\* are bounded, so no new line puts this off for ever); and what is in a stream gets to the
\* file if anybody is logging, with the flush() of the macro.  A line put after the last
\* flush() stays in the stream until ~Log() closes it (ImplementsLineLog), if it gets there.
LinesWritten ==
    /\ []<>(\A k \in 1..lines : IsPut(k))
    /\ \A k \in Lines : IsPut(k) /\ (\E l \in Loggers : pc[l] # "idle") ~> InFile(k)

\* The log implements LineLog: no line is lost or written twice, and ~Log() comes to its
\* end only when all of them are in the files.
Log == INSTANCE LineLog WITH saved <- synced, closed <- exiting = "done"

ImplementsLineLog == Log!Spec

\* ~Log() gets the writing thread back (log.cpp:20 "回收子线程", reclaim the thread).
ThreadReclaimed == exiting # "no" ~> exiting = "done"
===============================================================================
