----------------------------- MODULE AsyncLogProofs ----------------------------
(***************************************************************************)
(* Proofs about AsyncLog, for any finite set of loggers, any capacity of   *)
(* the queue, any number of lines to a file, and any bounds.               *)
(*                                                                         *)
(* Lines are numbered as write() takes them up, and each of them is in     *)
(* hand or written.  That the order is kept needs no look at what comes    *)
(* after a line: the lines missing before it are known when it is written. *)
(***************************************************************************)
EXTENDS AsyncLog, FiniteSetTheorems, TLAPS

\* The loggers whose line has not been taken up yet.
OnTheWay == {"test", "name", "day", "reset", "part", "open", "line"}
Begun(p) == {l \in Loggers : p[l] \in OnTheWay}

\* Every call takes up one line.
CountInv == lines + Cardinality(Begun(pc)) = calls /\ lineCount_ <= lines

\* Who is about to push holds the mutex, and has found room.
MutexInv ==
    /\ \A l \in Loggers : pc[l] = "push" <=> mtx_ = l
    /\ mtx_ # NoThread => Len(deq_) < Capacity /\ lines > 0

\* ~Log() runs when nobody logs, and closes a queue that is empty.
ExitInv ==
    /\ exiting # "no" => \A l \in Loggers : pc[l] = "idle"
    /\ exiting \in {"close", "notify", "join", "done"} => deq_ = <<>>
    /\ exiting = "done" => writer = "exited"

\* Lines are queued in the order in which they were taken up, and what the writer holds is
\* older than all of them.
QueueInv ==
    /\ \A i \in 1..Len(deq_) : deq_[i] \in 1..lines /\ (mtx_ # NoThread => deq_[i] < lines)
    /\ \A i, j \in 1..Len(deq_) : i < j => deq_[i] < deq_[j]
    /\ writer = "put" => /\ str \in 1..lines /\ (mtx_ # NoThread => str < lines)
                         /\ \A i \in 1..Len(deq_) : str < deq_[i]

\* The line is between write() and the file: queued, with the writer or about to be pushed.
InHand(k) ==
    \/ \E i \in 1..Len(deq_) : deq_[i] = k
    \/ writer = "put" /\ k = str
    \/ mtx_ # NoThread /\ k = lines

IsWritten(k) == \E i \in 1..Len(written) : written[i] = k

\* A line that was taken up is in hand or written, and written once.
OutInv ==
    /\ \A i \in 1..Len(written) : written[i] \in 1..lines
    /\ \A i, j \in 1..Len(written) : i # j => written[i] # written[j]
    /\ \A k \in 1..lines : IsWritten(k) <=> ~InHand(k)

\* The lines that were older than line i of the files when it was written, and were not there.
Late(out, i) == {k \in 1..out[i] - 1 : \A j \in 1..i : out[j] # k}

LateInv ==
    \A i \in 1..Len(written) :
        /\ written[i] \notin direct => Late(written, i) = {}
        /\ IsFiniteSet(Late(written, i)) /\ Cardinality(Late(written, i)) <= Capacity + 1

\* The file of each line is known.
HistInv == Len(home) = lines /\ Len(filed) = Len(written)

\* No logger and no file is ahead of the clock.
DayInv == toDay_ <= clock /\ \A l \in Loggers : t[l] <= clock

\* What was counted when f was opened, and when it is full.
Part(f) == IF f.part = NoPart THEN 0 ELSE f.part
First(f) == Part(f) * MAX_LINES
Last(f) == (Part(f) + 1) * MAX_LINES

\* f is fp_ or was opened before it.
Before(f) == f.day < fp_.day \/ (f.day = fp_.day /\ Part(f) <= Part(fp_))

Alone == \A l, m \in Loggers : pc[l] # "idle" /\ pc[m] # "idle" => l = m

\* What a logger knows, by its place, of the count and of the files it leaves and opens.
Placed(l) ==
    /\ pc[l] # "idle" => toDay_ <= t[l]
    /\ pc[l] = "name" => NeedsFile(l)
    /\ pc[l] = "day" => toDay_ # t[l]
    /\ pc[l] = "part" => toDay_ = t[l] /\ lineCount_ = Last(fp_)
    /\ pc[l] = "reset" => newFile[l] = PlainFile(t[l]) /\ toDay_ = t[l] /\ fp_.day < t[l]
    /\ pc[l] = "open" =>
          /\ newFile[l].day = t[l] /\ toDay_ = t[l] /\ lineCount_ = First(newFile[l])
          /\ fp_.day < t[l] \/ (fp_.day = t[l] /\ Part(newFile[l]) = Part(fp_) + 1)
    /\ pc[l] = "line" => toDay_ = t[l] /\ lineCount_ \in First(fp_)..Last(fp_) - 1

\* Of calls that do not overlap one is under way.  The open file is the one of the day and of
\* the count, but for the time between the two names of the day; and when the line is made
\* a file that was opened is not an empty one, unless it was the first of the day.
FileInv ==
    ~overlapped =>
        /\ Alone
        /\ \A l \in Loggers : Placed(l)
        /\ (\A l \in Loggers : pc[l] \notin {"reset", "open"}) => toDay_ = fp_.day
        /\ toDay_ = fp_.day => lineCount_ \in First(fp_)..Last(fp_)
        /\ (\A l \in Loggers : pc[l] \notin {"reset", "open", "line"}) =>
              lineCount_ = 0 \/ lineCount_ # First(fp_)

\* The lines counted for the open file are the last ones that were made for it; files follow
\* one another, each of them filled before the next one of its day.
HomeInv ==
    ~overlapped =>
        /\ toDay_ = fp_.day =>
              /\ \A k \in 1..lines : home[k] = fp_ <=> k > lines - (lineCount_ - First(fp_))
              /\ lineCount_ = First(fp_) /\ lines > 0 /\ home[lines].day = fp_.day =>
                    lines >= MAX_LINES /\ home[lines - MAX_LINES + 1] = home[lines]
        /\ \A k \in 1..lines : Before(home[k])
        /\ \A i \in 1..Len(filed) : Before(filed[i])
        /\ \A j, k \in 1..lines : home[j] = home[k] => k - j < MAX_LINES
        /\ \A k \in 1..lines :
              k > 1 /\ home[k - 1] # home[k] /\ home[k - 1].day = home[k].day
                => k > MAX_LINES /\ home[k - MAX_LINES] = home[k - 1]

\* The lines of another file that were put into f, or are in hand while f is open.
PutInto(k, f) == \E i \in 1..Len(written) : written[i] = k /\ filed[i] = f
Astray(f) == {k \in 1..lines : home[k] # f /\ (PutInto(k, f) \/ (f = fp_ /\ InHand(k)))}

StrayInv ==
    ~overlapped => \A f \in Files : IsFiniteSet(Astray(f)) /\ Cardinality(Astray(f)) <= Capacity + 1

IInv ==
    /\ TypeOK /\ CountInv /\ MutexInv /\ ExitInv /\ QueueInv /\ OutInv /\ LateInv
    /\ HistInv /\ DayInv /\ FileInv /\ HomeInv /\ StrayInv

-------------------------------------------------------------------------------
(* What the steps do to the lines *)

\* No line is taken up, moved or written.
Still ==
    /\ UNCHANGED <<deq_, mtx_, lines, home, written, filed, direct>>
    /\ writer' = "put" <=> writer = "put"
    /\ writer = "put" => str' = str

\* The writer takes the first line of the queue.
Takes ==
    /\ writer # "put" /\ deq_ # <<>>
    /\ TakeFront
    /\ UNCHANGED <<mtx_, lines, home, written, filed, direct>>

\* A line moves by one of four steps: all others leave the lines where they are.
LEMMA LineStep ==
    ASSUME TypeOK, ExitInv, [Next]_vars
    PROVE  \/ Still \/ Takes \/ PutLine
           \/ \E l \in Loggers : TakeUp(l) \/ PutDirectly(l) \/ Push(l)
<1> USE DEF queueVars, fileVars, loggerVars, writerVars, takenVars, outVars, Still
<1>1. CASE UNCHANGED vars
  BY <1>1 DEF vars
<1>2. ASSUME NEW l \in Loggers, write(l)
      PROVE  Still \/ TakeUp(l) \/ PutDirectly(l) \/ Push(l)
  BY <1>2, Zenon DEF write, WriteBegin, WriteTest, NameTest, NameDay, ResetCount, NamePart, OpenFile, Flush
<1>3. CASE AsyncWrite_
  <2>1. CASE PopLine
    BY <2>1 DEF PopLine, Takes, empty
  <2>2. CASE PopWait
    BY <2>2 DEF PopWait
  <2>3. CASE AfterWait
    BY <2>3 DEF AfterWait, Takes, empty
  <2>4. QED
    BY <1>3, <2>1, <2>2, <2>3 DEF AsyncWrite_, Wake, SpuriousWake
<1>4. CASE Destroy
  <2>1. CASE Close
    BY <2>1 DEF Close, ExitInv
  <2>2. CASE ~Close
    BY <1>4, <2>2 DEF Destroy, ExitBegin, Drain, CloseNotify, JoinAndClose
  <2>3. QED
    BY <2>1, <2>2
<1>5. CASE Midnight
  BY <1>5 DEF Midnight
<1>6. QED
  BY <1>1, <1>2, <1>3, <1>4, <1>5, Zenon DEF Next

-------------------------------------------------------------------------------
(* Types and counts *)

\* One logger goes on: it is among those on the way as its new place says.
LEMMA BegunMove ==
    ASSUME NEW p, DOMAIN p = Loggers, NEW l \in Loggers, NEW a
    PROVE  /\ IsFiniteSet(Begun(p))
           /\ Begun([p EXCEPT ![l] = a]) =
                IF a \in OnTheWay THEN Begun(p) \union {l} ELSE Begun(p) \ {l}
<1>1. Begun(p) \subseteq Loggers
  BY DEF Begun
<1>2. IsFiniteSet(Begun(p))
  BY <1>1, LoggersAssumption, FS_Subset
<1>3. \A m \in Loggers : [p EXCEPT ![l] = a][m] = IF m = l THEN a ELSE p[m]
  OBVIOUS
<1>4. QED
  BY <1>2, <1>3 DEF Begun

\* How many are on the way changes when one sets out or arrives.
LEMMA BegunCount ==
    ASSUME NEW p, DOMAIN p = Loggers, NEW l \in Loggers, NEW a
    PROVE  LET n == Cardinality(Begun(p))
               k == Cardinality(Begun([p EXCEPT ![l] = a]))
               was == p[l] \in OnTheWay
               is == a \in OnTheWay
           IN  /\ n \in Nat /\ k \in Nat
               /\ (was <=> is) => k = n
               /\ ~was /\ is => k = n + 1
               /\ was /\ ~is => k = n - 1
<1> DEFINE q == [p EXCEPT ![l] = a]
<1>1. IsFiniteSet(Begun(p)) /\ (l \in Begun(p) <=> p[l] \in OnTheWay)
  BY BegunMove DEF Begun
<1>2. Begun(q) = IF a \in OnTheWay THEN Begun(p) \union {l} ELSE Begun(p) \ {l}
  BY BegunMove
<1>3. Cardinality(Begun(p)) \in Nat
  BY <1>1, FS_CardinalityType
<1>4. Cardinality(Begun(p) \union {l}) = IF l \in Begun(p) THEN Cardinality(Begun(p))
                                                          ELSE Cardinality(Begun(p)) + 1
  BY <1>1, FS_AddElement
<1>5. Cardinality(Begun(p) \ {l}) = IF l \in Begun(p) THEN Cardinality(Begun(p)) - 1
                                                      ELSE Cardinality(Begun(p))
  BY <1>1, FS_RemoveElement
<1>6. l \in Begun(p) => Cardinality(Begun(p)) # 0
  BY <1>1, FS_EmptySet
<1> HIDE DEF q
<1>7. QED
  BY <1>1, <1>2, <1>3, <1>4, <1>5, <1>6 DEF q

\* A step of a logger, as it is counted.
LEMMA LoggerCounts ==
    ASSUME TypeOK, NEW l \in Loggers, write(l)
    PROVE  /\ pc' = [pc EXCEPT ![l] = pc'[l]]
           /\ \/ /\ pc[l] \notin OnTheWay /\ pc'[l] \in OnTheWay
                 /\ calls < MaxLines /\ calls' = calls + 1 /\ lines' = lines /\ lineCount_' = lineCount_
              \/ /\ pc[l] \in OnTheWay <=> pc'[l] \in OnTheWay
                 /\ calls' = calls /\ lines' = lines /\ lineCount_' \in {lineCount_, 0}
              \/ /\ pc[l] \in OnTheWay /\ pc'[l] \notin OnTheWay
                 /\ calls' = calls /\ lines' = lines + 1 /\ lineCount_' = lineCount_ + 1
<1> USE DEF Goto, queueVars, fileVars, loggerVars, writerVars, takenVars, outVars, OnTheWay
<1>1. pc \in [Loggers -> {"idle", "test", "name", "day", "reset", "part", "open", "line", "push", "flush"}]
  BY DEF TypeOK
<1>2. CASE WriteBegin(l)
  BY <1>1, <1>2 DEF WriteBegin
<1>3. CASE WriteTest(l)
  BY <1>1, <1>3 DEF WriteTest
<1>4. CASE NameTest(l)
  BY <1>1, <1>4 DEF NameTest
<1>5. CASE NameDay(l)
  BY <1>1, <1>5 DEF NameDay
<1>6. CASE ResetCount(l)
  BY <1>1, <1>6 DEF ResetCount
<1>7. CASE NamePart(l)
  BY <1>1, <1>7 DEF NamePart
<1>8. CASE OpenFile(l)
  BY <1>1, <1>8 DEF OpenFile
<1>9. CASE TakeUp(l)
  BY <1>1, <1>9 DEF TakeUp, TakeNext
<1>10. CASE PutDirectly(l)
  BY <1>1, <1>10 DEF PutDirectly, TakeNext
<1>11. CASE Push(l)
  BY <1>1, <1>11 DEF Push, takenVars, outVars
<1>12. CASE Flush(l)
  BY <1>1, <1>12 DEF Flush
<1>13. QED
  BY <1>2, <1>3, <1>4, <1>5, <1>6, <1>7, <1>8, <1>9, <1>10, <1>11, <1>12, Zenon DEF write

\* Steps of the writer, of ~Log() and of the clock change nothing of the loggers.
LEMMA OthersKeep ==
    ASSUME AsyncWrite_ \/ Destroy \/ Midnight \/ UNCHANGED vars
    PROVE  UNCHANGED <<mtx_, toDay_, lineCount_, fp_, pc, t, newFile, calls, lines, home, direct, overlapped>>
<1> USE DEF queueVars, fileVars, loggerVars, writerVars, takenVars, outVars
<1>1. CASE AsyncWrite_
  BY <1>1 DEF AsyncWrite_, PopLine, PopWait, Wake, SpuriousWake, AfterWait, PutLine
<1>2. CASE Destroy
  BY <1>2 DEF Destroy, ExitBegin, Drain, Close, CloseNotify, JoinAndClose
<1>3. QED
  BY <1>1, <1>2 DEF Midnight, vars

\* Every call takes up one line, and only lines taken up are counted for a file.
LEMMA CountStep ==
    ASSUME TypeOK, CountInv, [Next]_vars
    PROVE  CountInv' /\ lines' \in 0..MaxLines /\ calls' \in 0..MaxLines /\ lineCount_' \in 0..MaxLines
<1> DEFINE n == Cardinality(Begun(pc))
           k == Cardinality(Begun(pc'))
<1>1. /\ calls \in 0..MaxLines /\ lines \in 0..MaxLines /\ lineCount_ \in 0..MaxLines
      /\ lines + n = calls /\ lineCount_ <= lines /\ MaxLines \in Nat
      /\ DOMAIN pc = Loggers
  BY LogBoundsAssumption DEF TypeOK, CountInv
<1>2. ASSUME NEW l \in Loggers, write(l)
      PROVE  /\ lines' + k = calls' /\ lineCount_' <= lines' /\ n \in Nat /\ k \in Nat
             /\ calls' \in 0..MaxLines /\ lines' \in Nat /\ lineCount_' \in Nat
  <2> DEFINE was == pc[l] \in OnTheWay
             is == pc'[l] \in OnTheWay
  <2>1. pc' = [pc EXCEPT ![l] = pc'[l]]
    BY <1>2, LoggerCounts
  <2>2. /\ n \in Nat /\ k \in Nat
        /\ (was <=> is) => k = n
        /\ ~was /\ is => k = n + 1
        /\ was /\ ~is => k = n - 1
    <3>1. DOMAIN pc = Loggers
      BY <1>1
    <3> DEFINE a == pc'[l]
               j == Cardinality(Begun([pc EXCEPT ![l] = a]))
    <3>2. /\ n \in Nat /\ j \in Nat
          /\ (was <=> a \in OnTheWay) => j = n
          /\ ~was /\ a \in OnTheWay => j = n + 1
          /\ was /\ ~(a \in OnTheWay) => j = n - 1
      <4> HIDE DEF a
      <4>1. QED
        BY <3>1, BegunCount
    <3>3. j = k
      BY <2>1
    <3> HIDE DEF j, n, k
    <3>4. QED
      BY <3>2, <3>3
  <2>3. \/ ~was /\ is /\ calls < MaxLines /\ calls' = calls + 1 /\ lines' = lines /\ lineCount_' = lineCount_
        \/ (was <=> is) /\ calls' = calls /\ lines' = lines /\ lineCount_' \in {lineCount_, 0}
        \/ was /\ ~is /\ calls' = calls /\ lines' = lines + 1 /\ lineCount_' = lineCount_ + 1
    BY <1>2, LoggerCounts
  <2> HIDE DEF was, is, n, k
  <2>4. QED
    BY <1>1, <2>2, <2>3
<1>3. CASE AsyncWrite_ \/ Destroy \/ Midnight \/ UNCHANGED vars
  <2>1. UNCHANGED <<pc, calls, lines, lineCount_>>
    BY <1>3, OthersKeep
  <2>2. QED
    BY <1>1, <2>1 DEF CountInv
<1>4. ASSUME NEW l \in Loggers, write(l)
      PROVE  CountInv' /\ lines' \in 0..MaxLines /\ calls' \in 0..MaxLines /\ lineCount_' \in 0..MaxLines
  BY <1>1, <1>2, <1>4 DEF CountInv
<1>5. QED
  BY <1>3, <1>4 DEF Next

\* The fields and locals of the loggers keep their types.
LoggerTypes ==
    /\ mtx_ \in Loggers \union {NoThread}
    /\ toDay_ \in 0..MaxDay
    /\ fp_ \in Files
    /\ newFile \in [Loggers -> Files]
    /\ pc \in [Loggers -> {"idle", "test", "name", "day", "reset", "part", "open", "line", "push", "flush"}]
    /\ t \in [Loggers -> 0..MaxDay]
    /\ clock \in 0..MaxDay
    /\ overlapped \in BOOLEAN

\* Every step of write(), of the writer and of ~Log() keeps them.
LEMMA LoggerTypesStep ==
    ASSUME TypeOK, [Next]_vars
    PROVE  LoggerTypes'
<1> USE DEF Goto, queueVars, fileVars, loggerVars, writerVars, takenVars, outVars
<1>1. LoggerTypes /\ lineCount_ \in Nat /\ MAX_LINES \in Nat \ {0}
  BY LogBoundsAssumption DEF TypeOK, LoggerTypes
<1>2. ASSUME NEW l \in Loggers, write(l) PROVE LoggerTypes'
  <2>1. CASE WriteBegin(l)
    BY <1>1, <2>1 DEF WriteBegin, LoggerTypes
  <2>2. CASE WriteTest(l)
    BY <1>1, <2>2 DEF WriteTest, LoggerTypes
  <2>3. CASE NameTest(l)
    BY <1>1, <2>3 DEF NameTest, LoggerTypes
  <2>4. CASE NameDay(l)
    <3>1. PlainFile(t[l]) \in Files
      BY <1>1 DEF LoggerTypes, PlainFile, Files
    <3>2. QED
      BY <1>1, <2>4, <3>1 DEF NameDay, LoggerTypes
  <2>5. CASE ResetCount(l)
    BY <1>1, <2>5 DEF ResetCount, LoggerTypes
  <2>6. CASE NamePart(l)
    <3>1. lineCount_ \div MAX_LINES \in Nat
      BY <1>1
    <3>2. [day |-> t[l], part |-> lineCount_ \div MAX_LINES] \in Files
      BY <1>1, <3>1 DEF LoggerTypes, Files
    <3>3. QED
      BY <1>1, <2>6, <3>2 DEF NamePart, LoggerTypes
  <2>7. CASE OpenFile(l)
    BY <1>1, <2>7 DEF OpenFile, LoggerTypes
  <2>8. CASE TakeUp(l)
    BY <1>1, <2>8 DEF TakeUp, TakeNext, LoggerTypes
  <2>9. CASE PutDirectly(l)
    BY <1>1, <2>9 DEF PutDirectly, TakeNext, LoggerTypes
  <2>10. CASE Push(l)
    BY <1>1, <2>10 DEF Push, LoggerTypes
  <2>11. CASE Flush(l)
    BY <1>1, <2>11 DEF Flush, LoggerTypes
  <2>12. QED
    BY <1>2, <2>1, <2>2, <2>3, <2>4, <2>5, <2>6, <2>7, <2>8, <2>9, <2>10, <2>11, Zenon DEF write
<1>3. CASE AsyncWrite_ \/ Destroy \/ UNCHANGED vars
  <2>1. UNCHANGED <<mtx_, toDay_, fp_, pc, t, newFile, overlapped>>
    BY <1>3, OthersKeep
  <2>2. UNCHANGED clock
    BY <1>3 DEF vars, AsyncWrite_, PopLine, PopWait, Wake, SpuriousWake, AfterWait, PutLine,
                Destroy, ExitBegin, Drain, Close, CloseNotify, JoinAndClose
  <2>3. QED
    BY <1>1, <2>1, <2>2 DEF LoggerTypes
<1>4. CASE Midnight
  BY <1>1, <1>4, LogBoundsAssumption DEF Midnight, LoggerTypes
<1>5. QED
  BY <1>2, <1>3, <1>4 DEF Next

\* Where the writer and ~Log() are.
ControlTypes ==
    /\ isClose_ \in BOOLEAN
    /\ writer \in {"pop", "wait", "put", "exited"}
    /\ woken \in BOOLEAN
    /\ exiting \in {"no", "drain", "close", "notify", "join", "done"}

\* Every step keeps the writer and ~Log() where their functions have them.
LEMMA ControlTypesStep ==
    ASSUME TypeOK, [Next]_vars
    PROVE  ControlTypes'
<1> USE DEF Goto, Notify, queueVars, fileVars, loggerVars, writerVars, takenVars, outVars, ControlTypes
<1>1. ControlTypes
  BY DEF TypeOK
<1>2. ASSUME NEW l \in Loggers, write(l) PROVE ControlTypes'
  <2>1. UNCHANGED <<isClose_, writer, exiting>>
    BY <1>2, Zenon DEF write, WriteBegin, WriteTest, NameTest, NameDay, ResetCount, NamePart, OpenFile,
                       TakeUp, PutDirectly, Push, Flush
  <2>2. woken' = woken \/ woken' = (woken \/ writer = "wait")
    BY <1>2, Zenon DEF write, WriteBegin, WriteTest, NameTest, NameDay, ResetCount, NamePart, OpenFile,
                       TakeUp, PutDirectly, Push, Flush
  <2>3. woken' \in BOOLEAN
    BY <1>1, <2>2
  <2>4. QED
    BY <1>1, <2>1, <2>3
<1>3. CASE AsyncWrite_
  <2>1. CASE PopLine
    BY <1>1, <2>1 DEF PopLine, TakeFront
  <2>2. CASE PopWait
    BY <1>1, <2>2 DEF PopWait
  <2>3. CASE AfterWait
    BY <1>1, <2>3 DEF AfterWait, TakeFront
  <2>4. CASE PutLine
    BY <1>1, <2>4 DEF PutLine, Puts
  <2>5. QED
    BY <1>3, <2>1, <2>2, <2>3, <2>4 DEF AsyncWrite_, Wake, SpuriousWake
<1>4. CASE Destroy
  BY <1>1, <1>4 DEF Destroy, ExitBegin, Drain, Close, CloseNotify, JoinAndClose
<1>5. CASE Midnight \/ UNCHANGED vars
  BY <1>1, <1>5 DEF Midnight, vars
<1>6. QED
  BY <1>2, <1>3, <1>4, <1>5 DEF Next

\* The lines themselves: queued, in the hands of the writer, in the files.
LineTypes ==
    /\ deq_ \in Seq(Lines) /\ Len(deq_) <= Capacity
    /\ str \in Lines \union {0}
    /\ written \in Seq(Lines)
    /\ direct \in SUBSET Lines

\* Only the push that MutexInv describes makes the queue longer.
LEMMA LineTypesStep ==
    ASSUME TypeOK, CountInv, MutexInv, ExitInv, QueueInv, [Next]_vars
    PROVE  LineTypes'
<1>1. LineTypes /\ Capacity \in Nat /\ lines \in 0..MaxLines /\ MaxLines \in Nat
  BY LogBoundsAssumption DEF TypeOK, LineTypes
<1>2. str' \in Lines \union {0} \/ (writer' = "put" /\ str' = Head(deq_) /\ deq_ # <<>>)
  <2> USE DEF queueVars, fileVars, loggerVars, writerVars, takenVars, outVars
  <2>1. ASSUME NEW l \in Loggers, write(l) PROVE str' = str
    BY <2>1, Zenon DEF write, WriteBegin, WriteTest, NameTest, NameDay, ResetCount, NamePart, OpenFile,
                       TakeUp, PutDirectly, Push, Flush
  <2>2. CASE AsyncWrite_
    BY <1>1, <2>2 DEF AsyncWrite_, PopLine, PopWait, Wake, SpuriousWake, AfterWait, PutLine,
                      TakeFront, empty, LineTypes
  <2>3. CASE Destroy \/ Midnight \/ UNCHANGED vars
    BY <1>1, <2>3 DEF Destroy, ExitBegin, Drain, Close, CloseNotify, JoinAndClose, Midnight, vars,
                      LineTypes
  <2>4. QED
    BY <1>1, <2>1, <2>2, <2>3 DEF Next, LineTypes
<1>3. str' \in Lines \union {0}
  BY <1>1, <1>2 DEF LineTypes
<1>4. CASE Still
  BY <1>1, <1>3, <1>4 DEF Still, LineTypes
<1>5. CASE Takes
  <2>1. deq_' = Tail(deq_) /\ UNCHANGED <<written, direct>> /\ deq_ # <<>>
    BY <1>5 DEF Takes, TakeFront
  <2>2. Tail(deq_) \in Seq(Lines) /\ Len(Tail(deq_)) <= Capacity
    BY <1>1, <2>1 DEF LineTypes
  <2>3. QED
    BY <1>1, <1>3, <2>1, <2>2 DEF LineTypes
<1>6. CASE PutLine
  <2>1. str \in Lines
    BY <1>1, <1>6 DEF PutLine, QueueInv, Lines
  <2>2. written' = Append(written, str) /\ UNCHANGED <<deq_, direct>>
    BY <1>6 DEF PutLine, Puts, queueVars
  <2>3. QED
    BY <1>1, <1>3, <2>1, <2>2 DEF LineTypes
<1>7. ASSUME NEW l \in Loggers, TakeUp(l) PROVE LineTypes'
  BY <1>1, <1>3, <1>7 DEF TakeUp, TakeNext, LineTypes, queueVars, outVars
<1>8. ASSUME NEW l \in Loggers, PutDirectly(l) PROVE LineTypes'
  <2>1. lines + 1 \in Lines
    <3>1. lines' = lines + 1
      BY <1>8 DEF PutDirectly, TakeNext, Puts
    <3>2. lines' \in 0..MaxLines
      BY CountStep
    <3>3. QED
      BY <1>1, <3>1, <3>2 DEF Lines
  <2>2. /\ written' = Append(written, lines + 1) /\ direct' = direct \union {lines + 1}
        /\ UNCHANGED deq_
    BY <1>8 DEF PutDirectly, TakeNext, Puts, queueVars
  <2>3. QED
    BY <1>1, <1>3, <2>1, <2>2 DEF LineTypes
<1>9. ASSUME NEW l \in Loggers, Push(l) PROVE LineTypes'
  <2>1. mtx_ # NoThread /\ Len(deq_) < Capacity /\ lines > 0
    BY <1>9, LoggersAssumption DEF Push, MutexInv
  <2>2. lines \in Lines
    BY <1>1, <2>1 DEF Lines
  <2>3. deq_' = Append(deq_, lines) /\ UNCHANGED <<written, direct>>
    BY <1>9 DEF Push, takenVars, outVars
  <2>4. QED
    BY <1>1, <1>3, <2>1, <2>2, <2>3 DEF LineTypes
<1>10. QED
  BY <1>4, <1>5, <1>6, <1>7, <1>8, <1>9, LineStep

\* The histories of the files, and what was flushed.
HistTypes == home \in Seq(Files) /\ filed \in Seq(Files) /\ synced \in Nat

\* Every line has the file it was made for, and every line written the one it was put into.
LEMMA HistStep ==
    ASSUME TypeOK, ExitInv, QueueInv, CountInv, HistInv, [Next]_vars
    PROVE  HistTypes' /\ HistInv'
<1> USE DEF queueVars, fileVars, loggerVars, writerVars, takenVars, outVars
<1>1. /\ home \in Seq(Files) /\ filed \in Seq(Files) /\ synced \in Nat /\ fp_ \in Files
      /\ written \in Seq(Lines) /\ Len(written) \in Nat /\ lines \in Nat
      /\ Len(home) = lines /\ Len(filed) = Len(written)
  BY DEF TypeOK, HistInv
<1>2. synced' = synced \/ synced' = Len(written)
  <2>1. ASSUME NEW l \in Loggers, write(l) PROVE synced' = synced \/ synced' = Len(written)
    BY <2>1, Zenon DEF write, WriteBegin, WriteTest, NameTest, NameDay, ResetCount, NamePart,
                       OpenFile, TakeUp, PutDirectly, Puts, Push, Flush, Sync
  <2>2. CASE AsyncWrite_
    BY <2>2 DEF AsyncWrite_, PopLine, PopWait, Wake, SpuriousWake, AfterWait, PutLine, Puts
  <2>3. CASE Destroy \/ Midnight \/ UNCHANGED vars
    BY <2>3 DEF Destroy, ExitBegin, Drain, Close, CloseNotify, JoinAndClose, Sync, Midnight, vars
  <2>4. QED
    BY <2>1, <2>2, <2>3 DEF Next
<1>3. synced' \in Nat
  BY <1>1, <1>2
<1>4. CASE UNCHANGED <<home, lines, filed, written>>
  BY <1>1, <1>3, <1>4 DEF HistTypes, HistInv
<1>5. CASE PutLine
  <2>1. /\ written' = Append(written, str) /\ filed' = Append(filed, fp_)
        /\ UNCHANGED <<home, lines>>
    BY <1>5 DEF PutLine, Puts
  <2>2. str \in Lines
    BY <1>5 DEF PutLine, QueueInv, Lines, TypeOK
  <2>3. QED
    BY <1>1, <1>3, <2>1, <2>2 DEF HistTypes, HistInv
<1>6. ASSUME NEW l \in Loggers, TakeUp(l) PROVE HistTypes' /\ HistInv'
  <2>1. home' = Append(home, fp_) /\ lines' = lines + 1 /\ UNCHANGED <<filed, written>>
    BY <1>6 DEF TakeUp, TakeNext
  <2>2. QED
    BY <1>1, <1>3, <2>1 DEF HistTypes, HistInv
<1>7. ASSUME NEW l \in Loggers, PutDirectly(l) PROVE HistTypes' /\ HistInv'
  <2>1. /\ home' = Append(home, fp_) /\ lines' = lines + 1
        /\ written' = Append(written, lines + 1) /\ filed' = Append(filed, fp_)
    BY <1>7 DEF PutDirectly, TakeNext, Puts
  <2>2. lines + 1 \in Lines
    <3>1. lines' \in 0..MaxLines
      BY CountStep
    <3>2. QED
      BY <1>1, <2>1, <3>1 DEF Lines
  <2>3. QED
    BY <1>1, <1>3, <2>1, <2>2 DEF HistTypes, HistInv
<1>8. ASSUME NEW l \in Loggers, Push(l) PROVE UNCHANGED <<home, lines, filed, written>>
  BY <1>8 DEF Push
<1>9. QED
  BY <1>4, <1>5, <1>6, <1>7, <1>8, LineStep DEF Still, Takes

\* Every variable keeps its type.
LEMMA TypeStep ==
    ASSUME IInv, [Next]_vars
    PROVE  TypeOK'
<1>1. TypeOK /\ CountInv /\ MutexInv /\ ExitInv /\ QueueInv /\ HistInv
  BY DEF IInv
<1>2. LoggerTypes'
  BY <1>1, LoggerTypesStep
<1>3. ControlTypes'
  BY <1>1, ControlTypesStep
<1>4. LineTypes'
  BY <1>1, LineTypesStep
<1>5. lines' \in 0..MaxLines /\ calls' \in 0..MaxLines /\ lineCount_' \in 0..MaxLines
  BY <1>1, CountStep
<1>6. HistTypes'
  BY <1>1, HistStep
<1>7. QED
  BY <1>2, <1>3, <1>4, <1>5, <1>6, Zenon DEF TypeOK, LoggerTypes, ControlTypes, LineTypes, HistTypes

-------------------------------------------------------------------------------
(* The mutex, the exit and the queue *)

\* Who is about to push holds the mutex, and goes on finding room.
LEMMA MutexStep ==
    ASSUME IInv, [Next]_vars
    PROVE  MutexInv'
<1> USE DEF Goto, queueVars, fileVars, loggerVars, writerVars, takenVars, outVars
<1>1. /\ \A l \in Loggers : pc[l] = "push" <=> mtx_ = l
      /\ mtx_ # NoThread => Len(deq_) < Capacity /\ lines > 0
      /\ Capacity \in Nat /\ deq_ \in Seq(Lines) /\ lines \in Nat
      /\ pc \in [Loggers -> {"idle", "test", "name", "day", "reset", "part", "open", "line", "push", "flush"}]
  BY LogBoundsAssumption DEF IInv, TypeOK, MutexInv
<1>2. ASSUME NEW l \in Loggers, write(l) PROVE MutexInv'
  <2>1. CASE TakeUp(l)
    <3>1. /\ mtx_ = NoThread /\ mtx_' = l /\ pc' = [pc EXCEPT ![l] = "push"] /\ lines' = lines + 1
          /\ deq_' = deq_ /\ Len(deq_) < Capacity
      BY <1>1, <2>1 DEF TakeUp, TakeNext, full
    <3>2. \A m \in Loggers : pc'[m] = "push" <=> mtx_' = m
      BY <1>1, <3>1, LoggersAssumption
    <3>3. QED
      BY <1>1, <3>1, <3>2 DEF MutexInv
  <2>2. CASE Push(l)
    <3>1. pc[l] = "push" /\ mtx_' = NoThread /\ pc' = [pc EXCEPT ![l] = "flush"]
      BY <2>2 DEF Push, takenVars, outVars
    <3>2. \A m \in Loggers : pc'[m] = "push" <=> mtx_' = m
      BY <1>1, <3>1, LoggersAssumption
    <3>3. QED
      BY <3>1, <3>2 DEF MutexInv
  <2>3. CASE ~TakeUp(l) /\ ~Push(l)
    <3>1. mtx_' = mtx_ /\ deq_' = deq_ /\ (lines' = lines \/ lines' = lines + 1)
      BY <1>2, <2>3, Zenon DEF write, WriteBegin, WriteTest, NameTest, NameDay, ResetCount, NamePart, OpenFile,
                               PutDirectly, TakeNext, Flush
    <3>2. pc[l] # "push" /\ pc'[l] # "push" /\ \A m \in Loggers \ {l} : pc'[m] = pc[m]
      BY <1>1, <1>2, <2>3 DEF write, WriteBegin, WriteTest, NameTest, NameDay, ResetCount, NamePart, OpenFile,
                              PutDirectly, Flush
    <3>3. \A m \in Loggers : pc'[m] = "push" <=> mtx_' = m
      BY <1>1, <3>1, <3>2
    <3>4. QED
      BY <1>1, <3>1, <3>3 DEF MutexInv
  <2>4. QED
    BY <2>1, <2>2, <2>3
<1>3. CASE AsyncWrite_ \/ Destroy \/ Midnight \/ UNCHANGED vars
  <2>1. UNCHANGED <<mtx_, pc, lines>>
    BY <1>3, OthersKeep
  <2>2. deq_' = deq_ \/ deq_' = <<>> \/ (deq_ # <<>> /\ deq_' = Tail(deq_))
    BY <1>3 DEF AsyncWrite_, PopLine, PopWait, Wake, SpuriousWake, AfterWait, PutLine, TakeFront, empty,
                Destroy, ExitBegin, Drain, Close, CloseNotify, JoinAndClose, Midnight, vars
  <2>3. Len(deq_) < Capacity => Len(deq_') < Capacity
    BY <1>1, <2>2
  <2>4. QED
    BY <1>1, <2>1, <2>3 DEF MutexInv
<1>4. QED
  BY <1>2, <1>3 DEF Next

\* Nobody logs once ~Log() has begun, and what it closes is empty.
LEMMA ExitStep ==
    ASSUME IInv, [Next]_vars
    PROVE  ExitInv'
<1> USE DEF Goto, queueVars, fileVars, loggerVars, writerVars, takenVars, outVars
<1>1. /\ exiting # "no" => \A l \in Loggers : pc[l] = "idle"
      /\ exiting \in {"close", "notify", "join", "done"} => deq_ = <<>>
      /\ exiting = "done" => writer = "exited"
  BY DEF IInv, ExitInv
<1>2. ASSUME NEW l \in Loggers, write(l) PROVE ExitInv'
  <2>1. exiting = "no" /\ exiting' = "no"
    BY <1>1, <1>2 DEF write, WriteBegin, WriteTest, NameTest, NameDay, ResetCount, NamePart, OpenFile,
                      TakeUp, PutDirectly, Push, Flush
  <2>2. QED
    BY <2>1 DEF ExitInv
<1>3. CASE AsyncWrite_
  <2>1. exiting' = exiting /\ pc' = pc
    BY <1>3 DEF AsyncWrite_, PopLine, PopWait, Wake, SpuriousWake, AfterWait, PutLine
  <2>2. writer # "exited" /\ (deq_ = <<>> => deq_' = <<>>)
    BY <1>3 DEF AsyncWrite_, PopLine, PopWait, Wake, SpuriousWake, AfterWait, PutLine, empty
  <2>3. QED
    BY <1>1, <2>1, <2>2 DEF ExitInv
<1>4. CASE Destroy
  <2>1. CASE ExitBegin
    BY <2>1 DEF ExitBegin, ExitInv
  <2>2. CASE Drain
    BY <1>1, <2>2 DEF Drain, ExitInv, empty
  <2>3. CASE Close
    BY <1>1, <2>3 DEF Close, ExitInv
  <2>4. CASE CloseNotify
    BY <1>1, <2>4 DEF CloseNotify, ExitInv
  <2>5. CASE JoinAndClose
    BY <1>1, <2>5 DEF JoinAndClose, ExitInv
  <2>6. QED
    BY <1>4, <2>1, <2>2, <2>3, <2>4, <2>5 DEF Destroy
<1>5. CASE Midnight \/ UNCHANGED vars
  BY <1>1, <1>5 DEF Midnight, vars, ExitInv
<1>6. QED
  BY <1>2, <1>3, <1>4, <1>5 DEF Next

\* What a step that moves no line keeps.
LEMMA StillKeeps ==
    ASSUME Still
    PROVE  /\ QueueInv => QueueInv'
           /\ OutInv => OutInv'
           /\ LateInv => LateInv'
<1>1. /\ deq_' = deq_ /\ mtx_' = mtx_ /\ lines' = lines /\ written' = written /\ direct' = direct
      /\ writer' = "put" <=> writer = "put"
      /\ writer = "put" => str' = str
  BY DEF Still
<1>2. QueueInv => QueueInv'
  BY <1>1 DEF QueueInv
<1>3. OutInv => OutInv'
  BY <1>1 DEF OutInv, InHand, IsWritten
<1>4. LateInv => LateInv'
  BY <1>1 DEF LateInv
<1>5. QED
  BY <1>2, <1>3, <1>4

\* The queue stays in order.
LEMMA QueueStep ==
    ASSUME IInv, [Next]_vars
    PROVE  QueueInv'
<1>1. /\ \A i \in 1..Len(deq_) : deq_[i] \in 1..lines /\ (mtx_ # NoThread => deq_[i] < lines)
      /\ \A i, j \in 1..Len(deq_) : i < j => deq_[i] < deq_[j]
      /\ writer = "put" => /\ str \in 1..lines /\ (mtx_ # NoThread => str < lines)
                           /\ \A i \in 1..Len(deq_) : str < deq_[i]
      /\ lines \in Nat /\ deq_ \in Seq(Lines) /\ Len(deq_) \in Nat
  BY DEF IInv, TypeOK, QueueInv
<1> USE DEF queueVars, fileVars, loggerVars, writerVars, takenVars, outVars
<1>2. CASE Still
  BY <1>2, StillKeeps DEF IInv
<1>3. CASE Takes
  <2>1. /\ deq_ # <<>> /\ str' = Head(deq_) /\ deq_' = Tail(deq_) /\ writer' = "put"
        /\ mtx_' = mtx_ /\ lines' = lines
    BY <1>3 DEF Takes, TakeFront
  <2>2. /\ Len(deq_) > 0 /\ str' = deq_[1] /\ Len(deq_') = Len(deq_) - 1
        /\ \A i \in 1..Len(deq_') : deq_'[i] = deq_[i + 1]
    BY <1>1, <2>1
  <2>3. \A i \in 1..Len(deq_') : deq_'[i] \in 1..lines' /\ (mtx_' # NoThread => deq_'[i] < lines')
    BY <1>1, <2>1, <2>2
  <2>4. \A i, j \in 1..Len(deq_') : i < j => deq_'[i] < deq_'[j]
    <3> SUFFICES ASSUME NEW i \in 1..Len(deq_'), NEW j \in 1..Len(deq_'), i < j
                 PROVE  deq_'[i] < deq_'[j]
      OBVIOUS
    <3>1. i + 1 \in 1..Len(deq_) /\ j + 1 \in 1..Len(deq_) /\ i + 1 < j + 1
      BY <1>1, <2>2
    <3>2. QED
      BY <1>1, <2>2, <3>1
  <2>5. /\ str' \in 1..lines' /\ (mtx_' # NoThread => str' < lines')
        /\ \A i \in 1..Len(deq_') : str' < deq_'[i]
    BY <1>1, <2>1, <2>2
  <2>6. QED
    BY <2>3, <2>4, <2>5 DEF QueueInv
<1>4. CASE PutLine
  <2>1. deq_' = deq_ /\ mtx_' = mtx_ /\ lines' = lines /\ writer' = "pop"
    BY <1>4 DEF PutLine, Puts
  <2>2. QED
    BY <1>1, <2>1 DEF QueueInv
<1>5. ASSUME NEW l \in Loggers, TakeUp(l) \/ PutDirectly(l) PROVE QueueInv'
  <2>1. deq_' = deq_ /\ lines' = lines + 1 /\ writer' = writer /\ str' = str
    BY <1>5 DEF TakeUp, PutDirectly, TakeNext
  <2>2. \A i \in 1..Len(deq_) : deq_[i] \in 1..lines' /\ deq_[i] < lines'
    BY <1>1, <2>1
  <2>3. writer = "put" => str \in 1..lines' /\ str < lines'
    BY <1>1, <2>1
  <2>4. QED
    BY <1>1, <2>1, <2>2, <2>3 DEF QueueInv
<1>6. ASSUME NEW l \in Loggers, Push(l) PROVE QueueInv'
  <2>1. /\ deq_' = Append(deq_, lines) /\ lines' = lines /\ writer' = writer /\ str' = str
        /\ mtx_' = NoThread
    BY <1>6 DEF Push, takenVars, outVars
  <2>2. mtx_ # NoThread /\ lines > 0
    BY <1>6, LoggersAssumption DEF Push, IInv, MutexInv
  <2>3. lines \in Lines
    BY <2>2 DEF IInv, TypeOK, Lines
  <2>4. /\ Len(deq_') = Len(deq_) + 1 /\ deq_'[Len(deq_) + 1] = lines
        /\ \A i \in 1..Len(deq_) : deq_'[i] = deq_[i]
    BY <1>1, <2>1, <2>3
  <2>5. \A i \in 1..Len(deq_') : deq_'[i] \in 1..lines'
    BY <1>1, <2>1, <2>2, <2>4
  <2>6. \A i, j \in 1..Len(deq_') : i < j => deq_'[i] < deq_'[j]
    BY <1>1, <2>2, <2>4
  <2>7. writer' = "put" => str' \in 1..lines' /\ \A i \in 1..Len(deq_') : str' < deq_'[i]
    BY <1>1, <2>1, <2>2, <2>4
  <2>8. QED
    BY <2>1, <2>5, <2>6, <2>7 DEF QueueInv
<1>7. QED
  BY <1>2, <1>3, <1>4, <1>5, <1>6, LineStep DEF IInv

-------------------------------------------------------------------------------
(* Lines in hand and lines in the files *)

\* What is in a sequence with one element more.
LEMMA Appended ==
    ASSUME NEW a \in Seq(Lines), NEW e \in Lines
    PROVE  \A k : (\E i \in 1..Len(Append(a, e)) : Append(a, e)[i] = k) <=>
                  (k = e \/ \E i \in 1..Len(a) : a[i] = k)
<1> DEFINE b == Append(a, e)
<1>1. /\ Len(a) \in Nat /\ Len(b) = Len(a) + 1 /\ b[Len(a) + 1] = e
      /\ \A i \in 1..Len(a) : b[i] = a[i]
  OBVIOUS
<1> HIDE DEF b
<1>2. ASSUME NEW i \in 1..Len(b) PROVE b[i] = e \/ \E j \in 1..Len(a) : a[j] = b[i]
  <2>1. i \in 1..Len(a) \/ i = Len(a) + 1
    BY <1>1
  <2>2. QED
    BY <1>1, <2>1
<1>3. ASSUME NEW i \in 1..Len(a) PROVE \E j \in 1..Len(b) : b[j] = a[i]
  <2>1. i \in 1..Len(b)
    BY <1>1
  <2>2. QED
    BY <1>1, <2>1
<1>4. \E j \in 1..Len(b) : b[j] = e
  <2>1. Len(a) + 1 \in 1..Len(b)
    BY <1>1
  <2>2. QED
    BY <1>1, <2>1
<1>5. \A k : (\E i \in 1..Len(b) : b[i] = k) <=> (k = e \/ \E i \in 1..Len(a) : a[i] = k)
  BY <1>2, <1>3, <1>4
<1>6. QED
  BY <1>5 DEF b

\* Who appends what is not there yet has everything once.
LEMMA AppendedOnce ==
    ASSUME NEW a \in Seq(Lines), NEW e \in Lines,
           \A i, j \in 1..Len(a) : i # j => a[i] # a[j],
           \A i \in 1..Len(a) : a[i] # e
    PROVE  \A i, j \in 1..Len(Append(a, e)) : i # j => Append(a, e)[i] # Append(a, e)[j]
<1> DEFINE b == Append(a, e)
           n == Len(a)
<1>1. /\ n \in Nat /\ Len(b) = n + 1 /\ b[n + 1] = e
      /\ \A i \in 1..n : b[i] = a[i]
  OBVIOUS
<1>2. \A i, j \in 1..n : i # j => b[i] # b[j]
  BY <1>1
<1>3. \A i \in 1..n : b[i] # b[n + 1]
  BY <1>1
<1> HIDE DEF b, n
<1>4. \A i \in 1..n + 1 : i \in 1..n \/ i = n + 1
  BY <1>1
<1>5. \A i, j \in 1..Len(b) : i # j => b[i] # b[j]
  BY <1>1, <1>2, <1>3, <1>4
<1>6. QED
  BY <1>5 DEF b

\* A line that was taken up is in hand or written, and written once.
LEMMA OutStep ==
    ASSUME IInv, [Next]_vars
    PROVE  OutInv'
<1>1. /\ \A i \in 1..Len(written) : written[i] \in 1..lines
      /\ \A i, j \in 1..Len(written) : i # j => written[i] # written[j]
      /\ \A k \in 1..lines : IsWritten(k) <=> ~InHand(k)
  BY DEF IInv, OutInv
<1>2. /\ \A i \in 1..Len(deq_) : deq_[i] \in 1..lines /\ (mtx_ # NoThread => deq_[i] < lines)
      /\ writer = "put" => /\ str \in 1..lines /\ (mtx_ # NoThread => str < lines)
                           /\ \A i \in 1..Len(deq_) : str < deq_[i]
      /\ lines \in Nat /\ deq_ \in Seq(Lines) /\ Len(deq_) \in Nat
      /\ written \in Seq(Lines) /\ Len(written) \in Nat
  BY DEF IInv, TypeOK, QueueInv
<1> USE DEF queueVars, fileVars, loggerVars, writerVars, takenVars, outVars
<1>3. CASE Still
  BY <1>3, StillKeeps DEF IInv
<1>4. CASE Takes
  <2>1. /\ deq_ # <<>> /\ str' = Head(deq_) /\ deq_' = Tail(deq_) /\ writer # "put" /\ writer' = "put"
        /\ mtx_' = mtx_ /\ lines' = lines /\ written' = written
    BY <1>4 DEF Takes, TakeFront
  <2>2. /\ Len(deq_) > 0 /\ str' = deq_[1] /\ Len(deq_') = Len(deq_) - 1
        /\ \A i \in 1..Len(deq_') : deq_'[i] = deq_[i + 1]
    BY <1>2, <2>1
  <2>3. \A k : (\E i \in 1..Len(deq_) : deq_[i] = k) <=>
               (k = str' \/ \E i \in 1..Len(deq_') : deq_'[i] = k)
    <3> SUFFICES ASSUME NEW k
                 PROVE  (\E i \in 1..Len(deq_) : deq_[i] = k) <=>
                        (k = str' \/ \E i \in 1..Len(deq_') : deq_'[i] = k)
      OBVIOUS
    <3>1. ASSUME NEW i \in 1..Len(deq_), deq_[i] = k
          PROVE  k = str' \/ \E j \in 1..Len(deq_') : deq_'[j] = k
      <4>1. CASE i = 1
        BY <2>2, <3>1, <4>1
      <4>2. CASE i # 1
        <5>1. i - 1 \in 1..Len(deq_') /\ deq_'[i - 1] = k
          BY <1>2, <2>2, <3>1, <4>2
        <5>2. QED
          BY <5>1
      <4>3. QED
        BY <4>1, <4>2
    <3>2. ASSUME k = str' PROVE \E i \in 1..Len(deq_) : deq_[i] = k
      <4>1. 1 \in 1..Len(deq_)
        BY <1>2, <2>2
      <4>2. QED
        BY <2>2, <3>2, <4>1
    <3>3. ASSUME NEW i \in 1..Len(deq_'), deq_'[i] = k PROVE \E j \in 1..Len(deq_) : deq_[j] = k
      <4>1. i + 1 \in 1..Len(deq_) /\ deq_[i + 1] = k
        BY <1>2, <2>2, <3>3
      <4>2. QED
        BY <4>1
    <3>4. QED
      BY <3>1, <3>2, <3>3
  <2>4. \A k : InHand(k)' <=> InHand(k)
    BY <2>1, <2>3 DEF InHand
  <2>5. QED
    BY <1>1, <2>1, <2>4 DEF OutInv, IsWritten
<1>5. CASE PutLine
  <2>1. /\ writer = "put" /\ mtx_ = NoThread /\ deq_' = deq_ /\ mtx_' = mtx_ /\ lines' = lines
        /\ writer' = "pop" /\ written' = Append(written, str)
    BY <1>5 DEF PutLine, Puts
  <2>2. str \in 1..lines /\ str \in Lines /\ InHand(str)
    BY <1>2, <2>1 DEF InHand, IInv, TypeOK, Lines
  <2>3. /\ Len(written') = Len(written) + 1 /\ written'[Len(written) + 1] = str
        /\ \A i \in 1..Len(written) : written'[i] = written[i]
    BY <1>2, <2>1, <2>2
  <2>4. ~IsWritten(str)
    BY <1>1, <2>2
  <2>5. \A i \in 1..Len(written') : written'[i] \in 1..lines'
    BY <1>1, <1>2, <2>1, <2>2, <2>3
  <2>6. \A i, j \in 1..Len(written') : i # j => written'[i] # written'[j]
    <3>1. \A i \in 1..Len(written) : written[i] # str
      BY <2>4 DEF IsWritten
    <3>2. QED
      BY <1>1, <1>2, <2>1, <2>2, <3>1, AppendedOnce
  <2>7. \A k : IsWritten(k)' <=> IsWritten(k) \/ k = str
    BY <1>2, <2>1, <2>2, Appended DEF IsWritten
  <2>8. \A k \in 1..lines : InHand(k)' <=> InHand(k) /\ k # str
    BY <1>2, <2>1 DEF InHand
  <2>9. QED
    BY <1>1, <2>1, <2>2, <2>5, <2>6, <2>7, <2>8 DEF OutInv
<1>6. ASSUME NEW l \in Loggers, TakeUp(l) PROVE OutInv'
  <2>1. /\ mtx_ = NoThread /\ mtx_' = l /\ lines' = lines + 1 /\ deq_' = deq_ /\ written' = written
        /\ writer' = writer /\ str' = str
    BY <1>6 DEF TakeUp, TakeNext
  <2>2. mtx_' # NoThread
    BY <2>1, LoggersAssumption
  <2>3. \A k : InHand(k)' <=> InHand(k) \/ k = lines + 1
    BY <2>1, <2>2 DEF InHand
  <2>4. ~IsWritten(lines + 1)
    BY <1>1, <1>2 DEF IsWritten
  <2>5. \A k : IsWritten(k)' <=> IsWritten(k)
    BY <2>1 DEF IsWritten
  <2>6. \A k \in 1..lines' : IsWritten(k)' <=> ~InHand(k)'
    BY <1>1, <1>2, <2>1, <2>3, <2>4, <2>5
  <2>7. \A i \in 1..Len(written') : written'[i] \in 1..lines'
    BY <1>1, <1>2, <2>1
  <2>8. QED
    BY <1>1, <2>1, <2>6, <2>7 DEF OutInv
<1>7. ASSUME NEW l \in Loggers, PutDirectly(l) PROVE OutInv'
  <2>1. /\ mtx_ = NoThread /\ mtx_' = NoThread /\ lines' = lines + 1 /\ deq_' = deq_
        /\ written' = Append(written, lines + 1) /\ writer' = writer /\ str' = str
    BY <1>7 DEF PutDirectly, TakeNext, Puts
  <2>2. lines + 1 \in Lines
    <3>1. lines' \in 0..MaxLines
      BY CountStep DEF IInv
    <3>2. QED
      BY <1>2, <2>1, <3>1 DEF Lines
  <2>3. /\ Len(written') = Len(written) + 1 /\ written'[Len(written) + 1] = lines + 1
        /\ \A i \in 1..Len(written) : written'[i] = written[i]
    BY <1>2, <2>1, <2>2
  <2>4. \A i \in 1..Len(written') : written'[i] \in 1..lines'
    BY <1>1, <1>2, <2>1, <2>3
  <2>5. \A i, j \in 1..Len(written') : i # j => written'[i] # written'[j]
    <3>1. \A i \in 1..Len(written) : written[i] # lines + 1
      BY <1>1, <1>2
    <3>2. QED
      BY <1>1, <1>2, <2>1, <2>2, <3>1, AppendedOnce
  <2>6. \A k : IsWritten(k)' <=> IsWritten(k) \/ k = lines + 1
    BY <1>2, <2>1, <2>2, Appended DEF IsWritten
  <2>7. \A k : InHand(k)' <=> InHand(k)
    BY <2>1 DEF InHand
  <2>8. ~InHand(lines + 1)
    BY <1>2, <2>1 DEF InHand
  <2>9. \A k \in 1..lines' : IsWritten(k)' <=> ~InHand(k)'
    BY <1>1, <1>2, <2>1, <2>6, <2>7, <2>8
  <2>10. QED
    BY <2>4, <2>5, <2>9 DEF OutInv
<1>8. ASSUME NEW l \in Loggers, Push(l) PROVE OutInv'
  <2>1. /\ deq_' = Append(deq_, lines) /\ lines' = lines /\ writer' = writer /\ str' = str
        /\ mtx_' = NoThread /\ written' = written
    BY <1>8 DEF Push, takenVars, outVars
  <2>2. mtx_ # NoThread /\ lines > 0
    BY <1>8, LoggersAssumption DEF Push, IInv, MutexInv
  <2>3. lines \in Lines
    BY <2>2 DEF IInv, TypeOK, Lines
  <2>4. /\ Len(deq_') = Len(deq_) + 1 /\ deq_'[Len(deq_) + 1] = lines
        /\ \A i \in 1..Len(deq_) : deq_'[i] = deq_[i]
    BY <1>2, <2>1, <2>3
  <2>5. \A k : (\E i \in 1..Len(deq_') : deq_'[i] = k) <=>
               (k = lines \/ \E i \in 1..Len(deq_) : deq_[i] = k)
    BY <1>2, <2>1, <2>3, Appended, SMTT(30)
  <2>6. \A k : InHand(k)' <=> InHand(k)
    BY <2>1, <2>2, <2>5 DEF InHand
  <2>7. QED
    BY <1>1, <2>1, <2>6 DEF OutInv, IsWritten
<1>9. QED
  BY <1>3, <1>4, <1>5, <1>6, <1>7, <1>8, LineStep DEF IInv

\* The lines of a queue are no more than its length.
LEMMA FewQueued ==
    ASSUME NEW a \in Seq(Lines), NEW S, S \subseteq {k \in Lines : \E i \in 1..Len(a) : a[i] = k}
    PROVE  IsFiniteSet(S) /\ Cardinality(S) <= Len(a)
<1> DEFINE Q == {k \in Lines : \E i \in 1..Len(a) : a[i] = k}
           f == [i \in 1..Len(a) |-> a[i]]
<1>1. Len(a) \in Nat /\ \A i \in 1..Len(a) : a[i] \in Lines
  OBVIOUS
<1>2. f \in Surjection(1..Len(a), Q)
  <2>1. f \in [1..Len(a) -> Q]
    BY <1>1
  <2>2. \A k \in Q : \E i \in 1..Len(a) : f[i] = k
    OBVIOUS
  <2> HIDE DEF f, Q
  <2>3. QED
    BY <2>1, <2>2 DEF Surjection
<1>3. IsFiniteSet(1..Len(a)) /\ Cardinality(1..Len(a)) = Len(a)
  <2>1. 1 \in Int /\ Len(a) \in Int
    BY <1>1
  <2>2. /\ IsFiniteSet(1..Len(a))
        /\ Cardinality(1..Len(a)) = IF 1 > Len(a) THEN 0 ELSE Len(a) - 1 + 1
    BY <2>1, FS_Interval
  <2>3. QED
    BY <1>1, <2>2
<1>4. S \subseteq Q
  OBVIOUS
<1> HIDE DEF f, Q
<1>5. IsFiniteSet(Q) /\ Cardinality(Q) <= Cardinality(1..Len(a))
  BY <1>2, <1>3, FS_Surjection
<1>6. IsFiniteSet(S) /\ Cardinality(S) <= Cardinality(Q)
  BY <1>4, <1>5, FS_Subset
<1>7. Cardinality(S) \in Nat /\ Cardinality(Q) \in Nat
  BY <1>5, <1>6, FS_CardinalityType
<1>8. QED
  BY <1>1, <1>3, <1>5, <1>6, <1>7

\* What is in hand while nobody holds the mutex is in the queue or with the writer.
LEMMA FewInHand ==
    ASSUME IInv, mtx_ = NoThread, NEW S, S \subseteq {k \in 1..lines : InHand(k)}
    PROVE  IsFiniteSet(S) /\ Cardinality(S) <= Capacity + 1
<1> DEFINE Q == {k \in Lines : \E i \in 1..Len(deq_) : deq_[i] = k}
<1>1. /\ deq_ \in Seq(Lines) /\ Len(deq_) \in Nat /\ Len(deq_) <= Capacity /\ Capacity \in Nat
      /\ lines \in 0..MaxLines /\ MaxLines \in Nat
  BY LogBoundsAssumption DEF IInv, TypeOK
<1>2. S \subseteq Q \union {str}
  <2> SUFFICES ASSUME NEW k \in S PROVE k \in Q \union {str}
    OBVIOUS
  <2>1. k \in Lines /\ InHand(k)
    BY <1>1 DEF Lines
  <2>2. QED
    BY <2>1 DEF InHand
<1>3. IsFiniteSet(Q) /\ Cardinality(Q) <= Len(deq_)
  <2>1. Q \subseteq Q
    OBVIOUS
  <2>2. QED
    BY <1>1, <2>1, FewQueued
<1> HIDE DEF Q
<1>4. /\ IsFiniteSet(Q \union {str}) /\ Cardinality(Q) \in Nat
      /\ Cardinality(Q \union {str}) = IF str \in Q THEN Cardinality(Q) ELSE Cardinality(Q) + 1
  BY <1>3, FS_AddElement, FS_CardinalityType
<1>5. IsFiniteSet(S) /\ Cardinality(S) <= Cardinality(Q \union {str}) /\ Cardinality(S) \in Nat
  BY <1>2, <1>4, FS_Subset, FS_CardinalityType
<1>6. QED
  BY <1>1, <1>3, <1>4, <1>5

\* What follows a line does not change what was missing before it.
LEMMA LateKept ==
    ASSUME NEW a \in Seq(Lines), NEW e \in Lines
    PROVE  /\ \A i \in 1..Len(a) : Late(Append(a, e), i) = Late(a, i)
           /\ Late(Append(a, e), Len(a) + 1) = {k \in 1..e - 1 : \A j \in 1..Len(a) : a[j] # k}
<1> DEFINE b == Append(a, e)
           n == Len(a)
<1>1. /\ n \in Nat /\ b[n + 1] = e /\ e \in Int
      /\ \A i \in 1..n : b[i] = a[i]
  BY DEF Lines
<1> HIDE DEF b, n
<1>2. ASSUME NEW i \in 1..n PROVE Late(b, i) = Late(a, i)
  <2>1. b[i] = a[i] /\ \A j \in 1..i : b[j] = a[j]
    BY <1>1
  <2>2. QED
    BY <2>1 DEF Late
<1>3. Late(b, n + 1) = {k \in 1..e - 1 : \A j \in 1..n : a[j] # k}
  <2>1. ASSUME NEW k \in 1..e - 1
        PROVE  (\A j \in 1..n + 1 : b[j] # k) <=> (\A j \in 1..n : a[j] # k)
    <3>1. k # e
      BY <1>1
    <3>2. QED
      BY <1>1, <3>1
  <2>2. Late(b, n + 1) = {k \in 1..e - 1 : \A j \in 1..n + 1 : b[j] # k}
    BY <1>1 DEF Late
  <2>3. QED
    BY <2>1, <2>2
<1>4. QED
  BY <1>2, <1>3 DEF b, n

\* A line that comes out of the queue comes after all older ones; one that is put directly
\* passes no more than the queue and the line with the writer.
LEMMA LateStep ==
    ASSUME IInv, [Next]_vars
    PROVE  LateInv'
<1>1. /\ written \in Seq(Lines) /\ deq_ \in Seq(Lines) /\ Len(deq_) \in Nat /\ Len(deq_) <= Capacity
      /\ Capacity \in Nat /\ lines \in 0..MaxLines /\ MaxLines \in Nat /\ Len(written) \in Nat
  BY LogBoundsAssumption DEF IInv, TypeOK
<1>2. \A i \in 1..Len(written) :
        /\ written[i] \in 1..lines
        /\ written[i] \notin direct => Late(written, i) = {}
        /\ IsFiniteSet(Late(written, i)) /\ Cardinality(Late(written, i)) <= Capacity + 1
  BY DEF IInv, LateInv, OutInv
<1>3. \A k \in 1..lines : IsWritten(k) <=> ~InHand(k)
  BY DEF IInv, OutInv
<1> USE DEF queueVars, fileVars, loggerVars, writerVars, takenVars, outVars
<1>4. CASE Still
  BY <1>4, StillKeeps DEF IInv
<1>5. CASE written' = written /\ direct' = direct
  BY <1>5 DEF LateInv, IInv
<1>6. ASSUME NEW e \in Lines, written' = Append(written, e), direct \subseteq direct',
             e = lines + 1 => e \in direct',
             direct' \subseteq direct \union {lines + 1},
             NEW S, S = {k \in 1..e - 1 : ~IsWritten(k)},
             e \notin direct' => S = {}, IsFiniteSet(S), Cardinality(S) <= Capacity + 1
      PROVE  LateInv'
  <2>1. /\ Len(written') = Len(written) + 1 /\ written'[Len(written) + 1] = e
        /\ \A i \in 1..Len(written) : written'[i] = written[i]
    BY <1>1, <1>6
  <2>2. \A i \in 1..Len(written) : Late(written', i) = Late(written, i)
    BY <1>1, <1>6, LateKept
  <2>3. Late(written', Len(written) + 1) = S
    <3>1. Late(Append(written, e), Len(written) + 1) =
            {k \in 1..e - 1 : \A j \in 1..Len(written) : written[j] # k}
      BY <1>1, <1>6, LateKept
    <3>2. S = {k \in 1..e - 1 : \A j \in 1..Len(written) : written[j] # k}
      BY <1>6 DEF IsWritten
    <3>3. QED
      BY <1>6, <3>1, <3>2
  <2>4. ASSUME NEW i \in 1..Len(written')
        PROVE  /\ written'[i] \notin direct' => Late(written', i) = {}
               /\ IsFiniteSet(Late(written', i)) /\ Cardinality(Late(written', i)) <= Capacity + 1
    <3>1. CASE i = Len(written) + 1
      BY <1>6, <2>1, <2>3, <3>1
    <3>2. CASE i # Len(written) + 1
      <4>1. i \in 1..Len(written)
        BY <1>1, <2>1, <3>2
      <4>2. written'[i] = written[i] /\ Late(written', i) = Late(written, i)
        BY <2>1, <2>2, <4>1
      <4>3. QED
        BY <1>2, <1>6, <4>1, <4>2
    <3>3. QED
      BY <3>1, <3>2
  <2>5. QED
    BY <2>4 DEF LateInv
<1>7. CASE PutLine
  <2>1. writer = "put" /\ mtx_ = NoThread /\ written' = Append(written, str) /\ direct' = direct
    BY <1>7 DEF PutLine, Puts
  <2>2. str \in 1..lines /\ \A i \in 1..Len(deq_) : str < deq_[i]
    BY <2>1 DEF IInv, QueueInv
  <2>3. str \in Lines /\ str # lines + 1
    BY <1>1, <2>2 DEF Lines
  <2>4. ASSUME NEW k \in 1..str - 1 PROVE IsWritten(k)
    <3>1. k \in 1..lines /\ k # str
      BY <1>1, <2>2
    <3>2. \A i \in 1..Len(deq_) : deq_[i] # k
      <4> SUFFICES ASSUME NEW i \in 1..Len(deq_), deq_[i] = k PROVE FALSE
        OBVIOUS
      <4>1. str < k
        BY <2>2
      <4>2. QED
        BY <2>2, <4>1
    <3>3. ~InHand(k)
      BY <2>1, <3>1, <3>2 DEF InHand
    <3>4. QED
      BY <1>3, <3>1, <3>3
  <2>5. {k \in 1..str - 1 : ~IsWritten(k)} = {}
    BY <2>4
  <2>6. IsFiniteSet({}) /\ Cardinality({}) <= Capacity + 1
    BY <1>1, FS_EmptySet
  <2>7. QED
    BY <1>6, <2>1, <2>3, <2>5, <2>6
<1>8. ASSUME NEW l \in Loggers, PutDirectly(l) PROVE LateInv'
  <2>1. /\ mtx_ = NoThread /\ lines' = lines + 1
        /\ written' = Append(written, lines + 1) /\ direct' = direct \union {lines + 1}
    BY <1>8 DEF PutDirectly, TakeNext, Puts
  <2>2. lines + 1 \in Lines
    <3>1. lines' \in 0..MaxLines
      BY CountStep DEF IInv
    <3>2. QED
      BY <1>1, <2>1, <3>1 DEF Lines
  <2> DEFINE S == {k \in 1..(lines + 1) - 1 : ~IsWritten(k)}
  <2>3. S \subseteq {k \in 1..lines : InHand(k)}
    BY <1>1, <1>3
  <2> HIDE DEF S
  <2>4. IsFiniteSet(S) /\ Cardinality(S) <= Capacity + 1
    BY <2>1, <2>3, FewInHand
  <2>5. S = {k \in 1..(lines + 1) - 1 : ~IsWritten(k)}
    BY DEF S
  <2>6. lines + 1 \in direct'
    BY <2>1
  <2>7. QED
    BY <1>6, <2>1, <2>2, <2>4, <2>5, <2>6
<1>9. QED
  <2>1. ASSUME NEW l \in Loggers, TakeUp(l) \/ Push(l) PROVE LateInv'
    <3>1. written' = written /\ direct' = direct
      BY <2>1 DEF TakeUp, Push
    <3>2. QED
      BY <1>5, <3>1
  <2>2. CASE Takes
    BY <1>5, <2>2 DEF Takes
  <2>3. QED
    BY <1>4, <1>7, <1>8, <2>1, <2>2, LineStep DEF IInv

-------------------------------------------------------------------------------
(* The files *)

\* A file holds MAX_LINES lines from its first to its last.
LEMMA Ends ==
    ASSUME NEW f \in Files
    PROVE  /\ MAX_LINES \in Nat \ {0} /\ Part(f) \in Nat
           /\ First(f) \in Nat /\ Last(f) = First(f) + MAX_LINES
<1>1. MAX_LINES \in Nat \ {0}
  BY LogBoundsAssumption
<1>2. Part(f) \in Nat
  BY DEF Part, Files, NoPart
<1>3. \A p \in Nat : p * MAX_LINES \in Nat /\ (p + 1) * MAX_LINES = p * MAX_LINES + MAX_LINES
  BY <1>1
<1>4. QED
  BY <1>1, <1>2, <1>3 DEF First, Last

\* Division without remainder.
LEMMA Division ==
    ASSUME NEW c \in Nat, NEW m \in Nat \ {0}, c % m = 0
    PROVE  c \div m \in Nat /\ c = (c \div m) * m
OBVIOUS

\* A count that MAX_LINES divides is the one of a file that is empty or full.
LEMMA Turns ==
    ASSUME NEW f \in Files, NEW c \in First(f)..Last(f)
    PROVE  /\ c % MAX_LINES = 0 => c = First(f) \/ c = Last(f)
           /\ Last(f) % MAX_LINES = 0
<1> DEFINE M == MAX_LINES
           p == Part(f)
           q == c \div M
<1>1. M \in Nat \ {0} /\ p \in Nat /\ First(f) = p * M /\ Last(f) = (p + 1) * M
  BY Ends DEF First, Last
<1>2. p * M \in Nat /\ (p + 1) * M \in Nat /\ c \in Nat
  BY <1>1
<1>3. q \in Nat /\ (c % M = 0 => c = q * M)
  BY <1>1, <1>2, Division, SMTT(30)
<1>4. ((p + 1) * M) % M = 0
  BY <1>1
<1> HIDE DEF q, p, M
<1>5. ASSUME c = q * M PROVE q = p \/ q = p + 1
  <2>1. ASSUME q < p PROVE FALSE
    <3>1. q + 1 <= p
      BY <1>1, <1>3, <2>1
    <3>2. (q + 1) * M <= p * M
      BY <1>1, <1>3, <3>1
    <3>3. (q + 1) * M = q * M + M
      BY <1>1, <1>3
    <3>4. QED
      BY <1>1, <1>2, <1>5, <3>2, <3>3
  <2>2. ASSUME q > p + 1 PROVE FALSE
    <3>1. (p + 1) + 1 <= q
      BY <1>1, <1>3, <2>2
    <3>2. ((p + 1) + 1) * M <= q * M
      BY <1>1, <1>3, <3>1
    <3>3. ((p + 1) + 1) * M = (p + 1) * M + M
      BY <1>1
    <3>4. QED
      BY <1>1, <1>2, <1>5, <3>2, <3>3
  <2>3. QED
    BY <1>1, <1>3, <2>1, <2>2
<1>6. c % M = 0 => c = p * M \/ c = (p + 1) * M
  BY <1>1, <1>2, <1>3, <1>5
<1>7. QED
  BY <1>1, <1>4, <1>6 DEF M

\* The number that is made of the count of a full file is the next one.
LEMMA NextPart ==
    ASSUME NEW f \in Files, NEW g, NEW d, g = [day |-> d, part |-> Last(f) \div MAX_LINES]
    PROVE  Part(g) = Part(f) + 1 /\ First(g) = Last(f)
<1>1. MAX_LINES \in Nat \ {0} /\ Part(f) \in Nat
  BY Ends
<1>2. ((Part(f) + 1) * MAX_LINES) \div MAX_LINES = Part(f) + 1
  BY <1>1
<1>3. g.part = Part(f) + 1
  BY <1>2 DEF Last
<1>4. Part(g) = Part(f) + 1
  BY <1>1, <1>3 DEF Part, NoPart
<1>5. QED
  BY <1>4 DEF First, Last

\* Others than the loggers move nothing but the clock, and that forward.
LEMMA OthersKeepFiles ==
    ASSUME AsyncWrite_ \/ Destroy \/ Midnight \/ UNCHANGED vars, TypeOK, DayInv
    PROVE  DayInv'
<1> USE DEF queueVars, fileVars, loggerVars, writerVars, takenVars, outVars
<1>1. UNCHANGED <<toDay_, t>>
  BY OthersKeep
<1>2. clock' = clock \/ clock' = clock + 1
  BY DEF vars, AsyncWrite_, PopLine, PopWait, Wake, SpuriousWake, AfterWait, PutLine,
         Destroy, ExitBegin, Drain, Close, CloseNotify, JoinAndClose, Midnight
<1>3. clock \in 0..MaxDay /\ toDay_ \in 0..MaxDay /\ t \in [Loggers -> 0..MaxDay] /\ MaxDay \in Nat
  BY LogBoundsAssumption DEF TypeOK
<1>4. \A d \in 0..MaxDay : d <= clock => d <= clock'
  BY <1>2, <1>3
<1>5. QED
  BY <1>1, <1>3, <1>4 DEF DayInv

\* Nobody reads a day that has not come yet.
LEMMA DayStep ==
    ASSUME IInv, [Next]_vars
    PROVE  DayInv'
<1> USE DEF Goto, queueVars, fileVars, loggerVars, writerVars, takenVars, outVars
<1>1. /\ clock \in 0..MaxDay /\ toDay_ \in 0..MaxDay /\ t \in [Loggers -> 0..MaxDay] /\ MaxDay \in Nat
      /\ toDay_ <= clock /\ \A l \in Loggers : t[l] <= clock
  BY LogBoundsAssumption DEF IInv, TypeOK, DayInv
<1>2. ASSUME NEW l \in Loggers, write(l) PROVE DayInv'
  <2>1. /\ clock' = clock
        /\ toDay_' = toDay_ \/ toDay_' = t[l]
        /\ t' = t \/ t' = [t EXCEPT ![l] = clock]
    BY <1>2, Zenon DEF write, WriteBegin, WriteTest, NameTest, NameDay, ResetCount, NamePart,
                       OpenFile, TakeUp, TakeNext, PutDirectly, Push, Flush
  <2>2. QED
    BY <1>1, <2>1 DEF DayInv
<1>3. QED
  BY <1>2, OthersKeepFiles DEF Next, IInv

\* The one logger under way goes on, or sets out.
LEMMA AloneStep ==
    ASSUME IInv, NEW l \in Loggers, write(l), ~overlapped'
    PROVE  /\ ~overlapped /\ (WriteBegin(l) \/ pc[l] # "idle")
           /\ \A m \in Loggers \ {l} : pc[m] = "idle"
           /\ pc' = [pc EXCEPT ![l] = pc'[l]]
<1> USE DEF Goto, queueVars, fileVars, loggerVars, writerVars, takenVars, outVars
<1>1. pc' = [pc EXCEPT ![l] = pc'[l]]
  BY LoggerCounts DEF IInv
<1>2. CASE WriteBegin(l)
  <2>1. ~overlapped /\ \A m \in Loggers : pc[m] = "idle"
    BY <1>2 DEF WriteBegin
  <2>2. QED
    BY <1>1, <1>2, <2>1
<1>3. CASE ~WriteBegin(l)
  <2>1. overlapped' = overlapped /\ pc[l] # "idle"
    BY <1>3 DEF write, WriteTest, NameTest, NameDay, ResetCount, NamePart, OpenFile,
                TakeUp, PutDirectly, Push, Flush
  <2>2. ~overlapped
    BY <2>1
  <2>3. Alone
    BY <2>2 DEF IInv, FileInv
  <2>4. \A m \in Loggers \ {l} : pc[m] = "idle"
    BY <2>1, <2>3 DEF Alone
  <2>5. QED
    BY <1>1, <2>1, <2>2, <2>4
<1>4. QED
  BY <1>2, <1>3

\* The logger under way finds out what it needs, names the file of its day and its count,
\* opens it and fills it.
LEMMA FileStep ==
    ASSUME IInv, [Next]_vars
    PROVE  FileInv'
<1> USE DEF Goto, queueVars, fileVars, loggerVars, writerVars, takenVars, outVars
<1>1. /\ pc \in [Loggers -> {"idle", "test", "name", "day", "reset", "part", "open", "line", "push", "flush"}]
      /\ t \in [Loggers -> 0..MaxDay] /\ newFile \in [Loggers -> Files] /\ toDay_ \in 0..MaxDay
      /\ fp_ \in Files /\ fp_.day \in 0..MaxDay /\ lineCount_ \in Nat
  <2>1. lineCount_ \in 0..MaxLines /\ fp_ \in Files
    BY DEF IInv, TypeOK
  <2>2. QED
    BY <2>1 DEF IInv, TypeOK, Files
<1>2. FileInv /\ DayInv
  BY DEF IInv
<1>3. /\ MAX_LINES \in Nat \ {0} /\ First(fp_) \in Nat /\ Last(fp_) = First(fp_) + MAX_LINES
      /\ Last(fp_) \in Nat
  BY <1>1, Ends
<1>4. ASSUME NEW l \in Loggers, write(l) PROVE FileInv'
  <2> SUFFICES ASSUME ~overlapped' PROVE FileInv'
    BY DEF FileInv
  <2>1. /\ ~overlapped /\ (WriteBegin(l) \/ pc[l] # "idle")
        /\ \A m \in Loggers \ {l} : pc[m] = "idle"
        /\ pc' = [pc EXCEPT ![l] = pc'[l]]
    BY <1>4, AloneStep
  <2>2. \A m \in Loggers \ {l} : pc'[m] = "idle"
    BY <1>1, <2>1
  <2>3. /\ Placed(l)
        /\ pc[l] \notin {"reset", "open"} => toDay_ = fp_.day
        /\ toDay_ = fp_.day => lineCount_ \in First(fp_)..Last(fp_)
        /\ pc[l] \notin {"reset", "open", "line"} => lineCount_ = 0 \/ lineCount_ # First(fp_)
    BY <1>2, <2>1 DEF FileInv
  <2>4. SUFFICES /\ Placed(l)'
                 /\ pc'[l] \notin {"reset", "open"} => toDay_' = fp_'.day
                 /\ toDay_' = fp_'.day => lineCount_' \in First(fp_)'..Last(fp_)'
                 /\ pc'[l] \notin {"reset", "open", "line"} => lineCount_' = 0 \/ lineCount_' # First(fp_)'
    <3>1. Alone'
      BY <2>2 DEF Alone
    <3>2. \A m \in Loggers \ {l} : Placed(m)'
      BY <2>2 DEF Placed
    <3>3. QED
      BY <2>4, <3>1, <3>2 DEF FileInv
  <2>5. CASE WriteBegin(l)
    <3>1. /\ UNCHANGED <<toDay_, lineCount_, fp_>> /\ pc[l] = "idle" /\ pc'[l] = "test" /\ t'[l] = clock
      BY <1>1, <2>5 DEF WriteBegin
    <3>2. Placed(l)'
      BY <1>2, <3>1 DEF Placed, DayInv
    <3>3. QED
      BY <2>3, <3>1, <3>2 DEF First, Last
  <2>6. CASE WriteTest(l)
    <3>1. /\ UNCHANGED <<toDay_, lineCount_, fp_, newFile, t>> /\ pc[l] = "test"
          /\ pc'[l] = IF NeedsFile(l) THEN "name" ELSE "line"
      BY <1>1, <2>6 DEF WriteTest
    <3>2. lineCount_ \in First(fp_)..Last(fp_) /\ (lineCount_ = 0 \/ lineCount_ # First(fp_))
      BY <2>3, <3>1
    <3>3. ASSUME ~NeedsFile(l) PROVE toDay_ = t[l] /\ lineCount_ # Last(fp_)
      <4>1. lineCount_ = 0 \/ lineCount_ % MAX_LINES # 0
        BY <3>3 DEF NeedsFile
      <4>2. Last(fp_) % MAX_LINES = 0
        BY <1>1, <3>2, Turns
      <4>3. QED
        BY <1>3, <3>3, <4>1, <4>2 DEF NeedsFile
    <3>4. ~NeedsFile(l) => lineCount_ \in First(fp_)..Last(fp_) - 1
      BY <1>3, <3>2, <3>3
    <3>5. Placed(l)'
      BY <2>3, <3>1, <3>3, <3>4 DEF Placed, First, Last, NeedsFile
    <3>6. QED
      BY <2>3, <3>1, <3>5 DEF First, Last
  <2>7. CASE NameTest(l)
    <3>1. /\ UNCHANGED <<toDay_, lineCount_, fp_, newFile, t>> /\ pc[l] = "name"
          /\ pc'[l] = IF toDay_ # t[l] THEN "day" ELSE "part"
      BY <1>1, <2>7 DEF NameTest
    <3>2. toDay_ = t[l] => lineCount_ = Last(fp_)
      <4>1. /\ lineCount_ \in First(fp_)..Last(fp_) /\ (lineCount_ = 0 \/ lineCount_ # First(fp_))
            /\ NeedsFile(l)
        BY <2>3, <3>1 DEF Placed
      <4>2. lineCount_ % MAX_LINES = 0 => lineCount_ = First(fp_) \/ lineCount_ = Last(fp_)
        BY <1>1, <4>1, Turns
      <4>3. QED
        BY <4>1, <4>2 DEF NeedsFile
    <3>3. Placed(l)'
      BY <2>3, <3>1, <3>2 DEF Placed, First, Last
    <3>4. QED
      BY <2>3, <3>1, <3>3 DEF First, Last
  <2>8. CASE NameDay(l)
    <3>1. /\ newFile'[l] = PlainFile(t[l]) /\ toDay_' = t[l] /\ pc[l] = "day" /\ pc'[l] = "reset"
          /\ UNCHANGED <<t, fp_>>
      BY <1>1, <2>8 DEF NameDay
    <3>2. fp_.day < t[l] /\ fp_.day # t[l]
      BY <1>1, <2>3, <3>1 DEF Placed
    <3>3. toDay_' <= t'[l] /\ toDay_' # fp_'.day
      BY <1>1, <3>1, <3>2
    <3>4. Placed(l)'
      BY <3>1, <3>2, <3>3 DEF Placed, PlainFile
    <3>5. QED
      BY <3>1, <3>3, <3>4
  <2>9. CASE ResetCount(l)
    <3>1. /\ UNCHANGED <<toDay_, fp_, newFile, t>> /\ pc[l] = "reset" /\ pc'[l] = "open"
          /\ lineCount_' = 0 \/ \E m \in Loggers \ {l} : pc[m] = "line"
      BY <1>1, <2>9 DEF ResetCount
    <3>2. lineCount_' = 0
      BY <2>1, <3>1
    <3>3. newFile[l] = PlainFile(t[l]) /\ toDay_ = t[l] /\ fp_.day < t[l] /\ fp_.day # t[l] /\ toDay_ <= t[l]
      BY <1>1, <2>3, <3>1 DEF Placed
    <3>4. newFile[l].day = t[l] /\ First(newFile[l]) = 0
      BY <1>3, <3>3 DEF PlainFile, First, Part
    <3>5. Placed(l)'
      BY <3>1, <3>2, <3>3, <3>4 DEF Placed, First, Last, Part
    <3>6. QED
      BY <3>1, <3>3, <3>5
  <2>10. CASE NamePart(l)
    <3>1. /\ newFile'[l] = [day |-> t[l], part |-> lineCount_ \div MAX_LINES] /\ pc'[l] = "open"
          /\ UNCHANGED <<toDay_, lineCount_, fp_, t>> /\ pc[l] = "part"
      BY <1>1, <2>10 DEF NamePart
    <3>2. toDay_ = t[l] /\ lineCount_ = Last(fp_) /\ fp_.day = t[l] /\ toDay_ <= t[l]
      BY <2>3, <3>1 DEF Placed
    <3>3. /\ Part(newFile'[l]) = Part(fp_) + 1 /\ First(newFile'[l]) = Last(fp_)
          /\ newFile'[l].day = t[l]
      BY <1>1, <3>1, <3>2, NextPart
    <3>4. Part(newFile[l])' = Part(newFile'[l]) /\ First(newFile[l])' = First(newFile'[l])
      BY DEF First, Part
    <3>5. Part(fp_)' = Part(fp_) /\ First(fp_)' = First(fp_) /\ Last(fp_)' = Last(fp_)
      BY <3>1 DEF First, Last, Part
    <3>6. Placed(l)'
      BY <3>1, <3>2, <3>3, <3>4, <3>5 DEF Placed
    <3>7. QED
      BY <2>3, <3>1, <3>5, <3>6
  <2>11. CASE OpenFile(l)
    <3>1. /\ fp_' = newFile[l] /\ pc[l] = "open" /\ pc'[l] = "line"
          /\ UNCHANGED <<toDay_, lineCount_, newFile, t>>
      BY <1>1, <2>11 DEF OpenFile
    <3>2. toDay_ <= t[l] /\ newFile[l].day = t[l] /\ toDay_ = t[l] /\ lineCount_ = First(newFile[l])
      BY <2>3, <3>1 DEF Placed
    <3>3. /\ First(newFile[l]) \in Nat /\ Last(newFile[l]) = First(newFile[l]) + MAX_LINES
      BY <1>1, Ends
    <3>4. First(fp_)' = First(newFile[l]) /\ Last(fp_)' = Last(newFile[l])
      BY <3>1 DEF First, Last, Part
    <3>5. lineCount_' \in First(fp_)'..Last(fp_)' - 1 /\ lineCount_' \in First(fp_)'..Last(fp_)'
      BY <1>3, <3>1, <3>2, <3>3, <3>4
    <3>6. Placed(l)'
      BY <3>1, <3>2, <3>5 DEF Placed
    <3>7. QED
      BY <3>1, <3>2, <3>5, <3>6
  <2>12. CASE TakeUp(l) \/ PutDirectly(l)
    <3>1. /\ UNCHANGED <<toDay_, fp_, newFile, t>> /\ lineCount_' = lineCount_ + 1 /\ pc[l] = "line"
          /\ pc'[l] \in {"push", "flush"}
      BY <1>1, <2>12 DEF TakeUp, PutDirectly, TakeNext
    <3>2. toDay_ <= t[l] /\ lineCount_ \in First(fp_)..Last(fp_) - 1
      BY <2>3, <3>1 DEF Placed
    <3>3. First(fp_)' = First(fp_) /\ Last(fp_)' = Last(fp_)
      BY <3>1 DEF First, Last, Part
    <3>4. lineCount_' \in First(fp_)'..Last(fp_)' /\ lineCount_' # First(fp_)'
      BY <1>3, <3>1, <3>2, <3>3
    <3>5. Placed(l)'
      BY <3>1, <3>2 DEF Placed
    <3>6. QED
      BY <2>3, <3>1, <3>4, <3>5
  <2>13. CASE Push(l) \/ Flush(l)
    <3>1. /\ UNCHANGED <<toDay_, lineCount_, fp_, newFile, t>> /\ pc[l] \in {"push", "flush"}
          /\ pc'[l] \in {"flush", "idle"}
      BY <1>1, <2>13 DEF Push, Flush
    <3>2. First(fp_)' = First(fp_) /\ Last(fp_)' = Last(fp_)
      BY <3>1 DEF First, Last, Part
    <3>3. Placed(l)'
      BY <2>3, <3>1 DEF Placed
    <3>4. QED
      BY <2>3, <3>1, <3>2, <3>3
  <2>14. QED
    BY <1>4, <2>5, <2>6, <2>7, <2>8, <2>9, <2>10, <2>11, <2>12, <2>13, Zenon DEF write
<1>5. CASE AsyncWrite_ \/ Destroy \/ Midnight \/ UNCHANGED vars
  <2>1. UNCHANGED <<toDay_, lineCount_, fp_, pc, t, newFile, overlapped>>
    BY <1>5, OthersKeep
  <2>2. QED
    BY <1>2, <2>1 DEF FileInv, Alone, Placed, NeedsFile, First, Last, Part
<1>6. QED
  BY <1>4, <1>5 DEF Next

\* What write() and the writer do to the files, step by step: all other steps leave them alone.
LEMMA FileMoves ==
    ASSUME [Next]_vars
    PROVE  \/ UNCHANGED <<toDay_, lineCount_, fp_, lines, home, filed, written>>
           \/ PutLine
           \/ \E l \in Loggers : NameDay(l) \/ ResetCount(l) \/ OpenFile(l) \/ TakeUp(l) \/ PutDirectly(l)
<1> USE DEF queueVars, fileVars, loggerVars, writerVars, takenVars, outVars
<1>1. CASE UNCHANGED vars
  BY <1>1 DEF vars
<1>2. ASSUME NEW l \in Loggers, write(l)
      PROVE  \/ UNCHANGED <<toDay_, lineCount_, fp_, lines, home, filed, written>>
             \/ NameDay(l) \/ ResetCount(l) \/ OpenFile(l) \/ TakeUp(l) \/ PutDirectly(l)
  BY <1>2, Zenon DEF write, WriteBegin, WriteTest, NameTest, NamePart, Push, Flush
<1>3. CASE AsyncWrite_
  BY <1>3 DEF AsyncWrite_, PopLine, PopWait, Wake, SpuriousWake, AfterWait
<1>4. CASE Destroy
  BY <1>4 DEF Destroy, ExitBegin, Drain, Close, CloseNotify, JoinAndClose
<1>5. CASE Midnight
  BY <1>5 DEF Midnight
<1>6. QED
  BY <1>1, <1>2, <1>3, <1>4, <1>5, Zenon DEF Next

\* The line that is made while a file is open is the next one of that file.
LEMMA TakenHome ==
    ASSUME IInv, NEW l \in Loggers, TakeUp(l) \/ PutDirectly(l), ~overlapped, ~overlapped',
           \A i \in 1..Len(filed') : filed'[i] = fp_ \/ \E j \in 1..Len(filed) : filed'[i] = filed[j]
    PROVE  HomeInv'
<1> DEFINE M == MAX_LINES
           n == lines
           c == lineCount_ - First(fp_)
<1>1. /\ fp_' = fp_ /\ toDay_' = toDay_ /\ lines' = n + 1 /\ lineCount_' = lineCount_ + 1
      /\ home' = Append(home, fp_) /\ pc[l] = "line"
  BY DEF TakeUp, PutDirectly, TakeNext
<1>2. /\ home \in Seq(Files) /\ fp_ \in Files /\ Len(home) = n /\ n \in Nat
      /\ lineCount_ \in Nat
  <2>1. lineCount_ \in 0..MaxLines /\ lines \in 0..MaxLines
    BY DEF IInv, TypeOK
  <2>2. QED
    BY <2>1 DEF IInv, TypeOK, HistInv
<1>3. /\ Len(home') = n + 1 /\ home'[n + 1] = fp_
      /\ \A k \in 1..n : home'[k] = home[k]
  BY <1>1, <1>2
<1>4. M \in Nat \ {0} /\ First(fp_) \in Nat /\ Last(fp_) = First(fp_) + M /\ Part(fp_) \in Nat
  BY <1>2, Ends
<1>5. Placed(l) /\ toDay_ = fp_.day
  <2>1. \A m \in Loggers : pc[m] \notin {"reset", "open"}
    BY <1>1 DEF IInv, FileInv, Alone
  <2>2. QED
    BY <2>1 DEF IInv, FileInv
<1>6. c \in 0..M - 1
  <2>1. lineCount_ \in First(fp_)..Last(fp_) - 1
    BY <1>1, <1>5 DEF Placed
  <2>2. QED
    BY <1>2, <1>4, <2>1
<1>7. /\ \A k \in 1..n : home[k] = fp_ <=> k > n - c
      /\ c = 0 /\ n > 0 /\ home[n].day = fp_.day => n >= M /\ home[n - M + 1] = home[n]
      /\ \A k \in 1..n : Before(home[k])
      /\ \A i \in 1..Len(filed) : Before(filed[i])
      /\ \A j, k \in 1..n : home[j] = home[k] => k - j < M
      /\ \A k \in 1..n : k > 1 /\ home[k - 1] # home[k] /\ home[k - 1].day = home[k].day
                           => k > M /\ home[k - M] = home[k - 1]
  <2>1. c = 0 => lineCount_ = First(fp_)
    BY <1>2, <1>4
  <2> HIDE DEF c
  <2>2. \A k \in 1..n : home[k] = fp_ <=> k > n - c
    BY <1>5 DEF IInv, HomeInv, c
  <2>3. QED
    BY <1>5, <2>1, <2>2 DEF IInv, HomeInv
<1>8. First(fp_)' = First(fp_) /\ \A f : Before(f)' <=> Before(f)
  BY <1>1 DEF First, Part, Before
<1>9. lineCount_' - First(fp_)' = c + 1
  BY <1>1, <1>2, <1>4, <1>8
<1> HIDE DEF c, M, n
<1>10. \A k \in 1..n + 1 : k \in 1..n \/ k = n + 1
  BY <1>2 DEF n
<1>11. n \in Nat
  BY <1>2
<1>12. \A k \in 1..n + 1 : home'[k] = fp_ <=> k > (n + 1) - (c + 1)
  BY <1>3, <1>6, <1>7, <1>10, <1>11
<1>13. lineCount_' # First(fp_)'
  BY <1>1, <1>2, <1>4, <1>6, <1>8, <1>9
<1>14. \A k \in 1..n + 1 : Before(home'[k])
  <2>1. Before(fp_)
    BY <1>4 DEF Before
  <2>2. QED
    BY <1>3, <1>7, <1>10, <2>1
<1>15. \A i \in 1..Len(filed') : Before(filed'[i])
  <2>1. Before(fp_)
    BY <1>4 DEF Before
  <2>2. QED
    BY <1>7, <2>1
<1>16. \A j, k \in 1..n + 1 : home'[j] = home'[k] => k - j < M
  <2> SUFFICES ASSUME NEW j \in 1..n + 1, NEW k \in 1..n + 1, home'[j] = home'[k]
               PROVE  k - j < M
    OBVIOUS
  <2>1. CASE k \in 1..n /\ j \in 1..n
    BY <1>3, <1>7, <2>1
  <2>2. CASE k \in 1..n /\ j = n + 1
    BY <1>4, <1>11, <2>2
  <2>3. CASE k = n + 1
    <3>1. j > (n + 1) - (c + 1)
      BY <1>3, <1>12, <2>3
    <3>2. QED
      BY <1>4, <1>6, <1>11, <2>3, <3>1
  <2>4. QED
    BY <1>10, <2>1, <2>2, <2>3
<1>17. ASSUME NEW k \in 1..n + 1, k > 1, home'[k - 1] # home'[k], home'[k - 1].day = home'[k].day
       PROVE  k > M /\ home'[k - M] = home'[k - 1]
  <2>1. CASE k \in 1..n
    <3>1. home'[k - 1] = home[k - 1] /\ home'[k] = home[k] /\ k - 1 \in 1..n
      BY <1>3, <1>11, <1>17, <2>1
    <3>2. k > M /\ home[k - M] = home[k - 1]
      BY <1>7, <1>17, <2>1, <3>1
    <3>3. k - M \in 1..n
      BY <1>4, <1>11, <2>1, <3>2
    <3>4. QED
      BY <1>3, <3>1, <3>2, <3>3
  <2>2. CASE k = n + 1
    <3>1. n \in 1..n /\ k - 1 = n
      BY <1>11, <1>17, <2>2
    <3>2. home'[n] = home[n] /\ home[n] # fp_ /\ home[n].day = fp_.day
      BY <1>3, <1>17, <2>2, <3>1
    <3>3. c = 0
      BY <1>6, <1>7, <1>11, <3>1, <3>2
    <3>4. n >= M /\ home[n - M + 1] = home[n]
      BY <1>7, <3>1, <3>2, <3>3
    <3>5. n - M + 1 \in 1..n /\ k - M = n - M + 1 /\ k > M
      BY <1>4, <1>11, <2>2, <3>4
    <3>6. QED
      BY <1>3, <3>1, <3>2, <3>4, <3>5
  <2>3. QED
    BY <1>10, <2>1, <2>2
<1>18. lines' = n + 1
  BY <1>1
<1>19. \A k \in 1..lines' : home'[k] = fp_' <=> k > lines' - (lineCount_' - First(fp_)')
  BY <1>1, <1>9, <1>12, <1>18
<1>20. QED
  <2>1. \A k \in 1..n + 1 : k > 1 /\ home'[k - 1] # home'[k] /\ home'[k - 1].day = home'[k].day
                             => k > M /\ home'[k - M] = home'[k - 1]
    BY <1>17
  <2>2. \A j, k \in 1..lines' : home'[j] = home'[k] => k - j < MAX_LINES
    BY <1>16, <1>18 DEF M
  <2>3. \A k \in 1..lines' : k > 1 /\ home'[k - 1] # home'[k] /\ home'[k - 1].day = home'[k].day
                             => k > MAX_LINES /\ home'[k - MAX_LINES] = home'[k - 1]
    BY <1>18, <2>1 DEF M
  <2>4. (\A k \in 1..lines' : Before(home[k])') /\ (\A i \in 1..Len(filed') : Before(filed[i])')
    BY <1>8, <1>14, <1>15, <1>18 DEF Before
  <2>5. QED
    BY <1>13, <1>19, <2>2, <2>3, <2>4 DEF HomeInv

\* The file that is opened comes after all others, and after a full one if it is not the
\* first of its day.
LEMMA OpenedHome ==
    ASSUME IInv, NEW l \in Loggers, OpenFile(l), ~overlapped, ~overlapped'
    PROVE  /\ HomeInv'
           /\ \A k \in 1..lines : home[k] # fp_'
           /\ \A i \in 1..Len(filed) : filed[i] # fp_'
<1> USE DEF fileVars, takenVars, outVars
<1> DEFINE g == newFile[l]
           n == lines
           M == MAX_LINES
           Upto(f) == f.day < g.day \/ (f.day = g.day /\ Part(f) <= Part(g))
<1>1. /\ fp_' = g /\ UNCHANGED <<toDay_, lineCount_, lines, home, filed>> /\ pc[l] = "open"
  BY DEF OpenFile
<1>2. /\ home \in Seq(Files) /\ filed \in Seq(Files) /\ fp_ \in Files /\ g \in Files
      /\ Len(home) = n /\ n \in Nat /\ lineCount_ \in Nat /\ lineCount_ <= n
      /\ fp_.day \in Int /\ g.day \in Int
      /\ \A k \in 1..n : home[k] \in Files /\ home[k].day \in Int
      /\ \A i \in 1..Len(filed) : filed[i] \in Files /\ filed[i].day \in Int
  <2>1. /\ lineCount_ \in 0..MaxLines /\ lines \in 0..MaxLines /\ newFile \in [Loggers -> Files]
        /\ lineCount_ <= lines /\ home \in Seq(Files) /\ filed \in Seq(Files) /\ Len(home) = lines
        /\ fp_ \in Files
    BY DEF IInv, TypeOK, HistInv, CountInv
  <2>2. \A f \in Files : f.day \in Int
    BY DEF Files
  <2>3. QED
    BY <2>1, <2>2
<1>3. /\ g.day = t[l] /\ toDay_ = g.day /\ lineCount_ = First(g)
      /\ fp_.day < g.day \/ (fp_.day = g.day /\ Part(g) = Part(fp_) + 1)
  BY <1>1 DEF IInv, FileInv, Placed
<1>4. /\ M \in Nat \ {0} /\ First(fp_) \in Nat /\ Last(fp_) = First(fp_) + M
      /\ \A f \in Files : Part(f) \in Nat
  BY <1>2, Ends
<1>5. /\ toDay_ = fp_.day => \A k \in 1..n : home[k] = fp_ <=> k > n - (lineCount_ - First(fp_))
      /\ \A k \in 1..n : Before(home[k])
      /\ \A i \in 1..Len(filed) : Before(filed[i])
      /\ \A j, k \in 1..n : home[j] = home[k] => k - j < M
      /\ \A k \in 1..n : k > 1 /\ home[k - 1] # home[k] /\ home[k - 1].day = home[k].day
                           => k > M /\ home[k - M] = home[k - 1]
  BY DEF IInv, HomeInv
<1>7. First(fp_)' = First(g)
  BY <1>1 DEF First, Part
<1> HIDE DEF g, n, M
<1>8. ASSUME NEW f \in Files, f.day \in Int, Before(f)
      PROVE  Upto(f) /\ f # g /\ f.day <= fp_.day
  <2>1. Part(f) \in Nat /\ Part(fp_) \in Nat /\ Part(g) \in Nat
    BY <1>2, <1>4
  <2>2. f.day < fp_.day \/ (f.day = fp_.day /\ Part(f) <= Part(fp_))
    BY <1>8 DEF Before
  <2>3. f.day < g.day \/ (f.day = g.day /\ Part(f) < Part(g))
    BY <1>2, <1>3, <1>8, <2>1, <2>2
  <2>4. QED
    BY <1>2, <1>8, <2>1, <2>2, <2>3
<1>9. \A k \in 1..n : Upto(home[k]) /\ home[k] # g /\ home[k].day <= fp_.day
  BY <1>2, <1>5, <1>8
<1>10. \A i \in 1..Len(filed) : Upto(filed[i]) /\ filed[i] # g
  BY <1>2, <1>5, <1>8
<1>11. \A k \in 1..n : home[k] = g <=> k > n - (lineCount_ - First(g))
  <2>1. n - (lineCount_ - First(g)) = n
    BY <1>2, <1>3
  <2>2. QED
    BY <1>2, <1>9, <2>1
<1>12. ASSUME n > 0, home[n].day = g.day PROVE n >= M /\ home[n - M + 1] = home[n]
  <2>1. n \in 1..n
    BY <1>2, <1>12
  <2>2. fp_.day = g.day /\ Part(g) = Part(fp_) + 1
    BY <1>2, <1>3, <1>9, <1>12, <2>1
  <2>3. lineCount_ = First(fp_) + M
    BY <1>3, <1>4, <2>2 DEF First, Last
  <2>4. \A k \in 1..n : home[k] = fp_ <=> k > n - M
    BY <1>3, <1>4, <1>5, <2>2, <2>3
  <2>5. n >= M
    BY <1>2, <1>4, <2>3
  <2>6. n - M + 1 \in 1..n
    BY <1>2, <1>4, <2>5
  <2>7. QED
    BY <1>2, <1>4, <2>1, <2>4, <2>5, <2>6
<1>13. /\ fp_' = g /\ lines' = n /\ home' = home /\ filed' = filed /\ lineCount_' = lineCount_
       /\ toDay_' = toDay_
  BY <1>1 DEF g, n
<1>14. /\ \A k \in 1..lines' : Before(home[k])'
       /\ \A i \in 1..Len(filed') : Before(filed[i])'
  BY <1>9, <1>10, <1>13 DEF Before, Part
<1>15. /\ \A j, k \in 1..lines' : home'[j] = home'[k] => k - j < MAX_LINES
       /\ \A k \in 1..lines' :
              k > 1 /\ home'[k - 1] # home'[k] /\ home'[k - 1].day = home'[k].day
                => k > MAX_LINES /\ home'[k - MAX_LINES] = home'[k - 1]
  BY <1>5, <1>13 DEF M
<1>16. /\ \A k \in 1..lines' : home'[k] = fp_' <=> k > lines' - (lineCount_' - First(fp_)')
       /\ lines' > 0 /\ home'[lines'].day = fp_'.day =>
             lines' >= MAX_LINES /\ home'[lines' - MAX_LINES + 1] = home'[lines']
  BY <1>7, <1>11, <1>12, <1>13 DEF M
<1>17. HomeInv'
  BY <1>14, <1>15, <1>16 DEF HomeInv
<1>18. QED
  BY <1>9, <1>10, <1>13, <1>17 DEF n

\* Files follow one another, each of them filled before the next one of its day.
LEMMA HomeStep ==
    ASSUME IInv, [Next]_vars
    PROVE  HomeInv'
<1> USE DEF queueVars, fileVars, takenVars, outVars
<1> SUFFICES ASSUME ~overlapped' PROVE HomeInv'
  BY DEF HomeInv
<1>1. ~overlapped
  <2>1. ASSUME NEW l \in Loggers, write(l) PROVE ~overlapped
    BY <2>1, AloneStep
  <2>2. CASE AsyncWrite_ \/ Destroy \/ Midnight \/ UNCHANGED vars
    BY <2>2, OthersKeep
  <2>3. QED
    BY <2>1, <2>2 DEF Next
<1>2. HomeInv /\ HistInv /\ filed \in Seq(Files) /\ fp_ \in Files
  BY DEF IInv, TypeOK
<1>3. \A k : k \in 1..Len(Append(filed, fp_)) =>
        Append(filed, fp_)[k] = fp_ \/ \E j \in 1..Len(filed) : Append(filed, fp_)[k] = filed[j]
  <2>1. Len(Append(filed, fp_)) = Len(filed) + 1 /\ Len(filed) \in Nat
    BY <1>2
  <2>2. \A k \in 1..Len(filed) + 1 : k \in 1..Len(filed) \/ k = Len(filed) + 1
    BY <2>1
  <2>3. QED
    BY <1>2, <2>1, <2>2
<1>4. CASE UNCHANGED <<toDay_, lineCount_, fp_, lines, home, filed, written>>
  BY <1>1, <1>2, <1>4 DEF HomeInv, First, Part, Before
<1>5. CASE PutLine
  <2>1. UNCHANGED <<toDay_, lineCount_, fp_, lines, home>> /\ filed' = Append(filed, fp_)
    BY <1>5 DEF PutLine, Puts
  <2>2. Part(fp_) \in Nat
    BY <1>2, Ends
  <2>3. \A i \in 1..Len(filed) : Before(filed[i])
    BY <1>1, <1>2 DEF HomeInv
  <2>4. Before(fp_)
    BY <2>2 DEF Before
  <2>5. \A i \in 1..Len(filed') : Before(filed'[i])
    BY <1>3, <2>1, <2>3, <2>4
  <2>6. \A i \in 1..Len(filed') : Before(filed[i])'
    BY <2>1, <2>5 DEF Before, Part
  <2>7. QED
    BY <1>1, <1>2, <2>1, <2>6 DEF HomeInv, First, Part, Before
<1>6. ASSUME NEW l \in Loggers, NameDay(l) \/ ResetCount(l) PROVE HomeInv'
  <2>1. UNCHANGED <<fp_, lines, home, filed, t>> /\ pc[l] \in {"day", "reset"}
    BY <1>6 DEF NameDay, ResetCount
  <2>2. toDay_' # fp_.day
    <3>1. CASE NameDay(l)
      <4>1. toDay_' = t[l] /\ pc[l] = "day"
        BY <3>1 DEF NameDay
      <4>2. \A m \in Loggers : pc[m] \notin {"reset", "open"}
        BY <1>1, <4>1 DEF IInv, FileInv, Alone
      <4>3. Placed(l) /\ toDay_ = fp_.day
        BY <1>1, <4>2 DEF IInv, FileInv
      <4>4. QED
        BY <4>1, <4>3 DEF Placed
    <3>2. CASE ResetCount(l)
      <4>1. toDay_' = toDay_ /\ pc[l] = "reset"
        BY <3>2 DEF ResetCount
      <4>2. Placed(l)
        BY <1>1 DEF IInv, FileInv
      <4>3. toDay_ = t[l] /\ fp_.day < t[l] /\ fp_.day \in Int /\ t[l] \in Int
        <5>1. t \in [Loggers -> 0..MaxDay]
          BY DEF IInv, TypeOK
        <5>2. QED
          BY <1>2, <4>1, <4>2, <5>1 DEF Placed, Files
      <4>4. QED
        BY <4>1, <4>3
    <3>3. QED
      BY <1>6, <3>1, <3>2
  <2>3. QED
    BY <1>1, <1>2, <2>1, <2>2 DEF HomeInv, Before, Part
<1>7. ASSUME NEW l \in Loggers, OpenFile(l) PROVE HomeInv'
  BY <1>1, <1>7, OpenedHome
<1>8. ASSUME NEW l \in Loggers, TakeUp(l) \/ PutDirectly(l) PROVE HomeInv'
  <2>1. filed' = filed \/ filed' = Append(filed, fp_)
    BY <1>8 DEF TakeUp, PutDirectly, Puts
  <2>2. \A i \in 1..Len(filed') : filed'[i] = fp_ \/ \E j \in 1..Len(filed) : filed'[i] = filed[j]
    BY <1>3, <2>1
  <2>3. QED
    BY <1>1, <1>8, <2>2, TakenHome
<1>9. QED
  BY <1>4, <1>5, <1>6, <1>7, <1>8, FileMoves

\* What a step but OpenFile adds to no file.
LEMMA AstrayKept ==
    ASSUME IInv, [Next]_vars, ~\E l \in Loggers : OpenFile(l), NEW f \in Files
    PROVE  Astray(f)' \subseteq Astray(f)
<1> USE DEF queueVars, fileVars, loggerVars, writerVars, takenVars, outVars
<1>1. /\ home \in Seq(Files) /\ filed \in Seq(Files) /\ written \in Seq(Lines) /\ lines \in Nat
      /\ Len(home) = lines /\ Len(filed) = Len(written) /\ Len(written) \in Nat /\ fp_ \in Files
      /\ deq_ \in Seq(Lines) /\ Len(deq_) \in Nat
  BY DEF IInv, TypeOK, HistInv
<1>2. /\ \A i \in 1..Len(written) : written[i] \in 1..lines
      /\ \A i \in 1..Len(deq_) : deq_[i] \in 1..lines
      /\ writer = "put" => str \in 1..lines
  BY DEF IInv, OutInv, QueueInv
<1>3. fp_' = fp_
  BY Zenon DEF Next, vars, write, WriteBegin, WriteTest, NameTest, NameDay, ResetCount, NamePart,
               TakeUp, PutDirectly, Push, Flush, AsyncWrite_, PopLine, PopWait, Wake, SpuriousWake,
               AfterWait, PutLine, Destroy, ExitBegin, Drain, Close, CloseNotify, JoinAndClose,
               Midnight
<1>4. \* It is enough that a line astray afterwards is one that was astray before.
      SUFFICES ASSUME NEW k \in 1..lines', home'[k] # f, PutInto(k, f)' \/ (f = fp_' /\ InHand(k)')
               PROVE  k \in 1..lines /\ home[k] # f /\ (PutInto(k, f) \/ (f = fp_ /\ InHand(k)))
  BY DEF Astray, PutInto, InHand
<1>5. CASE Still
  BY <1>3, <1>4, <1>5 DEF Still, PutInto, InHand
<1>6. CASE Takes
  <2>1. /\ deq_ # <<>> /\ str' = Head(deq_) /\ deq_' = Tail(deq_) /\ writer' = "put"
        /\ UNCHANGED <<mtx_, lines, home, written, filed>>
    BY <1>6 DEF Takes, TakeFront
  <2>2. /\ Len(deq_) > 0 /\ str' = deq_[1] /\ Len(deq_') = Len(deq_) - 1
        /\ \A i \in 1..Len(deq_') : deq_'[i] = deq_[i + 1] /\ i + 1 \in 1..Len(deq_)
        /\ 1 \in 1..Len(deq_)
    BY <1>1, <2>1
  <2>3. InHand(k)' => InHand(k)
    BY <2>1, <2>2 DEF InHand
  <2>4. QED
    BY <1>3, <1>4, <2>1, <2>3 DEF PutInto
<1>7. CASE PutLine
  <2>1. /\ writer = "put" /\ written' = Append(written, str) /\ filed' = Append(filed, fp_)
        /\ UNCHANGED <<deq_, mtx_, lines, home>> /\ writer' = "pop"
    BY <1>7 DEF PutLine, Puts
  <2>2. str \in Lines
    BY <1>2, <2>1 DEF IInv, TypeOK, Lines
  <2>3. InHand(k)' => InHand(k)
    BY <2>1 DEF InHand
  <2>4. ASSUME PutInto(k, f)' PROVE PutInto(k, f) \/ (f = fp_ /\ InHand(k))
    <3>1. PICK i \in 1..Len(written') : written'[i] = k /\ filed'[i] = f
      BY <2>4 DEF PutInto
    <3>2. CASE i \in 1..Len(written)
      BY <1>1, <2>1, <2>2, <3>1, <3>2 DEF PutInto
    <3>3. CASE i = Len(written) + 1
      <4>1. written'[i] = str /\ filed'[i] = fp_
        BY <1>1, <2>1, <2>2, <3>3
      <4>2. QED
        BY <2>1, <3>1, <4>1 DEF InHand
    <3>4. QED
      <4>1. Len(written') = Len(written) + 1
        BY <1>1, <2>1, <2>2
      <4>2. QED
        BY <1>1, <3>1, <3>2, <3>3, <4>1
  <2>5. QED
    BY <1>3, <1>4, <2>1, <2>3, <2>4
<1>8. ASSUME NEW l \in Loggers, TakeUp(l) \/ PutDirectly(l)
      PROVE  k \in 1..lines /\ home[k] # f /\ (PutInto(k, f) \/ (f = fp_ /\ InHand(k)))
  <2>1. /\ home' = Append(home, fp_) /\ lines' = lines + 1 /\ UNCHANGED <<deq_, writer, str>>
        /\ mtx_ = NoThread
    BY <1>8 DEF TakeUp, PutDirectly, TakeNext
  <2>2. home'[lines + 1] = fp_ /\ \A j \in 1..lines : home'[j] = home[j]
    BY <1>1, <2>1
  <2>3. \/ UNCHANGED <<written, filed>>
        \/ written' = Append(written, lines + 1) /\ filed' = Append(filed, fp_)
    BY <1>8 DEF TakeUp, PutDirectly, Puts
  <2>4. PutInto(k, f)' => PutInto(k, f) \/ (k = lines + 1 /\ f = fp_)
    <3>1. CASE UNCHANGED <<written, filed>>
      BY <3>1 DEF PutInto
    <3>2. CASE written' = Append(written, lines + 1) /\ filed' = Append(filed, fp_)
      <4>1. lines + 1 \in Nat
        BY <1>1
      <4>2. /\ Len(written') = Len(written) + 1
            /\ written'[Len(written) + 1] = lines + 1 /\ filed'[Len(written) + 1] = fp_
            /\ \A i \in 1..Len(written) : written'[i] = written[i] /\ filed'[i] = filed[i]
        <5>1. lines + 1 \in Lines
          <6>1. lines' \in 0..MaxLines
            BY CountStep DEF IInv
          <6>2. QED
            BY <1>1, <2>1, <6>1 DEF Lines
        <5>2. QED
          BY <1>1, <3>2, <5>1
      <4>3. \A i \in 1..Len(written) + 1 : i \in 1..Len(written) \/ i = Len(written) + 1
        BY <1>1
      <4>4. QED
        BY <4>2, <4>3 DEF PutInto
    <3>3. QED
      BY <2>3, <3>1, <3>2
  <2>5. k # lines + 1
    <3> SUFFICES ASSUME k = lines + 1 PROVE FALSE
      OBVIOUS
    <3>1. f # fp_ /\ PutInto(k, f)'
      BY <1>3, <1>4, <2>2
    <3>2. PutInto(k, f)
      BY <2>4, <3>1
    <3>3. QED
      BY <1>1, <1>2, <3>2 DEF PutInto
  <2>6. k \in 1..lines
    BY <1>1, <1>4, <2>1, <2>5
  <2>7. InHand(k)' => InHand(k)
    BY <1>1, <2>1, <2>5 DEF InHand
  <2>8. QED
    BY <1>3, <1>4, <2>2, <2>4, <2>5, <2>6, <2>7
<1>9. ASSUME NEW l \in Loggers, Push(l)
      PROVE  k \in 1..lines /\ home[k] # f /\ (PutInto(k, f) \/ (f = fp_ /\ InHand(k)))
  <2>1. /\ deq_' = Append(deq_, lines) /\ mtx_' = NoThread
        /\ UNCHANGED <<lines, home, written, filed, writer, str>>
    BY <1>9 DEF Push
  <2>2. mtx_ # NoThread /\ lines > 0
    BY <1>9, LoggersAssumption DEF Push, IInv, MutexInv
  <2>3. lines \in Lines
    BY <2>2 DEF IInv, TypeOK, Lines
  <2>4. (\E i \in 1..Len(deq_') : deq_'[i] = k) => k = lines \/ \E i \in 1..Len(deq_) : deq_[i] = k
    BY <1>1, <2>1, <2>3, Appended
  <2>5. InHand(k)' => InHand(k)
    BY <2>1, <2>2, <2>4 DEF InHand
  <2>6. QED
    BY <1>3, <1>4, <2>1, <2>5 DEF PutInto
<1>10. QED
  BY <1>5, <1>6, <1>7, <1>8, <1>9, LineStep DEF IInv

\* A new file may get the lines in hand, and no file gets more than it could when it was opened.
LEMMA StrayStep ==
    ASSUME IInv, [Next]_vars
    PROVE  StrayInv'
<1> SUFFICES ASSUME ~overlapped', NEW f \in Files
             PROVE  IsFiniteSet(Astray(f)') /\ Cardinality(Astray(f)') <= Capacity + 1
  BY DEF StrayInv
<1>1. ~overlapped
  <2>1. ASSUME NEW l \in Loggers, write(l) PROVE ~overlapped
    BY <2>1, AloneStep
  <2>2. CASE AsyncWrite_ \/ Destroy \/ Midnight \/ UNCHANGED vars
    BY <2>2, OthersKeep
  <2>3. QED
    BY <2>1, <2>2 DEF Next
<1>2. /\ IsFiniteSet(Astray(f)) /\ Cardinality(Astray(f)) <= Capacity + 1
      /\ Cardinality(Astray(f)) \in Nat /\ Capacity \in Nat
  BY <1>1, FS_CardinalityType, LogBoundsAssumption DEF IInv, StrayInv
<1>3. ASSUME Astray(f)' \subseteq Astray(f)
      PROVE  IsFiniteSet(Astray(f)') /\ Cardinality(Astray(f)') <= Capacity + 1
  <2>1. IsFiniteSet(Astray(f)') /\ Cardinality(Astray(f)') <= Cardinality(Astray(f))
    BY <1>2, <1>3, FS_Subset
  <2>2. Cardinality(Astray(f)') \in Nat
    BY <2>1, FS_CardinalityType
  <2>3. QED
    BY <1>2, <2>1, <2>2
<1>4. ASSUME NEW l \in Loggers, OpenFile(l)
      PROVE  IsFiniteSet(Astray(f)') /\ Cardinality(Astray(f)') <= Capacity + 1
  <2>1. /\ mtx_ = NoThread /\ UNCHANGED <<deq_, mtx_, lines, home, written, filed, writer, str>>
    BY <1>4 DEF OpenFile, queueVars, takenVars, writerVars
  <2>2. \A i \in 1..Len(filed) : filed[i] # fp_'
    BY <1>1, <1>4, OpenedHome
  <2>3. Len(filed) = Len(written)
    BY DEF IInv, HistInv
  <2>4. CASE f = fp_'
    <3>1. Astray(f)' \subseteq {k \in 1..lines : InHand(k)}
      BY <2>1, <2>2, <2>3, <2>4 DEF Astray, PutInto, InHand
    <3>2. QED
      BY <2>1, <3>1, FewInHand
  <2>5. CASE f # fp_'
    <3>1. Astray(f)' \subseteq Astray(f)
      BY <2>1, <2>5 DEF Astray, PutInto
    <3>2. QED
      BY <1>3, <3>1
  <2>6. QED
    BY <2>4, <2>5
<1>5. QED
  BY <1>3, <1>4, AstrayKept

(* The invariant, and what follows from it *)

\* The log that init() leaves is empty, and its file the first of the day.
LEMMA InitHolds == Init => IInv
<1> SUFFICES ASSUME Init PROVE IInv
  OBVIOUS
<1> USE DEF Init
<1>1. /\ Capacity \in Nat \ {0} /\ MAX_LINES \in Nat \ {0} /\ MaxLines \in Nat /\ MaxDay \in 0..27
      /\ 0 \in 0..MaxDay /\ 0 \in 0..MaxLines
  BY LogBoundsAssumption
<1>2. PlainFile(0) \in Files /\ PlainFile(0).day = 0 /\ Part(PlainFile(0)) = 0
  BY <1>1 DEF PlainFile, Files, Part
<1>3. TypeOK
  <2>1. <<>> \in Seq(Lines) /\ Len(<<>>) = 0
    OBVIOUS
  <2>2. deq_ \in Seq(Lines) /\ Len(deq_) <= Capacity /\ written \in Seq(Lines)
    BY <1>1, <2>1
  <2>3. /\ newFile \in [Loggers -> Files] /\ t \in [Loggers -> 0..MaxDay]
        /\ pc \in [Loggers -> {"idle", "test", "name", "day", "reset", "part", "open", "line", "push", "flush"}]
    BY <1>1, <1>2
  <2>4. home \in Seq(Files) /\ filed \in Seq(Files)
    OBVIOUS
  <2>5. QED
    BY <1>1, <1>2, <2>2, <2>3, <2>4 DEF TypeOK
<1>4. CountInv
  <2>1. Begun(pc) = {}
    BY DEF Begun, OnTheWay
  <2>2. Cardinality(Begun(pc)) = 0
    BY <2>1, FS_EmptySet
  <2>3. lines = 0 /\ calls = 0 /\ lineCount_ = 0
    OBVIOUS
  <2>4. QED
    BY <2>2, <2>3 DEF CountInv
<1>5. MutexInv
  BY LoggersAssumption DEF MutexInv
<1>6. ExitInv
  BY DEF ExitInv
<1>7. QueueInv
  BY DEF QueueInv
<1>8. OutInv
  BY DEF OutInv
<1>9. LateInv
  BY DEF LateInv
<1>10. HistInv
  BY DEF HistInv
<1>11. DayInv
  BY DEF DayInv
<1>12. First(fp_) = 0 /\ fp_.day = 0 /\ Last(fp_) \in Nat
  BY <1>1, <1>2 DEF First, Last
<1>13. FileInv
  <2>1. Alone /\ \A l \in Loggers : Placed(l)
    BY DEF Alone, Placed
  <2>2. QED
    BY <1>12, <2>1 DEF FileInv
<1>14. HomeInv
  BY DEF HomeInv
<1>15. StrayInv
  <2> SUFFICES ASSUME NEW f \in Files
               PROVE  IsFiniteSet(Astray(f)) /\ Cardinality(Astray(f)) <= Capacity + 1
    BY DEF StrayInv
  <2>1. Astray(f) = {}
    BY DEF Astray
  <2>2. QED
    BY <1>1, <2>1, FS_EmptySet
<1>16. QED
  BY <1>3, <1>4, <1>5, <1>6, <1>7, <1>8, <1>9, <1>10, <1>11, <1>13, <1>14, <1>15 DEF IInv

\* Every step keeps the invariant.
LEMMA NextStep == IInv /\ [Next]_vars => IInv'
<1> SUFFICES ASSUME IInv, [Next]_vars PROVE IInv'
  OBVIOUS
<1>1. TypeOK /\ CountInv /\ ExitInv /\ QueueInv /\ HistInv
  BY DEF IInv
<1>2. HistInv'
  BY <1>1, HistStep
<1>3. QED
  BY <1>1, <1>2, TypeStep, CountStep, MutexStep, ExitStep, QueueStep, OutStep, LateStep, DayStep,
     FileStep, HomeStep, StrayStep DEF IInv

\* The invariant holds in every state of the log.
THEOREM IInvHolds == Spec => []IInv
<1>1. QED
  BY InitHolds, NextStep, PTL DEF Spec

\* Every variable keeps its type, and the queue never holds more than it has room for.
THEOREM TypeCorrect == Spec => []TypeOK
<1>1. IInv => TypeOK
  BY DEF IInv
<1>2. QED
  BY <1>1, IInvHolds, PTL

\* A logger never waits in push_back() with the mutex that the writer needs to make room.
THEOREM RoomIsKept == Spec => []PushNeverWaits
<1>1. IInv => PushNeverWaits
  <2> SUFFICES ASSUME IInv, NEW l \in Loggers, pc[l] = "push" PROVE ~full
    BY DEF PushNeverWaits
  <2>1. mtx_ # NoThread
    BY LoggersAssumption DEF IInv, MutexInv
  <2>2. Len(deq_) < Capacity /\ Len(deq_) \in Nat /\ Capacity \in Nat
    BY <2>1, LogBoundsAssumption DEF IInv, MutexInv, TypeOK
  <2>3. QED
    BY <2>2 DEF full
<1>2. QED
  BY <1>1, IInvHolds, PTL

\* A line that came through the queue overtakes none; one that found it full overtakes no
\* more lines than a full queue and the one in the hands of the writer.
THEOREM OrderIsKept == Spec => []OrderKept
<1>1. IInv => OrderKept
  <2> SUFFICES ASSUME IInv, NEW i \in DOMAIN written
               PROVE  LET overtaken == {j \in i + 1..Len(written) : written[j] < written[i]}
                      IN  /\ written[i] \notin direct => overtaken = {}
                          /\ Cardinality(overtaken) <= Capacity + 1
    BY DEF OrderKept
  <2> DEFINE overtaken == {j \in i + 1..Len(written) : written[j] < written[i]}
             f == [j \in overtaken |-> written[j]]
             L == Late(written, i)
  <2>1. /\ written \in Seq(Lines) /\ Len(written) \in Nat /\ i \in 1..Len(written)
        /\ lines \in Nat /\ Capacity \in Nat
        /\ \A j \in 1..Len(written) : written[j] \in 1..lines
        /\ \A j, k \in 1..Len(written) : j # k => written[j] # written[k]
    BY LogBoundsAssumption, SMTT(30) DEF IInv, TypeOK, OutInv
  <2>2. /\ written[i] \notin direct => L = {}
        /\ IsFiniteSet(L) /\ Cardinality(L) <= Capacity + 1
    BY <2>1 DEF IInv, LateInv
  <2>3. ASSUME NEW j \in overtaken PROVE written[j] \in L
    <3>1. j \in 1..Len(written) /\ j > i /\ written[j] < written[i]
      BY <2>1
    <3>2. written[j] \in 1..written[i] - 1
      BY <2>1, <3>1
    <3>3. \A k \in 1..i : written[k] # written[j]
      BY <2>1, <3>1
    <3>4. QED
      BY <3>2, <3>3 DEF Late
  <2>4. f \in Injection(overtaken, L)
    <3>1. f \in [overtaken -> L]
      BY <2>3
    <3>2. \A j, k \in overtaken : f[j] = f[k] => j = k
      BY <2>1
    <3> HIDE DEF f, overtaken, L
    <3>3. QED
      BY <3>1, <3>2 DEF Injection, IsInjective
  <2> HIDE DEF f, L, overtaken
  <2>5. IsFiniteSet(overtaken) /\ Cardinality(overtaken) <= Cardinality(L)
    BY <2>2, <2>4, FS_Injection
  <2>6. Cardinality(overtaken) <= Capacity + 1
    <3>1. Cardinality(overtaken) \in Nat /\ Cardinality(L) \in Nat
      BY <2>2, <2>5, FS_CardinalityType
    <3>2. QED
      BY <2>1, <2>2, <2>5, <3>1
  <2>7. L = {} => overtaken = {}
    <3>1. \A j \in overtaken : written[j] \in L
      BY <2>3
    <3>2. QED
      BY <3>1
  <2>8. QED
    BY <2>2, <2>6, <2>7 DEF overtaken
<1>2. QED
  BY <1>1, IInvHolds, PTL

\* As long as no two calls of write() overlap: a line is made while the file of its day is
\* open, a file is left for the next one of the day after exactly MAX_LINES lines, and no
\* more lines of other files come into it than a full queue and the one with the writer.
THEOREM FileIsRight == Spec => []FileFits
<1>1. IInv => FileFits
  <2> SUFFICES ASSUME IInv, ~overlapped
               PROVE  /\ \A l \in Loggers : pc[l] = "line" => fp_.day = t[l]
                      /\ \A j, k \in DOMAIN home : home[j] = home[k] => k - j < MAX_LINES
                      /\ \A k \in DOMAIN home :
                            k > 1 /\ home[k - 1] # home[k] /\ home[k - 1].day = home[k].day
                              => k > MAX_LINES /\ home[k - MAX_LINES] = home[k - 1]
                      /\ \A i \in DOMAIN filed : Cardinality(Strays(filed[i])) <= Capacity + 1
    BY DEF FileFits
  <2>1. /\ DOMAIN home = 1..lines /\ filed \in Seq(Files) /\ DOMAIN filed = 1..Len(filed)
        /\ DOMAIN written = 1..Len(written) /\ Capacity \in Nat
    BY LogBoundsAssumption DEF IInv, TypeOK, HistInv
  <2>2. ASSUME NEW l \in Loggers, pc[l] = "line" PROVE fp_.day = t[l]
    <3>1. \A m \in Loggers : pc[m] \notin {"reset", "open"}
      BY <2>2 DEF IInv, FileInv, Alone
    <3>2. toDay_ = fp_.day /\ Placed(l)
      BY <3>1 DEF IInv, FileInv
    <3>3. QED
      BY <2>2, <3>2 DEF Placed
  <2>3. ASSUME NEW i \in DOMAIN filed PROVE Cardinality(Strays(filed[i])) <= Capacity + 1
    <3> DEFINE f == filed[i]
    <3>1. f \in Files
      BY <2>1
    <3> HIDE DEF f
    <3>2. IsFiniteSet(Astray(f)) /\ Cardinality(Astray(f)) <= Capacity + 1
      BY <3>1 DEF IInv, StrayInv
    <3>3. Strays(f) \subseteq Astray(f)
      BY <2>1 DEF Strays, Astray, PutInto
    <3>4. IsFiniteSet(Strays(f)) /\ Cardinality(Strays(f)) <= Cardinality(Astray(f))
      BY <3>2, <3>3, FS_Subset
    <3>5. Cardinality(Strays(f)) \in Nat /\ Cardinality(Astray(f)) \in Nat
      BY <3>2, <3>4, FS_CardinalityType
    <3>6. Cardinality(Strays(f)) <= Capacity + 1
      BY <2>1, <3>2, <3>4, <3>5
    <3>7. QED
      BY <3>6 DEF f
  <2>4. /\ \A j, k \in DOMAIN home : home[j] = home[k] => k - j < MAX_LINES
        /\ \A k \in DOMAIN home :
              k > 1 /\ home[k - 1] # home[k] /\ home[k - 1].day = home[k].day
                => k > MAX_LINES /\ home[k - MAX_LINES] = home[k - 1]
    BY <2>1 DEF IInv, HomeInv
  <2>5. QED
    BY <2>2, <2>3, <2>4
<1>2. QED
  BY <1>1, IInvHolds, PTL

-------------------------------------------------------------------------------
(* The log as its callers know it *)

\* Every step of the log is one of LineLog, or changes nothing that a caller sees.
LEMMA LineLogStep == IInv /\ [Next]_vars => [Log!Next]_Log!vars
<1> SUFFICES ASSUME IInv, [Next]_vars PROVE Log!Next \/ UNCHANGED Log!vars
  OBVIOUS
<1> USE DEF queueVars, fileVars, loggerVars, writerVars, takenVars, outVars
<1>1. /\ exiting # "no" => \A l \in Loggers : pc[l] = "idle"
      /\ exiting \in {"close", "notify", "join", "done"} => deq_ = <<>>
      /\ exiting = "done" => writer = "exited"
  BY DEF IInv, ExitInv
<1>2. lines \in Nat /\ MaxLines \in Nat /\ lines <= MaxLines /\ lines' \in 0..MaxLines
  <2>1. lines \in 0..MaxLines /\ lines' \in 0..MaxLines
    BY CountStep DEF IInv, TypeOK
  <2>2. QED
    BY <2>1, LogBoundsAssumption
<1>3. \A k \in 1..lines : k \in Log!Out <=> ~InHand(k)
  <2>1. DOMAIN written = 1..Len(written)
    BY DEF IInv, TypeOK
  <2>2. \A k : k \in Log!Out <=> IsWritten(k)
    BY <2>1 DEF Log!Out, IsWritten
  <2>3. QED
    BY <2>2 DEF IInv, OutInv
<1>4. ASSUME NEW l \in Loggers, write(l) PROVE Log!Next \/ UNCHANGED Log!vars
  <2>1. exiting = "no" /\ exiting' = exiting
    BY <1>1, <1>4 DEF write, WriteBegin, WriteTest, NameTest, NameDay, ResetCount, NamePart, OpenFile,
                      TakeUp, PutDirectly, Push, Flush
  <2>2. CASE TakeUp(l)
    <3>1. lines' = lines + 1 /\ UNCHANGED <<written, synced>>
      BY <2>2 DEF TakeUp, TakeNext
    <3>2. Log!Accept
      BY <1>2, <2>1, <3>1 DEF Log!Accept
    <3>3. QED
      BY <3>2 DEF Log!Next
  <2>3. CASE PutDirectly(l)
    <3>1. lines' = lines + 1 /\ written' = Append(written, lines + 1) /\ synced' = synced
      BY <2>3 DEF PutDirectly, TakeNext, Puts
    <3>2. Log!AcceptAndEmit
      BY <1>2, <2>1, <3>1 DEF Log!AcceptAndEmit
    <3>3. QED
      BY <3>2 DEF Log!Next
  <2>4. CASE UNCHANGED <<lines, written, synced>>
    BY <2>1, <2>4 DEF Log!vars
  <2>5. CASE UNCHANGED <<lines, written>> /\ Sync
    <3>1. Log!Save
      BY <1>1, <2>1, <2>5 DEF Log!Save, Sync
    <3>2. QED
      BY <3>1 DEF Log!Next
  <2>6. QED
    <3>1. \/ TakeUp(l) \/ PutDirectly(l) \/ UNCHANGED <<lines, written, synced>>
          \/ UNCHANGED <<lines, written>> /\ Sync
      BY <1>4, Zenon DEF write, WriteBegin, WriteTest, NameTest, NameDay, ResetCount, NamePart, OpenFile, Push, Flush
    <3>2. QED
      BY <2>2, <2>3, <2>4, <2>5, <3>1
<1>5. CASE PutLine
  <2>1. /\ writer = "put" /\ written' = Append(written, str) /\ exiting' = exiting
        /\ UNCHANGED <<lines, synced>>
    BY <1>5 DEF PutLine, Puts
  <2>2. str \in 1..lines /\ str \in 1..MaxLines /\ InHand(str)
    BY <1>2, <2>1 DEF InHand, IInv, QueueInv
  <2>3. str \in 1..lines \ Log!Out
    BY <1>3, <2>2
  <2>4. exiting # "done"
    BY <1>1, <2>1
  <2>5. Log!Emit(str)
    BY <2>1, <2>3, <2>4 DEF Log!Emit
  <2>6. QED
    BY <2>2, <2>5 DEF Log!Next
<1>6. CASE JoinAndClose
  <2>1. /\ exiting = "join" /\ exiting' = "done" /\ writer = "exited" /\ mtx_ = NoThread
        /\ UNCHANGED <<lines, written>> /\ synced' = Len(written)
    BY <1>6 DEF JoinAndClose, Sync
  <2>2. \A k : ~InHand(k)
    BY <1>1, <2>1 DEF InHand
  <2>3. 1..lines \subseteq Log!Out
    BY <1>3, <2>2
  <2>4. Log!Out \subseteq 1..lines
    BY DEF Log!Out, IInv, OutInv, TypeOK
  <2>5. Log!Close
    BY <2>1, <2>3, <2>4 DEF Log!Close
  <2>6. QED
    BY <2>5 DEF Log!Next
<1>7. CASE AsyncWrite_ /\ ~PutLine
  <2>1. UNCHANGED <<lines, written, synced, exiting>>
    BY <1>7 DEF AsyncWrite_, PopLine, PopWait, Wake, SpuriousWake, AfterWait
  <2>2. QED
    BY <2>1 DEF Log!vars
<1>8. CASE Destroy /\ ~JoinAndClose
  <2>1. UNCHANGED <<lines, written, synced>> /\ exiting # "done" /\ exiting' # "done"
    BY <1>8 DEF Destroy, ExitBegin, Drain, Close, CloseNotify
  <2>2. QED
    BY <2>1 DEF Log!vars
<1>9. CASE Midnight \/ UNCHANGED vars
  <2>1. UNCHANGED <<lines, written, synced, exiting>>
    BY <1>9 DEF Midnight, vars
  <2>2. QED
    BY <2>1 DEF Log!vars
<1>10. QED
  BY <1>4, <1>5, <1>6, <1>7, <1>8, <1>9 DEF Next

\* No line is lost or written twice, and the log is closed when all of them are written.
THEOREM IsLineLog == Spec => ImplementsLineLog
<1>1. Init => Log!Init
  BY DEF Init, Log!Init
<1>2. QED
  BY <1>1, LineLogStep, IInvHolds, PTL DEF Spec, ImplementsLineLog, Log!Spec

===============================================================================
