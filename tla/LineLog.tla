-------------------------------- MODULE LineLog --------------------------------
(***************************************************************************)
(* What a caller of Log relies on (log/log.h): every line it has written   *)
(* is put out once, and the log is closed only when all of them have been  *)
(* and are in the files.  AsyncLog is shown to implement this.             *)
(***************************************************************************)
EXTENDS Naturals, Sequences

CONSTANT MaxLines     \* bound on the number of lines

VARIABLES lines,      \* how many lines were handed to write(); a line is its number
          written,    \* the lines put into streams, in the order they were put there
          saved,      \* how many of them are in the files for certain
          closed      \* ~Log() has closed the file

vars == <<lines, written, saved, closed>>

Out == {written[i] : i \in DOMAIN written}

Init ==
    /\ lines = 0
    /\ written = <<>>
    /\ saved = 0
    /\ closed = FALSE

Accept ==
    /\ ~closed
    /\ lines < MaxLines
    /\ lines' = lines + 1
    /\ UNCHANGED <<written, saved, closed>>

Emit(l) ==
    /\ ~closed
    /\ l \in 1..lines \ Out
    /\ written' = Append(written, l)
    /\ UNCHANGED <<lines, saved, closed>>

\* A line that finds the queue full is put out in the same step.
AcceptAndEmit ==
    /\ ~closed
    /\ lines < MaxLines
    /\ lines' = lines + 1
    /\ written' = Append(written, lines + 1)
    /\ UNCHANGED <<saved, closed>>

Save ==
    /\ ~closed
    /\ saved' = Len(written)
    /\ UNCHANGED <<lines, written, closed>>

Close ==
    /\ ~closed
    /\ Out = 1..lines
    /\ saved' = Len(written)
    /\ closed' = TRUE
    /\ UNCHANGED <<lines, written>>

Next ==
    \/ Accept
    \/ AcceptAndEmit
    \/ \E l \in 1..MaxLines : Emit(l)
    \/ Save
    \/ Close

Spec == Init /\ [][Next]_vars
===============================================================================
