------------------------------- MODULE ByteQueue -------------------------------
(***************************************************************************)
(* What Buffer promises: bytes come out in the order they went in, none    *)
(* lost and none made up, wherever they lie and however often they were    *)
(* moved.  Two prints are the exception: one that just fits loses its last *)
(* byte to the terminator, and after a longer one nothing is promised.     *)
(***************************************************************************)
EXTENDS Integers, SequencesExt

CONSTANTS Strings,  \* what can be put in at once
          NUL       \* the terminator of a print

VARIABLES content, intact

vars == <<content, intact>>

Init == content = <<>> /\ intact = TRUE

Put(s) == intact /\ content' = content \o s /\ UNCHANGED intact

\* A print into exactly as much room as it has characters: its terminator takes the place
\* of the last one.
PutCut(s) ==
    /\ intact /\ s # <<>>
    /\ content' = content \o Front(s) \o <<NUL>>
    /\ UNCHANGED intact

Take(n) == intact /\ content' = SubSeq(content, n + 1, Len(content)) /\ UNCHANGED intact

\* A print longer than its room.
Spill == intact /\ intact' = FALSE /\ content' = <<>>

Next ==
    \/ \E s \in Strings : Put(s) \/ PutCut(s)
    \/ \E n \in 0..Len(content) : Take(n)
    \/ Spill

Spec == Init /\ [][Next]_vars
===============================================================================
