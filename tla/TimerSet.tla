------------------------------- MODULE TimerSet -------------------------------
(***************************************************************************)
(* What main relies on when it uses sort_timer_srp (timer/srp_timer.h): a  *)
(* set of timers, each with a deadline, of which a tick fires and removes  *)
(* expired ones and nothing else.  What the heap does not promise is not   *)
(* promised here: a tick may stop although an expired timer is left, as    *)
(* long as some other timer is not due, and a removal that leaves timers   *)
(* behind may bring the process down.  TimerHeap is shown to implement     *)
(* this module, and Reactor uses the timers through these steps.           *)
(***************************************************************************)
EXTENDS Naturals, FiniteSets

CONSTANTS Timers,     \* the TimerNodes
          Capacity,   \* how many timers the array of the heap has room for
          Deadlines,  \* the deadlines a caller sets
          MaxClock    \* bound on the clock

VARIABLES timers,     \* the timers that are set
          expire,     \* their deadlines; 0 for a node that is not in use
          now,        \* time(NULL)
          ticking,    \* tick() is running
          broken      \* the process has made an undefined access to the heap

vars == <<timers, expire, now, ticking, broken>>

Init ==
    /\ timers = {}
    /\ expire = [t \in Timers |-> 0]
    /\ now = 0
    /\ ticking = FALSE
    /\ broken = FALSE

Expired(t) == expire[t] <= now

Add(t, deadline) ==
    /\ ~broken /\ ~ticking
    /\ t \notin timers
    /\ IF Cardinality(timers) < Capacity
          THEN /\ timers' = timers \union {t}
               /\ expire' = [expire EXCEPT ![t] = deadline]
               /\ UNCHANGED broken
          ELSE broken' = TRUE /\ UNCHANGED <<timers, expire>>
    /\ UNCHANGED <<now, ticking>>

Adjust(t, deadline) ==
    /\ ~broken /\ ~ticking
    /\ t \in timers
    /\ expire' = [expire EXCEPT ![t] = deadline]
    /\ UNCHANGED <<timers, now, ticking, broken>>

Remove(t) ==
    /\ timers' = timers \ {t}
    /\ expire' = [expire EXCEPT ![t] = 0]

Del(t) ==
    /\ ~broken /\ ~ticking
    /\ t \in timers
    /\ Remove(t)
    /\ broken' \in {FALSE, timers # {t}}
    /\ UNCHANGED <<now, ticking>>

BeginTick ==
    /\ ~broken /\ ~ticking
    /\ ticking' = TRUE
    /\ UNCHANGED <<timers, expire, now, broken>>

\* The callback of an expired timer runs and the timer is removed.
Fire(t) ==
    /\ ~broken /\ ticking
    /\ t \in timers /\ Expired(t)
    /\ Remove(t)
    /\ UNCHANGED <<now, ticking, broken>>

EndTick ==
    /\ ~broken /\ ticking
    /\ timers = {} \/ \E t \in timers : ~Expired(t)
    /\ ticking' = FALSE
    /\ UNCHANGED <<timers, expire, now, broken>>

\* tick() reads the clock once, so time stands still while it runs.
Clock ==
    /\ ~broken /\ ~ticking
    /\ now < MaxClock
    /\ now' = now + 1
    /\ UNCHANGED <<timers, expire, ticking, broken>>

Next ==
    \/ \E t \in Timers :
         \/ \E deadline \in Deadlines : Add(t, deadline) \/ Adjust(t, deadline)
         \/ Del(t)
         \/ Fire(t)
    \/ BeginTick
    \/ EndTick
    \/ Clock

Spec == Init /\ [][Next]_vars
===============================================================================
