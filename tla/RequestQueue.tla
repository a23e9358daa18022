----------------------------- MODULE RequestQueue -----------------------------
(***************************************************************************)
(* What the thread pool (pool/threadpool.h) promises to the thread that    *)
(* calls append(): an accepted request waits in first-in first-out order,  *)
(* is taken by exactly one worker and is gone when it has been served.  No *)
(* lock, semaphore or program counter appears here; ThreadPool is shown to *)
(* implement it, and Reactor uses the pool through exactly these steps.    *)
(***************************************************************************)
EXTENDS Naturals, Sequences

CONSTANTS Workers,      \* the pool's threads
          Requests,     \* what append() can be given
          MaxRequests,  \* m_max_requests
          NoRequest     \* "this worker holds nothing"

VARIABLES pending,      \* accepted and not yet taken, oldest first
          inService     \* the request each worker is serving

vars == <<pending, inService>>

Init ==
    /\ pending = <<>>
    /\ inService = [w \in Workers |-> NoRequest]

\* A request is accepted while the queue holds at most MaxRequests others.  A
\* refused call changes nothing here.
Submit(r) ==
    /\ Len(pending) <= MaxRequests
    /\ pending' = Append(pending, r)
    /\ UNCHANGED inService

Take(w) ==
    /\ inService[w] = NoRequest
    /\ pending # <<>>
    /\ inService' = [inService EXCEPT ![w] = Head(pending)]
    /\ pending' = Tail(pending)

Finish(w) ==
    /\ inService[w] # NoRequest
    /\ inService' = [inService EXCEPT ![w] = NoRequest]
    /\ UNCHANGED pending

Next ==
    \/ \E r \in Requests : Submit(r)
    \/ \E w \in Workers : Take(w) \/ Finish(w)

Spec == Init /\ [][Next]_vars
===============================================================================
