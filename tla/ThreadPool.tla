------------------------------ MODULE ThreadPool ------------------------------
(***************************************************************************)
(* ThreadPool<HttpConn> of pool/threadpool.h over the wrappers Locker and  *)
(* Sem of pool/locker.h: one thread (main) appends requests, the detached  *)
(* workers run ThreadPool::run().  A step is a maximal piece of code       *)
(* between two points where another thread can be seen: a lock, a          *)
(* semaphore operation, an unlock.                                         *)
(*                                                                         *)
(* A request stands for one call of append(): main appends the address of  *)
(* an HttpConn, and the same address comes back on a later call, so calls  *)
(* are numbered to tell them apart.  main never appends a null pointer     *)
(* (main.cpp:278), so the test of run() for one (threadpool.h:190) never   *)
(* holds and is left out.                                                  *)
(***************************************************************************)
EXTENDS Integers, Sequences, FiniteSets

CONSTANTS Workers,      \* the m_thread_number worker threads
          Main,         \* the one thread that calls append() and the destructor
          MaxRequests,  \* m_max_requests
          MaxAppends,   \* bound on the number of calls of append()
          NoThread      \* "the mutex is free"

ASSUME WorkersAssumption ==
    /\ IsFiniteSet(Workers) /\ Workers # {}
    /\ Main \notin Workers
    /\ NoThread \notin Workers \union {Main}
ASSUME BoundsAssumption == MaxRequests \in Nat \ {0} /\ MaxAppends \in Nat

Threads == Workers \union {Main}
Requests == 1..MaxAppends
NoRequest == 0

VARIABLES m_workQueue,   \* std::list<T*>, front first
          m_queueLocker, \* holder of the mutex, or NoThread
          m_queuestat,   \* value of the semaphore
          m_stop,
          pc,            \* where each thread is
          request,       \* each thread's local request / parameter of append()
          calls,         \* number of calls of append() so far
          served         \* history: the requests whose process() has returned

vars == <<m_workQueue, m_queueLocker, m_queuestat, m_stop, pc, request, calls, served>>

Init ==
    /\ m_workQueue = <<>>
    /\ m_queueLocker = NoThread
    /\ m_queuestat = 0
    /\ m_stop = FALSE
    /\ pc = [t \in Threads |-> IF t = Main THEN "idle" ELSE "loop"]
    /\ request = [t \in Threads |-> NoRequest]
    /\ calls = 0
    /\ served = {}

Goto(t, from, to) == pc[t] = from /\ pc' = [pc EXCEPT ![t] = to]

Lock(t) == m_queueLocker = NoThread /\ m_queueLocker' = t
Unlock == m_queueLocker' = NoThread

-------------------------------------------------------------------------------
(* append(), called by main *)

\* append() is called and takes the lock.
AppendLock ==
    /\ Goto(Main, "idle", "append")
    /\ calls < MaxAppends
    /\ Lock(Main)
    /\ calls' = calls + 1
    /\ request' = [request EXCEPT ![Main] = calls + 1]
    /\ UNCHANGED <<m_workQueue, m_queuestat, m_stop, served>>

\* More than m_max_requests are waiting: unlock and return false.
AppendRefused ==
    /\ Goto(Main, "append", "idle")
    /\ Len(m_workQueue) > MaxRequests
    /\ Unlock
    /\ UNCHANGED <<m_workQueue, m_queuestat, m_stop, request, calls, served>>

\* push_back() and unlock; the semaphore is posted after the unlock.  The list may become
\* one longer than m_max_requests, which threadpool.h:43 calls the most that may wait.
AppendPush ==
    /\ Goto(Main, "append", "post")
    /\ Len(m_workQueue) <= MaxRequests
    /\ m_workQueue' = Append(m_workQueue, request[Main])
    /\ Unlock
    /\ UNCHANGED <<m_queuestat, m_stop, request, calls, served>>

\* Slip: post() is forgotten.
AppendPostForgotten ==
    /\ Goto(Main, "post", "idle")
    /\ UNCHANGED <<m_workQueue, m_queueLocker, m_queuestat, m_stop, request, calls, served>>

AppendPost ==
    /\ Goto(Main, "post", "idle")
    /\ m_queuestat' = m_queuestat + 1
    /\ UNCHANGED <<m_workQueue, m_queueLocker, m_stop, request, calls, served>>

\* ~ThreadPool(): the flag is set and nothing is posted.
Destroy ==
    /\ Goto(Main, "idle", "done")
    /\ m_stop' = TRUE
    /\ UNCHANGED <<m_workQueue, m_queueLocker, m_queuestat, request, calls, served>>

-------------------------------------------------------------------------------
(* run(), by every worker *)

\* while(!m_stop)
LoopTest(w) ==
    /\ Goto(w, "loop", IF m_stop THEN "exited" ELSE "wait")
    /\ UNCHANGED <<m_workQueue, m_queueLocker, m_queuestat, m_stop, request, calls, served>>

\* Slip: the semaphore is decremented without waiting for it to be positive.
WaitSemUnguarded(w) ==
    /\ Goto(w, "wait", "lock")
    /\ m_queuestat' = m_queuestat - 1
    /\ UNCHANGED <<m_workQueue, m_queueLocker, m_stop, request, calls, served>>

\* sem_wait() takes a unit of the semaphore.
WaitSem(w) ==
    /\ Goto(w, "wait", "lock")
    /\ m_queuestat > 0
    /\ m_queuestat' = m_queuestat - 1
    /\ UNCHANGED <<m_workQueue, m_queueLocker, m_stop, request, calls, served>>

\* sem_wait() fails with EINTR when SIGALRM or SIGTERM is handled on this thread
\* (main.cpp:25-31 installs the handlers without SA_RESTART and no thread masks
\* them).  Sem::wait() returns false, run() ignores it and goes on.
WaitInterrupted(w) ==
    /\ Goto(w, "wait", "lock")
    /\ UNCHANGED <<m_workQueue, m_queueLocker, m_queuestat, m_stop, request, calls, served>>

TakeLock(w) ==
    /\ Goto(w, "lock", "front")
    /\ Lock(w)
    /\ UNCHANGED <<m_workQueue, m_queuestat, m_stop, request, calls, served>>

\* The queue is empty: unlock and continue.
FindEmpty(w) ==
    /\ Goto(w, "front", "loop")
    /\ m_workQueue = <<>>
    /\ Unlock
    /\ UNCHANGED <<m_workQueue, m_queuestat, m_stop, request, calls, served>>

\* request = m_workQueue.front()
ReadFront(w) ==
    /\ Goto(w, "front", "pop")
    /\ m_workQueue # <<>>
    /\ request' = [request EXCEPT ![w] = Head(m_workQueue)]
    /\ UNCHANGED <<m_workQueue, m_queueLocker, m_queuestat, m_stop, calls, served>>

\* Slip: pop_back() for pop_front().
PopBack(w) ==
    /\ Goto(w, "pop", "process")
    /\ m_workQueue' = SubSeq(m_workQueue, 1, Len(m_workQueue) - 1)
    /\ Unlock
    /\ UNCHANGED <<m_queuestat, m_stop, request, calls, served>>

\* Slip: front() is taken for a call that also removes the element.
PopForgotten(w) ==
    /\ Goto(w, "pop", "process")
    /\ Unlock
    /\ UNCHANGED <<m_workQueue, m_queuestat, m_stop, request, calls, served>>

\* m_workQueue.pop_front() and unlock
PopFront(w) ==
    /\ Goto(w, "pop", "process")
    /\ m_workQueue' = Tail(m_workQueue)
    /\ Unlock
    /\ UNCHANGED <<m_queuestat, m_stop, request, calls, served>>

\* request->process() returns.
Process(w) ==
    /\ Goto(w, "process", "loop")
    /\ served' = served \union {request[w]}
    /\ request' = [request EXCEPT ![w] = NoRequest]
    /\ UNCHANGED <<m_workQueue, m_queueLocker, m_queuestat, m_stop, calls>>

-------------------------------------------------------------------------------
append == AppendLock \/ AppendRefused \/ AppendPush \/ AppendPost

run(w) ==
    \/ LoopTest(w) \/ WaitSem(w) \/ WaitInterrupted(w) \/ TakeLock(w)
    \/ FindEmpty(w) \/ ReadFront(w) \/ PopFront(w) \/ Process(w)

Next ==
    \/ append
    \/ Destroy
    \/ \E w \in Workers : run(w)

Spec == Init /\ [][Next]_vars

\* The operating system runs every runnable thread (weak fairness), process()
\* returns, and a thread that keeps asking for a mutex that keeps being released
\* gets it (strong fairness).  Nothing makes main call append() or the destructor,
\* and nothing makes signals arrive.
Fairness ==
    /\ WF_vars(AppendRefused \/ AppendPush \/ AppendPost)
    /\ \A w \in Workers :
         /\ WF_vars(LoopTest(w) \/ FindEmpty(w) \/ ReadFront(w) \/ PopFront(w) \/ Process(w))
         /\ WF_vars(WaitSem(w))
         /\ SF_vars(TakeLock(w))

FairSpec == Spec /\ Fairness

-------------------------------------------------------------------------------
(* Properties *)

\* Every variable of the pool keeps its type; in particular sem_wait() never takes
\* the semaphore (pool/locker.h:130) below zero.
TypeOK ==
    /\ m_workQueue \in Seq(Requests)
    /\ m_queueLocker \in Threads \union {NoThread}
    /\ m_queuestat \in Nat
    /\ m_stop \in BOOLEAN
    /\ pc \in [Threads -> {"idle", "append", "post", "done", "loop", "wait", "lock",
                           "front", "pop", "process", "exited"}]
    /\ request \in [Threads -> Requests \union {NoRequest}]
    /\ calls \in 0..MaxAppends
    /\ served \subseteq Requests

\* Workers that are past the semaphore and have not yet looked at the queue.
Awake == {w \in Workers : pc[w] \in {"lock", "front", "pop"}}
Posting == IF pc[Main] = "post" THEN 1 ELSE 0

\* No wake-up is lost: for every request in the list there is a unit of the
\* semaphore, a worker on its way to the list, or a post() that append() still has
\* to make -- although append() posts after it has unlocked, and although run()
\* takes a request without having taken a unit when sem_wait() was interrupted.
NoLostWakeup ==
    Len(m_workQueue) <= m_queuestat + Cardinality(Awake) + Posting

\* The requests each worker has in hand: read from the list, or popped.
Holding(w) == pc[w] = "process"

\* One request is never worked on twice: what is queued, what a worker processes and
\* what has been served are different calls of append(), for every two workers.
NoDoubleService ==
    /\ \A i, j \in 1..Len(m_workQueue) : i # j => m_workQueue[i] # m_workQueue[j]
    /\ \A i \in 1..Len(m_workQueue) : m_workQueue[i] \notin served
    /\ \A w \in Workers : Holding(w) =>
         /\ request[w] \notin served
         /\ \A i \in 1..Len(m_workQueue) : m_workQueue[i] # request[w]
         /\ \A v \in Workers \ {w} : Holding(v) => request[v] # request[w]

\* A request in the list is served in the end unless the pool is destroyed first.
ServedUnlessStopped ==
    \A r \in Requests :
        (\E i \in 1..Len(m_workQueue) : m_workQueue[i] = r) ~> (r \in served \/ m_stop)

\* The pool implements the abstract queue: append() is Submit, pop_front() is Take,
\* the return of process() is Finish, and every other step is invisible.
Queue == INSTANCE RequestQueue
    WITH pending <- m_workQueue,
         inService <- [w \in Workers |-> IF Holding(w) THEN request[w] ELSE NoRequest]

ImplementsQueue == Queue!Spec
===============================================================================
