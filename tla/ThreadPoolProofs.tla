--------------------------- MODULE ThreadPoolProofs ---------------------------
(***************************************************************************)
(* Proofs about ThreadPool, for any finite set of workers, any             *)
(* m_max_requests and any number of calls of append().                     *)
(*                                                                         *)
(* The inductive invariant adds to the checked invariants who may be where *)
(* (PcInv), that the mutex is held by the thread inside its critical       *)
(* section (LockInv), that the front a worker has read is still the front  *)
(* when it pops (FrontInv) and that calls enter the list in increasing     *)
(* order (OrderInv).                                                       *)
(***************************************************************************)
EXTENDS ThreadPool, FiniteSetTheorems, TLAPS

PcInv ==
    /\ pc[Main] \in {"idle", "append", "post", "done"}
    /\ \A w \in Workers : pc[w] \in {"loop", "wait", "lock", "front", "pop", "process", "exited"}

LockInv == \A t \in Threads :
    pc[t] \in {"append", "front", "pop"} => m_queueLocker = t

FrontInv == \A w \in Workers :
    pc[w] = "pop" => m_workQueue # <<>> /\ request[w] = Head(m_workQueue)

\* What is in the list, in hand or served was appended by an earlier call.
Known(r) == r <= calls /\ (pc[Main] = "append" => r < request[Main])

OrderInv ==
    /\ pc[Main] = "append" => request[Main] = calls /\ calls > 0
    /\ \A i, j \in 1..Len(m_workQueue) : i < j => m_workQueue[i] < m_workQueue[j]
    /\ \A i \in 1..Len(m_workQueue) : Known(m_workQueue[i])
    /\ \A w \in Workers : Holding(w) => request[w] \in Requests /\ Known(request[w])
    /\ \A r \in served : Known(r)

IInv == TypeOK /\ PcInv /\ LockInv /\ FrontInv /\ OrderInv /\ NoDoubleService

-------------------------------------------------------------------------------
\* A worker is never main and no thread is NoThread.
LEMMA ThreadsDistinct ==
    /\ Main \in Threads
    /\ \A w \in Workers : w \in Threads /\ w # Main
    /\ \A t \in Threads : t # NoThread
BY WorkersAssumption DEF Threads

\* The initial state satisfies the inductive invariant.
LEMMA InitIInv == Init => IInv
<1> SUFFICES ASSUME Init PROVE IInv
  OBVIOUS
<1> USE ThreadsDistinct, BoundsAssumption DEF Init, NoRequest
<1>1. TypeOK
  <2>1. m_workQueue \in Seq(Requests) /\ served \subseteq Requests
    OBVIOUS
  <2>2. pc \in [Threads -> {"idle", "append", "post", "done", "loop", "wait", "lock",
                           "front", "pop", "process", "exited"}]
    OBVIOUS
  <2>3. request \in [Threads -> Requests \union {NoRequest}] /\ calls \in 0..MaxAppends
    OBVIOUS
  <2>4. QED
    BY <2>1, <2>2, <2>3 DEF TypeOK
<1>2. PcInv
  BY DEF PcInv, Threads
<1>3. LockInv
  BY DEF LockInv, Threads
<1>4. FrontInv
  BY DEF FrontInv, Threads
<1>5. OrderInv
  BY DEF OrderInv, Holding
<1>6. NoDoubleService
  BY DEF NoDoubleService, Holding
<1>7. QED
  BY <1>1, <1>2, <1>3, <1>4, <1>5, <1>6 DEF IInv

\* What is left of a list when its front is popped.
LEMMA TailElements ==
    ASSUME NEW s \in Seq(Requests), s # <<>>
    PROVE  /\ Tail(s) \in Seq(Requests)
           /\ Len(Tail(s)) = Len(s) - 1
           /\ Head(s) = s[1] /\ 1 \in 1..Len(s)
           /\ \A i \in 1..Len(Tail(s)) : i + 1 \in 1..Len(s) /\ Tail(s)[i] = s[i + 1]
OBVIOUS

\* Every step keeps the types.
LEMMA TypeOKStep == IInv /\ [Next]_vars => TypeOK'
<1> SUFFICES ASSUME IInv, [Next]_vars PROVE TypeOK'
  OBVIOUS
<1> USE ThreadsDistinct, BoundsAssumption DEF IInv, TypeOK, PcInv, Goto, Lock, Unlock
<1>1. CASE AppendLock
  BY <1>1 DEF AppendLock, Requests
<1>2. CASE AppendRefused
  BY <1>2 DEF AppendRefused
<1>3. CASE AppendPush
  <2>1. request[Main] \in Requests
    BY <1>3 DEF AppendPush, OrderInv, Requests, NoRequest
  <2>2. m_workQueue' \in Seq(Requests)
    BY <1>3, <2>1 DEF AppendPush
  <2>3. QED
    BY <1>3, <2>2 DEF AppendPush
<1>4. CASE AppendPost
  BY <1>4 DEF AppendPost
<1>5. CASE Destroy
  BY <1>5 DEF Destroy
<1>6. ASSUME NEW w \in Workers, LoopTest(w) PROVE TypeOK'
  BY <1>6 DEF LoopTest
<1>7. ASSUME NEW w \in Workers, WaitSem(w) PROVE TypeOK'
  BY <1>7 DEF WaitSem
<1>8. ASSUME NEW w \in Workers, WaitInterrupted(w) PROVE TypeOK'
  BY <1>8 DEF WaitInterrupted
<1>9. ASSUME NEW w \in Workers, TakeLock(w) PROVE TypeOK'
  BY <1>9 DEF TakeLock
<1>10. ASSUME NEW w \in Workers, FindEmpty(w) PROVE TypeOK'
  BY <1>10 DEF FindEmpty
<1>11. ASSUME NEW w \in Workers, ReadFront(w) PROVE TypeOK'
  BY <1>11 DEF ReadFront
<1>12. ASSUME NEW w \in Workers, PopFront(w) PROVE TypeOK'
  <2>1. m_workQueue' \in Seq(Requests)
    BY <1>12 DEF PopFront, FrontInv
  <2>2. QED
    BY <1>12, <2>1 DEF PopFront
<1>13. ASSUME NEW w \in Workers, Process(w) PROVE TypeOK'
  <2>1. request[w] \in Requests
    BY <1>13 DEF Process, OrderInv, Holding
  <2>2. QED
    BY <1>13, <2>1 DEF Process
<1>14. CASE UNCHANGED vars
  BY <1>14 DEF vars
<1>15. QED
  BY <1>1, <1>2, <1>3, <1>4, <1>5, <1>6, <1>7, <1>8, <1>9, <1>10, <1>11, <1>12, <1>13, <1>14 DEF Next, append, run

\* Every thread stays in its own function.
LEMMA PcInvStep == IInv /\ [Next]_vars => PcInv'
<1> SUFFICES ASSUME IInv, [Next]_vars PROVE PcInv'
  OBVIOUS
<1> USE ThreadsDistinct, BoundsAssumption DEF IInv, TypeOK, PcInv, Goto
<1>1. CASE AppendLock
  BY <1>1 DEF AppendLock
<1>2. CASE AppendRefused
  BY <1>2 DEF AppendRefused
<1>3. CASE AppendPush
  BY <1>3 DEF AppendPush
<1>4. CASE AppendPost
  BY <1>4 DEF AppendPost
<1>5. CASE Destroy
  BY <1>5 DEF Destroy
<1>6. ASSUME NEW w \in Workers, LoopTest(w) PROVE PcInv'
  BY <1>6 DEF LoopTest
<1>7. ASSUME NEW w \in Workers, WaitSem(w) PROVE PcInv'
  BY <1>7 DEF WaitSem
<1>8. ASSUME NEW w \in Workers, WaitInterrupted(w) PROVE PcInv'
  BY <1>8 DEF WaitInterrupted
<1>9. ASSUME NEW w \in Workers, TakeLock(w) PROVE PcInv'
  BY <1>9 DEF TakeLock
<1>10. ASSUME NEW w \in Workers, FindEmpty(w) PROVE PcInv'
  BY <1>10 DEF FindEmpty
<1>11. ASSUME NEW w \in Workers, ReadFront(w) PROVE PcInv'
  BY <1>11 DEF ReadFront
<1>12. ASSUME NEW w \in Workers, PopFront(w) PROVE PcInv'
  BY <1>12 DEF PopFront
<1>13. ASSUME NEW w \in Workers, Process(w) PROVE PcInv'
  BY <1>13 DEF Process
<1>14. CASE UNCHANGED vars
  BY <1>14 DEF vars
<1>15. QED
  BY <1>1, <1>2, <1>3, <1>4, <1>5, <1>6, <1>7, <1>8, <1>9, <1>10, <1>11, <1>12, <1>13, <1>14 DEF Next, append, run

\* The mutex is held by the one thread inside a critical section.
LEMMA LockInvStep == IInv /\ [Next]_vars => LockInv'
<1> SUFFICES ASSUME IInv, [Next]_vars PROVE LockInv'
  OBVIOUS
<1> USE ThreadsDistinct, BoundsAssumption DEF IInv, TypeOK, PcInv, LockInv, Goto, Lock, Unlock
<1>1. CASE AppendLock
  BY <1>1 DEF AppendLock
<1>2. CASE AppendRefused
  BY <1>2 DEF AppendRefused
<1>3. CASE AppendPush
  BY <1>3 DEF AppendPush
<1>4. CASE AppendPost
  BY <1>4 DEF AppendPost
<1>5. CASE Destroy
  BY <1>5 DEF Destroy
<1>6. ASSUME NEW w \in Workers, LoopTest(w) PROVE LockInv'
  BY <1>6 DEF LoopTest
<1>7. ASSUME NEW w \in Workers, WaitSem(w) PROVE LockInv'
  BY <1>7 DEF WaitSem
<1>8. ASSUME NEW w \in Workers, WaitInterrupted(w) PROVE LockInv'
  BY <1>8 DEF WaitInterrupted
<1>9. ASSUME NEW w \in Workers, TakeLock(w) PROVE LockInv'
  BY <1>9 DEF TakeLock
<1>10. ASSUME NEW w \in Workers, FindEmpty(w) PROVE LockInv'
  BY <1>10 DEF FindEmpty
<1>11. ASSUME NEW w \in Workers, ReadFront(w) PROVE LockInv'
  BY <1>11 DEF ReadFront
<1>12. ASSUME NEW w \in Workers, PopFront(w) PROVE LockInv'
  BY <1>12 DEF PopFront
<1>13. ASSUME NEW w \in Workers, Process(w) PROVE LockInv'
  BY <1>13 DEF Process
<1>14. CASE UNCHANGED vars
  BY <1>14 DEF vars
<1>15. QED
  BY <1>1, <1>2, <1>3, <1>4, <1>5, <1>6, <1>7, <1>8, <1>9, <1>10, <1>11, <1>12, <1>13, <1>14 DEF Next, append, run

\* The front that a worker has read stays the front until it pops it.
LEMMA FrontInvStep == IInv /\ [Next]_vars => FrontInv'
<1> SUFFICES ASSUME IInv, [Next]_vars PROVE FrontInv'
  OBVIOUS
<1> USE ThreadsDistinct, BoundsAssumption DEF IInv, TypeOK, PcInv, LockInv, FrontInv, Goto, Lock, Unlock
<1>1. CASE AppendLock
  BY <1>1 DEF AppendLock
<1>2. CASE AppendRefused
  BY <1>2 DEF AppendRefused
<1>3. CASE AppendPush
  BY <1>3 DEF AppendPush
<1>4. CASE AppendPost
  BY <1>4 DEF AppendPost
<1>5. CASE Destroy
  BY <1>5 DEF Destroy
<1>6. ASSUME NEW w \in Workers, LoopTest(w) PROVE FrontInv'
  BY <1>6 DEF LoopTest
<1>7. ASSUME NEW w \in Workers, WaitSem(w) PROVE FrontInv'
  BY <1>7 DEF WaitSem
<1>8. ASSUME NEW w \in Workers, WaitInterrupted(w) PROVE FrontInv'
  BY <1>8 DEF WaitInterrupted
<1>9. ASSUME NEW w \in Workers, TakeLock(w) PROVE FrontInv'
  BY <1>9 DEF TakeLock
<1>10. ASSUME NEW w \in Workers, FindEmpty(w) PROVE FrontInv'
  BY <1>10 DEF FindEmpty
<1>11. ASSUME NEW w \in Workers, ReadFront(w) PROVE FrontInv'
  BY <1>11 DEF ReadFront
<1>12. ASSUME NEW w \in Workers, PopFront(w) PROVE FrontInv'
  BY <1>12 DEF PopFront
<1>13. ASSUME NEW w \in Workers, Process(w) PROVE FrontInv'
  BY <1>13 DEF Process
<1>14. CASE UNCHANGED vars
  BY <1>14 DEF vars
<1>15. QED
  BY <1>1, <1>2, <1>3, <1>4, <1>5, <1>6, <1>7, <1>8, <1>9, <1>10, <1>11, <1>12, <1>13, <1>14 DEF Next, append, run

\* The list stays in the order of the calls.
LEMMA OrderInvStep == IInv /\ [Next]_vars => OrderInv'
<1> SUFFICES ASSUME IInv, [Next]_vars PROVE OrderInv'
  OBVIOUS
<1> USE ThreadsDistinct, BoundsAssumption DEF IInv, TypeOK, PcInv, LockInv, FrontInv, OrderInv, Known, Holding, Goto, Lock, Unlock, Requests, NoRequest, Threads
<1>1. CASE AppendLock
  BY <1>1 DEF AppendLock
<1>2. CASE AppendRefused
  BY <1>2 DEF AppendRefused
<1>3. CASE AppendPush
  BY <1>3, SMTT(30) DEF AppendPush
<1>4. CASE AppendPost
  BY <1>4 DEF AppendPost
<1>5. CASE Destroy
  BY <1>5 DEF Destroy
<1>6. ASSUME NEW w \in Workers, LoopTest(w) PROVE OrderInv'
  BY <1>6 DEF LoopTest
<1>7. ASSUME NEW w \in Workers, WaitSem(w) PROVE OrderInv'
  BY <1>7 DEF WaitSem
<1>8. ASSUME NEW w \in Workers, WaitInterrupted(w) PROVE OrderInv'
  BY <1>8 DEF WaitInterrupted
<1>9. ASSUME NEW w \in Workers, TakeLock(w) PROVE OrderInv'
  BY <1>9 DEF TakeLock
<1>10. ASSUME NEW w \in Workers, FindEmpty(w) PROVE OrderInv'
  BY <1>10 DEF FindEmpty
<1>11. ASSUME NEW w \in Workers, ReadFront(w) PROVE OrderInv'
  BY <1>11 DEF ReadFront
<1>12. ASSUME NEW w \in Workers, PopFront(w) PROVE OrderInv'
  <2>1. /\ Len(m_workQueue') = Len(m_workQueue) - 1
        /\ \A i \in 1..Len(m_workQueue') : i + 1 \in 1..Len(m_workQueue)
                                      /\ m_workQueue'[i] = m_workQueue[i + 1]
    BY <1>12, TailElements DEF PopFront
  <2>2. request[w] = m_workQueue[1] /\ 1 \in 1..Len(m_workQueue)
    BY <1>12 DEF PopFront
  <2>3. UNCHANGED <<request, calls, served>> /\ pc'[Main] = pc[Main]
    BY <1>12 DEF PopFront
  <2>4. \A v \in Workers : Holding(v)' => v = w \/ Holding(v)
    BY <1>12 DEF PopFront
  <2>5. ASSUME NEW i \in 1..Len(m_workQueue'), NEW j \in 1..Len(m_workQueue'), i < j
        PROVE  m_workQueue'[i] < m_workQueue'[j]
    <3>1. i \in Int /\ j \in Int /\ i + 1 < j + 1
      BY <2>5
    <3>2. m_workQueue[i + 1] < m_workQueue[j + 1]
      BY <2>1, <3>1
    <3>3. QED
      BY <2>1, <3>2
  <2>6. \A i \in 1..Len(m_workQueue') : Known(m_workQueue[i])'
    BY <2>1, <2>3
  <2>7. \A v \in Workers : Holding(v)' => request[v] \in Requests /\ Known(request[v])
    BY <2>2, <2>4
  <2>8. QED
    BY <2>3, <2>5, <2>6, <2>7
<1>13. ASSUME NEW w \in Workers, Process(w) PROVE OrderInv'
  BY <1>13 DEF Process
<1>14. CASE UNCHANGED vars
  BY <1>14 DEF vars
<1>15. QED
  BY <1>1, <1>2, <1>3, <1>4, <1>5, <1>6, <1>7, <1>8, <1>9, <1>10, <1>11, <1>12, <1>13, <1>14 DEF Next, append, run

\* No step makes two workers hold one request, or queues a request again.
LEMMA NoDoubleServiceStep == IInv /\ [Next]_vars => NoDoubleService'
<1> SUFFICES ASSUME IInv, [Next]_vars PROVE NoDoubleService'
  OBVIOUS
<1> USE ThreadsDistinct, BoundsAssumption DEF IInv, TypeOK, PcInv, LockInv, FrontInv, OrderInv, Known, NoDoubleService, Holding, Goto, Lock, Unlock, Requests, NoRequest, Threads
<1>1. CASE AppendLock
  BY <1>1 DEF AppendLock
<1>2. CASE AppendRefused
  BY <1>2 DEF AppendRefused
<1>3. CASE AppendPush
  BY <1>3 DEF AppendPush
<1>4. CASE AppendPost
  BY <1>4 DEF AppendPost
<1>5. CASE Destroy
  BY <1>5 DEF Destroy
<1>6. ASSUME NEW w \in Workers, LoopTest(w) PROVE NoDoubleService'
  BY <1>6 DEF LoopTest
<1>7. ASSUME NEW w \in Workers, WaitSem(w) PROVE NoDoubleService'
  BY <1>7 DEF WaitSem
<1>8. ASSUME NEW w \in Workers, WaitInterrupted(w) PROVE NoDoubleService'
  BY <1>8 DEF WaitInterrupted
<1>9. ASSUME NEW w \in Workers, TakeLock(w) PROVE NoDoubleService'
  BY <1>9 DEF TakeLock
<1>10. ASSUME NEW w \in Workers, FindEmpty(w) PROVE NoDoubleService'
  BY <1>10 DEF FindEmpty
<1>11. ASSUME NEW w \in Workers, ReadFront(w) PROVE NoDoubleService'
  BY <1>11 DEF ReadFront
<1>12. ASSUME NEW w \in Workers, PopFront(w) PROVE NoDoubleService'
  <2>1. /\ Len(m_workQueue') = Len(m_workQueue) - 1
        /\ \A i \in 1..Len(m_workQueue') : i + 1 \in 1..Len(m_workQueue)
                                      /\ m_workQueue'[i] = m_workQueue[i + 1]
    BY <1>12, TailElements DEF PopFront
  <2>2. request[w] = m_workQueue[1] /\ 1 \in 1..Len(m_workQueue)
    BY <1>12, TailElements DEF PopFront
  <2>3. UNCHANGED <<request, served>>
    BY <1>12 DEF PopFront
  <2>4. \A v \in Workers : Holding(v)' => v = w \/ Holding(v)
    BY <1>12 DEF PopFront
  <2>5. \A i \in 1..Len(m_workQueue') : i \in Nat \ {0} /\ i + 1 # 1
    OBVIOUS
  <2>6. ASSUME NEW i \in 1..Len(m_workQueue'), NEW j \in 1..Len(m_workQueue'), i # j
        PROVE  m_workQueue'[i] # m_workQueue'[j]
    <3>1. i + 1 # j + 1 /\ i + 1 \in 1..Len(m_workQueue) /\ j + 1 \in 1..Len(m_workQueue)
      BY <2>1, <2>5, <2>6
    <3>2. m_workQueue[i + 1] # m_workQueue[j + 1]
      BY <3>1
    <3>3. QED
      BY <2>1, <3>2
  <2>7. ASSUME NEW i \in 1..Len(m_workQueue')
        PROVE  m_workQueue'[i] \notin served /\ m_workQueue'[i] # request[w]
    <3>1. m_workQueue[i + 1] # m_workQueue[1]
      BY <2>1, <2>2, <2>5
    <3>2. QED
      BY <2>1, <2>2, <3>1
  <2>8. \A v \in Workers : Holding(v)' =>
          /\ request[v] \notin served
          /\ \A i \in 1..Len(m_workQueue') : m_workQueue'[i] # request[v]
    <3>1. ASSUME NEW v \in Workers, Holding(v)
          PROVE  /\ request[v] \notin served
                 /\ \A i \in 1..Len(m_workQueue') : m_workQueue'[i] # request[v]
      BY <2>1, <3>1, SMTT(30)
    <3>2. /\ request[w] \notin served
          /\ \A i \in 1..Len(m_workQueue') : m_workQueue'[i] # request[w]
      BY <2>2, <2>7
    <3>3. QED
      BY <2>4, <3>1, <3>2
  <2>9. \A v, u \in Workers : v # u /\ Holding(v)' /\ Holding(u)' => request[v] # request[u]
    BY <2>2, <2>4
  <2>10. QED
    BY <2>3, <2>6, <2>7, <2>8, <2>9
<1>13. ASSUME NEW w \in Workers, Process(w) PROVE NoDoubleService'
  BY <1>13 DEF Process
<1>14. CASE UNCHANGED vars
  BY <1>14 DEF vars
<1>15. QED
  BY <1>1, <1>2, <1>3, <1>4, <1>5, <1>6, <1>7, <1>8, <1>9, <1>10, <1>11, <1>12, <1>13, <1>14 DEF Next, append, run

\* The inductive invariant holds in every reachable state.
THEOREM IInvHolds == Spec => []IInv
<1>1. IInv /\ [Next]_vars => IInv'
  BY TypeOKStep, PcInvStep, LockInvStep, FrontInvStep, OrderInvStep, NoDoubleServiceStep
  DEF IInv
<1>2. QED
  BY <1>1, InitIInv, PTL DEF Spec

\* Every variable keeps its type; sem_wait() never takes the semaphore below zero.
THEOREM TypeCorrect == Spec => []TypeOK
<1>1. IInv => TypeOK
  BY DEF IInv
<1>2. QED
  BY <1>1, IInvHolds, PTL

\* No call of append() is ever worked on twice, by one worker or by two.
THEOREM ServedOnce == Spec => []NoDoubleService
<1>1. IInv => NoDoubleService
  BY DEF IInv
<1>2. QED
  BY <1>1, IInvHolds, PTL

-------------------------------------------------------------------------------
\* The workers that are on their way to the list are finitely many.
LEMMA AwakeFinite == IsFiniteSet(Awake) /\ Cardinality(Awake) \in Nat
<1>1. IsFiniteSet(Awake)
  BY WorkersAssumption, FS_Subset DEF Awake
<1>2. QED
  BY <1>1, FS_CardinalityType

\* A worker that leaves the semaphore joins Awake; one that leaves the list quits it.
LEMMA AwakeMoves ==
    ASSUME IInv, NEW w \in Workers, NEW to, pc' = [pc EXCEPT ![w] = to]
    PROVE  /\ pc[w] = "wait" /\ to = "lock" => Cardinality(Awake') = Cardinality(Awake) + 1
           /\ pc[w] \in {"front", "pop"} /\ to \in {"loop", "process"} =>
                Cardinality(Awake') = Cardinality(Awake) - 1 /\ Cardinality(Awake') \in Nat
           /\ pc[w] \in {"lock", "front"} /\ to \in {"front", "pop"} => Awake' = Awake
           /\ pc[w] \in {"loop", "process"} /\ to \in {"loop", "wait", "exited"} => Awake' = Awake
           /\ pc'[Main] = pc[Main]
<1> USE ThreadsDistinct DEF IInv, TypeOK
<1>0. pc'[Main] = pc[Main]
  OBVIOUS
<1>1. CASE pc[w] = "wait" /\ to = "lock"
  <2>1. Awake' = Awake \union {w} /\ w \notin Awake
    BY <1>1 DEF Awake
  <2>2. Cardinality(Awake') = Cardinality(Awake) + 1
    BY <2>1, AwakeFinite, FS_AddElement
  <2>3. QED
    BY <1>0, <1>1, <2>2
<1>2. CASE pc[w] \in {"front", "pop"} /\ to \in {"loop", "process"}
  <2>1. Awake' = Awake \ {w} /\ w \in Awake
    BY <1>2 DEF Awake
  <2>2. Cardinality(Awake') = Cardinality(Awake) - 1 /\ Cardinality(Awake') \in Nat
    BY <2>1, AwakeFinite, FS_RemoveElement, FS_CardinalityType
  <2>3. QED
    BY <1>0, <1>2, <2>2
<1>3. CASE pc[w] \in {"lock", "front"} /\ to \in {"front", "pop"}
  <2>1. Awake' = Awake
    BY <1>3 DEF Awake
  <2>2. QED
    BY <1>0, <1>3, <2>1
<1>4. CASE pc[w] \in {"loop", "process"} /\ to \in {"loop", "wait", "exited"}
  <2>1. Awake' = Awake
    BY <1>4 DEF Awake
  <2>2. QED
    BY <1>0, <1>4, <2>1
<1>5. QED
  BY <1>0, <1>1, <1>2, <1>3, <1>4

\* A step of main leaves the workers where they are.
LEMMA AwakeStays ==
    ASSUME IInv, NEW to, pc' = [pc EXCEPT ![Main] = to]
    PROVE  Awake' = Awake /\ pc'[Main] = to
BY ThreadsDistinct DEF IInv, TypeOK, Awake

\* No step leaves a request in the list without a unit, a worker or a post for it.
LEMMA NoLostWakeupStep == IInv /\ NoLostWakeup /\ [Next]_vars => NoLostWakeup'
<1> SUFFICES ASSUME IInv, NoLostWakeup, [Next]_vars PROVE NoLostWakeup'
  OBVIOUS
<1>0. /\ Len(m_workQueue) \in Nat /\ m_queuestat \in Nat
      /\ Cardinality(Awake) \in Nat /\ Posting \in Nat
      /\ Len(m_workQueue) <= m_queuestat + Cardinality(Awake) + Posting
  BY AwakeFinite DEF IInv, TypeOK, NoLostWakeup, Posting
<1>1. CASE AppendLock \/ AppendRefused \/ Destroy
  <2>1. Awake' = Awake /\ Posting' = Posting
    BY <1>1, AwakeStays DEF AppendLock, AppendRefused, Destroy, Goto, Posting
  <2>2. UNCHANGED <<m_workQueue, m_queuestat>>
    BY <1>1 DEF AppendLock, AppendRefused, Destroy
  <2>3. QED
    BY <1>0, <2>1, <2>2 DEF NoLostWakeup
<1>2. CASE AppendPush
  <2>1. Awake' = Awake /\ Posting' = 1 /\ Posting = 0
    BY <1>2, AwakeStays DEF AppendPush, Goto, Posting
  <2>2. Len(m_workQueue') = Len(m_workQueue) + 1 /\ m_queuestat' = m_queuestat
    BY <1>2 DEF AppendPush, IInv, TypeOK
  <2>3. QED
    BY <1>0, <2>1, <2>2 DEF NoLostWakeup
<1>3. CASE AppendPost
  <2>1. Awake' = Awake /\ Posting' = 0 /\ Posting = 1
    BY <1>3, AwakeStays DEF AppendPost, Goto, Posting
  <2>2. m_workQueue' = m_workQueue /\ m_queuestat' = m_queuestat + 1
    BY <1>3 DEF AppendPost
  <2>3. QED
    BY <1>0, <2>1, <2>2 DEF NoLostWakeup
<1>4. ASSUME NEW w \in Workers, LoopTest(w) \/ TakeLock(w) \/ ReadFront(w) \/ Process(w)
      PROVE  NoLostWakeup'
  <2>1. Awake' = Awake /\ Posting' = Posting
    BY <1>4, AwakeMoves DEF LoopTest, TakeLock, ReadFront, Process, Goto, Posting
  <2>2. UNCHANGED <<m_workQueue, m_queuestat>>
    BY <1>4 DEF LoopTest, TakeLock, ReadFront, Process
  <2>3. QED
    BY <1>0, <2>1, <2>2 DEF NoLostWakeup
<1>5. ASSUME NEW w \in Workers, WaitSem(w) \/ WaitInterrupted(w) PROVE NoLostWakeup'
  <2>1. Cardinality(Awake') = Cardinality(Awake) + 1 /\ Posting' = Posting
    BY <1>5, AwakeMoves DEF WaitSem, WaitInterrupted, Goto, Posting
  <2>2. m_workQueue' = m_workQueue /\ m_queuestat' \in {m_queuestat - 1, m_queuestat}
    BY <1>5 DEF WaitSem, WaitInterrupted
  <2>3. QED
    BY <1>0, <2>1, <2>2 DEF NoLostWakeup
<1>6. ASSUME NEW w \in Workers, FindEmpty(w) PROVE NoLostWakeup'
  <2>1. Cardinality(Awake') \in Nat /\ Posting' = Posting
    BY <1>6, AwakeMoves DEF FindEmpty, Goto, Posting
  <2>2. Len(m_workQueue') = 0 /\ m_queuestat' = m_queuestat
    BY <1>6 DEF FindEmpty
  <2>3. QED
    BY <1>0, <2>1, <2>2 DEF NoLostWakeup
<1>7. ASSUME NEW w \in Workers, PopFront(w) PROVE NoLostWakeup'
  <2>1. Cardinality(Awake') = Cardinality(Awake) - 1 /\ Posting' = Posting
    BY <1>7, AwakeMoves DEF PopFront, Goto, Posting
  <2>2. Len(m_workQueue') = Len(m_workQueue) - 1 /\ m_queuestat' = m_queuestat
    BY <1>7, TailElements DEF PopFront, IInv, TypeOK, FrontInv, Goto
  <2>3. QED
    BY <1>0, <2>1, <2>2 DEF NoLostWakeup
<1>8. CASE UNCHANGED vars
  <2>1. Awake' = Awake /\ Posting' = Posting
    BY <1>8 DEF vars, Awake, Posting
  <2>2. QED
    BY <1>0, <1>8, <2>1 DEF vars, NoLostWakeup
<1>9. QED
  BY <1>1, <1>2, <1>3, <1>4, <1>5, <1>6, <1>7, <1>8 DEF Next, append, run

\* No wake-up is lost, for any number of workers and of interrupted waits.
THEOREM WakeupKept == Spec => []NoLostWakeup
<1>1. Init => NoLostWakeup
  <2> SUFFICES ASSUME Init PROVE NoLostWakeup
    OBVIOUS
  <2>1. Len(m_workQueue) = 0 /\ m_queuestat = 0 /\ Posting \in Nat
    BY DEF Init, Posting
  <2>2. QED
    BY <2>1, AwakeFinite DEF NoLostWakeup
<1>2. QED
  BY <1>1, NoLostWakeupStep, IInvHolds, PTL DEF Spec

-------------------------------------------------------------------------------
\* append() is Submit, pop_front() is Take, the return of process() is Finish and the
\* rest of a worker's round trip is invisible to the caller.
LEMMA QueueStep == IInv /\ [Next]_vars => [Queue!Next]_Queue!vars
<1> SUFFICES ASSUME IInv, [Next]_vars PROVE [Queue!Next]_Queue!vars
  OBVIOUS
<1> DEFINE inService == [w \in Workers |-> IF Holding(w) THEN request[w] ELSE NoRequest]
<1> USE ThreadsDistinct DEF Queue!Next, Queue!vars, Holding, Goto
<1>0. pc \in [Threads -> {"idle", "append", "post", "done", "loop", "wait", "lock",
                           "front", "pop", "process", "exited"}]
      /\ request \in [Threads -> Requests \union {NoRequest}]
  BY DEF IInv, TypeOK
<1>1. CASE AppendLock \/ AppendRefused \/ AppendPost \/ Destroy
  <2>1. m_workQueue' = m_workQueue /\ inService' = inService
    BY <1>0, <1>1 DEF AppendLock, AppendRefused, AppendPost, Destroy, IInv, PcInv
  <2>2. QED
    BY <2>1
<1>2. CASE AppendPush
  <2>1. request[Main] \in Requests
    BY <1>2, BoundsAssumption DEF AppendPush, IInv, TypeOK, OrderInv, Requests, NoRequest
  <2>2. inService' = inService
    BY <1>0, <1>2 DEF AppendPush, IInv, PcInv
  <2>3. Queue!Submit(request[Main])
    BY <1>2, <2>2 DEF AppendPush, Queue!Submit
  <2>4. QED
    BY <2>1, <2>3
<1>3. ASSUME NEW w \in Workers,
             \/ LoopTest(w) \/ WaitSem(w) \/ WaitInterrupted(w) \/ TakeLock(w)
             \/ FindEmpty(w) \/ ReadFront(w)
      PROVE  [Queue!Next]_Queue!vars
  <2>1. m_workQueue' = m_workQueue /\ inService' = inService
    BY <1>0, <1>3 DEF LoopTest, WaitSem, WaitInterrupted, TakeLock, FindEmpty, ReadFront
  <2>2. QED
    BY <2>1
<1>4. ASSUME NEW w \in Workers, PopFront(w) PROVE [Queue!Next]_Queue!vars
  <2>1. m_workQueue # <<>> /\ request[w] = Head(m_workQueue)
    BY <1>4 DEF PopFront, IInv, FrontInv
  <2>2. inService[w] = NoRequest
    BY <1>4 DEF PopFront
  <2>3. inService' = [inService EXCEPT ![w] = Head(m_workQueue)]
    BY <1>0, <1>4, <2>1 DEF PopFront
  <2>4. Queue!Take(w)
    BY <1>4, <2>1, <2>2, <2>3 DEF PopFront, Queue!Take
  <2>5. QED
    BY <2>4
<1>5. ASSUME NEW w \in Workers, Process(w) PROVE [Queue!Next]_Queue!vars
  <2>1. inService[w] # NoRequest
    BY <1>5, BoundsAssumption DEF Process, IInv, OrderInv, Holding, Requests, NoRequest
  <2>2. inService' = [inService EXCEPT ![w] = NoRequest]
    BY <1>0, <1>5 DEF Process
  <2>3. Queue!Finish(w)
    BY <1>5, <2>1, <2>2 DEF Process, Queue!Finish
  <2>4. QED
    BY <2>3
<1>6. CASE UNCHANGED vars
  BY <1>6 DEF vars
<1>7. QED
  BY <1>1, <1>2, <1>3, <1>4, <1>5, <1>6 DEF Next, append, run

\* The pool implements the abstract first-in first-out queue of RequestQueue.
THEOREM PoolImplementsQueue == Spec => ImplementsQueue
<1>1. Init => Queue!Init
  BY ThreadsDistinct DEF Init, Queue!Init, Holding, Threads
<1>2. QED
  BY <1>1, QueueStep, IInvHolds, PTL DEF Spec, ImplementsQueue, Queue!Spec

===============================================================================
