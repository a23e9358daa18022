----------------------------- MODULE ReactorProofs ----------------------------
(***************************************************************************)
(* Proofs about Reactor, for any finite sets of slots and workers, any     *)
(* limit of the pool and any bounds, as long as the heap has room for a    *)
(* timer per slot.                                                         *)
(*                                                                         *)
(* The checked invariants rest on each other.  The inductive invariant is  *)
(* their conjunction with what the loop of main (LoopInv), the events in   *)
(* hand (BatchInv), the workers (ProcessInv) and the numbers given to      *)
(* connections (NumbersInv) look like between two steps.                   *)
(***************************************************************************)
EXTENDS Reactor, FiniteSetTheorems, FunctionTheorems, SequenceTheorems, TLAPS

\* Events are in hand only inside the loop, and a tick runs after it, for an alarm.
LoopInv ==
    /\ ~looping => batch = {}
    /\ ticking => ~looping /\ timeout /\ ~broken

\* epoll_wait() returns one event for a descriptor.
BatchInv == \A e, f \in batch : e # f => e.at # f.at \/ e.at = NoSlot

\* A worker has a slot while it is inside process(), and a request between its two halves.
ProcessInv == \A w \in Workers :
    /\ stage[w] = "idle" <=> inService[w] = NoSlot
    /\ stage[w] # "respond" => parsed[w] = {}

\* Connections and timers are older than the next accept(), and a timer has a slot.
NumbersInv ==
    /\ \A s \in Slots : conn[s] <= accepted
    /\ \A c \in timers : c <= accepted /\ slot[c] \in Slots

\* The claims on a slot: of epoll, of main, of the list and of the workers.
Watch(a, s) == IF a[s] = "off" THEN 0 ELSE 1
EventsFor(b, s) == {e \in b : e.at = s}
PlacesOf(q, s) == {i \in 1..Len(q) : q[i] = s}
HoldersOf(f, s) == {w \in Workers : f[w] = s}

\* A slot that is not stale has one task at most, even if its connection is closed.
TaskInv == \A s \in Slots \ stale :
    Cardinality(PlacesOf(queue, s)) + Cardinality(HoldersOf(inService, s)) <= 1

IInv ==
    /\ TypeOK /\ LoopInv /\ BatchInv /\ ProcessInv /\ NumbersInv /\ TaskInv
    /\ CountExact /\ EventsLive /\ OneOwner /\ OwnBytes /\ TimersMatch /\ OneAlarm

-------------------------------------------------------------------------------
(* What opening and closing a connection does to the set of open slots *)

\* There are finitely many open slots.
LEMMA OpenFinite == IsFiniteSet(Open)
BY SlotsAssumption, FS_Subset DEF Open

\* The user count is a number that follows CloseConn(), called on an open slot or not.
LEMMA CloseCounts ==
    ASSUME TypeOK, CountExact, NEW s \in Slots, CloseConn(s)
    PROVE  Open' = Open \ {s} /\ m_user_count' \in Nat /\ CountExact'
<1>1. Open' = Open \ {s} /\ (conn[s] # NoConn <=> s \in Open)
  BY DEF TypeOK, CloseConn, Open
<1>2. IsFiniteSet(Open \ {s}) /\ Cardinality(Open \ {s}) =
        IF s \in Open THEN Cardinality(Open) - 1 ELSE Cardinality(Open)
  BY OpenFinite, FS_RemoveElement
<1>3. Cardinality(Open \ {s}) \in Nat
  BY <1>2, FS_CardinalityType
<1>4. m_user_count' = Cardinality(Open \ {s})
  BY <1>1, <1>2 DEF CloseConn, CountExact
<1>5. QED
  BY <1>1, <1>3, <1>4 DEF CountExact

\* The user count follows init(), called on a slot that is free.
LEMMA InitCounts ==
    ASSUME TypeOK, CountExact, NEW s \in Slots \ Open, NEW c \in Conns, InitConn(s, c)
    PROVE  Open' = Open \union {s} /\ m_user_count' \in Nat /\ CountExact'
<1>1. Open' = Open \union {s}
  BY DEF TypeOK, InitConn, Open, NoConn, Conns
<1>2. Cardinality(Open \union {s}) = Cardinality(Open) + 1
  BY OpenFinite, FS_AddElement
<1>3. QED
  BY <1>1, <1>2 DEF InitConn, CountExact, TypeOK

-------------------------------------------------------------------------------
\* The initial state satisfies the inductive invariant.
LEMMA InitIInv == Init => IInv
<1> SUFFICES ASSUME Init PROVE IInv
  OBVIOUS
<1> USE SlotsAssumption, NumbersAssumption DEF Init, NoConn, NoAlarm
<1>1. TypeOK
  <2>1. /\ conn \in [Slots -> Conns \union {NoConn}] /\ m_user_count \in Nat
        /\ armed \in [Slots -> {"off", "in", "out"}]
        /\ rbuf \in [Slots -> SUBSET Conns] /\ wbuf \in [Slots -> SUBSET Conns]
        /\ keep \in [Slots -> BOOLEAN] /\ accepted \in 0..MaxConns
        /\ slot \in [Conns -> Slots \union {NoSlot}]
        /\ timer \in [Slots -> Conns \union {NoConn}]
    OBVIOUS
  <2>2. /\ looping \in BOOLEAN /\ signalled \in BOOLEAN
        /\ timeout \in BOOLEAN /\ stop_server \in BOOLEAN /\ ticking \in BOOLEAN
        /\ broken \in BOOLEAN /\ alarmLost \in BOOLEAN
    BY ZenonT(20) DEF Heap!Init
  <2>3. /\ killed \in 0..MaxTerms /\ terms \in 0..PipeRoom
        /\ alarmAt \in Nat \union {NoAlarm}
    OBVIOUS
  <2>4. /\ queue \in Seq(Slots) /\ inService \in [Workers -> Slots \union {NoSlot}]
        /\ stage \in [Workers -> {"idle", "parse", "respond", "again", "reply"}]
        /\ parsed \in [Workers -> SUBSET Conns]
    BY DEF Pool!Init
  <2>5. /\ timers \subseteq Conns /\ expire \in [Conns -> 0..(MaxClock + 3 * TIMESLOT)]
        /\ now \in 0..MaxClock
    BY DEF Heap!Init
  <2>6. QED
    BY <2>1, <2>2, <2>3, <2>4, <2>5 DEF TypeOK
<1>2. Open = {}
  BY DEF Open
<1>3. LoopInv /\ BatchInv
  BY DEF LoopInv, BatchInv, Heap!Init
<1>4. ProcessInv
  BY DEF ProcessInv, Pool!Init
<1>5. NumbersInv
  BY DEF NumbersInv, Heap!Init
<1>6. CountExact
  BY <1>2, FS_EmptySet DEF CountExact
<1>7. EventsLive
  BY <1>2 DEF EventsLive
<1>8. OneOwner /\ OwnBytes
  BY <1>2 DEF OneOwner, OwnBytes
<1>8a. TaskInv
  <2>1. \A s \in Slots : PlacesOf(queue, s) = {} /\ HoldersOf(inService, s) = {}
    BY DEF PlacesOf, HoldersOf, Pool!Init
  <2>2. Cardinality({}) = 0 /\ 0 + 0 <= 1
    BY FS_EmptySet
  <2>3. QED
    BY <2>1, <2>2 DEF TaskInv
<1>9. TimersMatch
  BY <1>2 DEF TimersMatch, Heap!Init
<1>10. OneAlarm
  BY DEF OneAlarm, Count
<1>11. QED
  BY <1>1, <1>3, <1>4, <1>5, <1>6, <1>7, <1>8, <1>8a, <1>9, <1>10 DEF IInv

-------------------------------------------------------------------------------
\* The user count is exact, although a slot can be closed twice.
LEMMA CountStep == IInv /\ [Next]_vars => CountExact' /\ m_user_count' \in Nat
<1> SUFFICES ASSUME IInv, [Next]_vars PROVE CountExact' /\ m_user_count' \in Nat
  OBVIOUS
<1> USE DEF IInv
<1>1. CASE Accept
  <2>1. CASE \E s \in Slots \ Open : InitConn(s, accepted + 1)
    <3>1. accepted + 1 \in Conns
      BY <1>1, NumbersAssumption DEF Accept, TypeOK, Conns
    <3>2. QED
      BY <2>1, <3>1, InitCounts
  <2>2. CASE UNCHANGED <<conn, m_user_count>>
    BY <2>2 DEF CountExact, Open, TypeOK
  <2>3. QED
    BY <1>1, <2>1, <2>2 DEF Accept, connVars
<1>2. CASE \E s \in Slots : Hangup(s) \/ ReadFails(s)
  BY <1>2, CloseCounts DEF Hangup, ReadFails, CloseAndDelete
<1>3. CASE \E s \in Slots : WriteCloses(s)
  BY <1>3, CloseCounts DEF WriteCloses
<1>4. CASE \E t \in Conns : TickFire(t)
  BY <1>4, CloseCounts DEF TickFire, Heap!Fire, NumbersInv
<1>5. CASE UNCHANGED <<conn, m_user_count>>
  BY <1>5 DEF CountExact, Open, TypeOK
<1>6. ASSUME EpollWait \/ ReadSignals \/ EndLoop \/ TickEnd \/ AlarmRings \/ Terminate \/ Clock
      PROVE  UNCHANGED <<conn, m_user_count>>
  BY <1>6 DEF EpollWait, ReadSignals, EndLoop, TickEnd, AlarmRings, Terminate, Clock, connVars
<1>7. ASSUME NEW s \in Slots, ReadOk(s) \/ WriteOk(s)
      PROVE  UNCHANGED <<conn, m_user_count>>
  BY <1>7 DEF ReadOk, WriteOk
<1>8. ASSUME NEW w \in Workers, process(w)
      PROVE  UNCHANGED <<conn, m_user_count>>
  BY <1>8 DEF process, Take, Parse, Respond, Rearm, connVars
<1>9. QED
  BY <1>1, <1>2, <1>3, <1>4, <1>5, <1>6, <1>7, <1>8 DEF Next, MainStep, vars, connVars

-------------------------------------------------------------------------------
\* An event in hand belongs to an open connection, which has its timer set.
LEMMA EventOpen ==
    ASSUME IInv, NEW e \in batch, e.at \in Slots, ~broken
    PROVE  /\ e.at \in Open /\ conn[e.at] \in Conns
           /\ timer[e.at] = conn[e.at] /\ timer[e.at] \in timers /\ slot[conn[e.at]] = e.at
BY DEF IInv, EventsLive, Open, TypeOK

\* The conjuncts of TypeOK, one group of variables each.
ConnTypes ==
    /\ conn \in [Slots -> Conns \union {NoConn}] /\ m_user_count \in Nat
    /\ armed \in [Slots -> {"off", "in", "out"}]
    /\ rbuf \in [Slots -> SUBSET Conns] /\ wbuf \in [Slots -> SUBSET Conns]
    /\ keep \in [Slots -> BOOLEAN]

AcceptTypes ==
    /\ accepted \in 0..MaxConns
    /\ slot \in [Conns -> Slots \union {NoSlot}]
    /\ timer \in [Slots -> Conns \union {NoConn}]
    /\ stale \subseteq Slots /\ parked \subseteq Slots /\ orphans \subseteq Conns

LoopTypes ==
    /\ batch \subseteq {Listen, Signal} \union [kind : {"in", "out", "hup"}, at : Slots]
    /\ alarmAt \in Nat \union {NoAlarm} /\ killed \in 0..MaxTerms /\ terms \in 0..PipeRoom

PoolTypes ==
    /\ queue \in Seq(Slots)
    /\ inService \in [Workers -> Slots \union {NoSlot}]
    /\ stage \in [Workers -> {"idle", "parse", "respond", "again", "reply"}]
    /\ parsed \in [Workers -> SUBSET Conns]

TimerTypes ==
    /\ timers \subseteq Conns
    /\ expire \in [Conns -> 0..(MaxClock + 3 * TIMESLOT)]
    /\ now \in 0..MaxClock

FlagTypes ==
    /\ looping \in BOOLEAN /\ signalled \in BOOLEAN /\ timeout \in BOOLEAN
    /\ stop_server \in BOOLEAN /\ ticking \in BOOLEAN /\ broken \in BOOLEAN
    /\ alarmLost \in BOOLEAN

\* The types are those of the groups, each of which few steps disturb.
LEMMA TypeGroups ==
    TypeOK <=> /\ ConnTypes /\ AcceptTypes /\ LoopTypes
               /\ PoolTypes /\ TimerTypes /\ FlagTypes
BY DEF TypeOK, ConnTypes, AcceptTypes, LoopTypes, PoolTypes, TimerTypes, FlagTypes

\* The fields of the slots keep their types; the count is a number by CountStep.
LEMMA ConnTypeStep == IInv /\ [Next]_vars => ConnTypes'
<1> SUFFICES ASSUME IInv, [Next]_vars PROVE ConnTypes'
  OBVIOUS
<1>0. m_user_count' \in Nat
  BY CountStep
<1> USE <1>0, TypeGroups DEF IInv, ConnTypes
<1>1. CASE EpollWait
  BY <1>1 DEF EpollWait
<1>2. CASE Accept
  <2>1. accepted + 1 \in Conns
    BY <1>2, NumbersAssumption DEF Accept, AcceptTypes, Conns
  <2>2. CASE \E s \in Slots \ Open : InitConn(s, accepted + 1)
    BY <2>1, <2>2 DEF InitConn, addfd, ClearBuffers
  <2>3. CASE UNCHANGED connVars
    BY <2>3 DEF connVars
  <2>4. QED
    BY <1>2, <2>2, <2>3 DEF Accept
<1>3. ASSUME NEW s \in Slots, Hangup(s) \/ ReadFails(s) PROVE ConnTypes'
  BY <1>3 DEF Hangup, ReadFails, CloseAndDelete, CloseConn, removefd
<1>4. ASSUME NEW s \in Slots, ReadOk(s) PROVE ConnTypes'
  <2>1. conn[s] \in Conns
    BY <1>4, EventOpen DEF ReadOk, Handle, Event
  <2>2. QED
    BY <1>4, <2>1 DEF ReadOk, RecvAll
<1>5. ASSUME NEW s \in Slots, WriteOk(s) PROVE ConnTypes'
  BY <1>5 DEF WriteOk, ClearBuffers, Modfd
<1>6. ASSUME NEW s \in Slots, WriteCloses(s) PROVE ConnTypes'
  BY <1>6 DEF WriteCloses, CloseConn, removefd
<1>7. ASSUME NEW t \in Conns, TickFire(t) PROVE ConnTypes'
  BY <1>7 DEF TickFire, CloseConn, removefd
<1>8. ASSUME NEW w \in Workers, Parse(w) PROVE ConnTypes'
  <2>1. UNCHANGED <<conn, armed, rbuf, wbuf>>
    BY <1>8 DEF Parse
  <2>2. PICK k \in BOOLEAN : keep' = [keep EXCEPT ![inService[w]] = @ \/ k]
    BY <1>8 DEF Parse
  <2>3. keep' \in [Slots -> BOOLEAN]
    BY <2>2
  <2>4. QED
    BY <2>1, <2>3
<1>9. ASSUME NEW w \in Workers, Respond(w) PROVE ConnTypes'
  BY <1>9 DEF Respond, PoolTypes
<1>10. ASSUME NEW w \in Workers, Rearm(w) PROVE ConnTypes'
  BY <1>10 DEF Rearm, Modfd
<1>11. ASSUME NEW w \in Workers, Take(w) PROVE UNCHANGED connVars
  BY <1>11 DEF Take
<1>12. ASSUME ReadSignals \/ EndLoop \/ TickEnd \/ AlarmRings \/ Terminate \/ Clock
       PROVE  UNCHANGED connVars
  BY <1>12 DEF ReadSignals, EndLoop, TickEnd, AlarmRings, Terminate, Clock
<1>13. CASE UNCHANGED connVars
  BY <1>13 DEF connVars
<1>14. QED
  BY <1>1, <1>2, <1>3, <1>4, <1>5, <1>6, <1>7, <1>8, <1>9, <1>10, <1>11, <1>12, <1>13
     DEF Next, MainStep, process, vars

\* What is noted about connections keeps its type.
LEMMA AcceptTypeStep == IInv /\ [Next]_vars => AcceptTypes'
<1> SUFFICES ASSUME IInv, [Next]_vars PROVE AcceptTypes'
  OBVIOUS
<1> USE TypeGroups, NumbersAssumption DEF IInv, AcceptTypes
<1>1. CASE Accept
  <2>1. AcceptTypes
    BY TypeGroups
  <2>2. accepted' = accepted + 1 /\ accepted + 1 \in 1..MaxConns /\ accepted' \in 0..MaxConns
    BY <1>1, <2>1 DEF Accept
  <2>3. orphans' = orphans
    BY <1>1 DEF Accept
  <2>4. ASSUME NEW s \in Slots,
               slot' = [slot EXCEPT ![accepted + 1] = s], timer' = [timer EXCEPT ![s] = accepted + 1],
               stale' = (IF Busy(s) THEN stale \union {s} ELSE stale \ {s}), parked' = parked \ {s}
        PROVE  AcceptTypes'
    BY <2>1, <2>2, <2>3, <2>4 DEF Conns
  <2>5. CASE \E s \in Slots \ Open :
                /\ slot' = [slot EXCEPT ![accepted + 1] = s] /\ timer' = [timer EXCEPT ![s] = accepted + 1]
                /\ stale' = (IF Busy(s) THEN stale \union {s} ELSE stale \ {s}) /\ parked' = parked \ {s}
    BY <2>4, <2>5
  <2>6. CASE UNCHANGED <<slot, timer, stale, parked>>
    BY <2>1, <2>2, <2>3, <2>6
  <2>7. QED
    BY <1>1, <2>5, <2>6 DEF Accept
<1>2. ASSUME NEW s \in Slots, ReadOk(s) PROVE AcceptTypes'
  BY <1>2 DEF ReadOk, acceptVars
<1>3. ASSUME NEW s \in Slots, WriteCloses(s) PROVE AcceptTypes'
  <2>1. conn[s] \in Conns
    BY <1>3, EventOpen DEF WriteCloses, Handle, Event
  <2>2. QED
    BY <1>3, <2>1 DEF WriteCloses, acceptVars
<1>4. ASSUME \/ EpollWait \/ ReadSignals \/ EndLoop \/ TickEnd \/ AlarmRings \/ Terminate \/ Clock
             \/ \E s \in Slots : Hangup(s) \/ ReadFails(s) \/ WriteOk(s)
             \/ \E t \in Conns : TickFire(t)
             \/ \E w \in Workers : process(w)
       PROVE UNCHANGED <<acceptVars, stale, parked, orphans>>
  BY <1>4 DEF EpollWait, ReadSignals, EndLoop, TickEnd, AlarmRings, Terminate, Clock, Hangup,
     ReadFails, WriteOk, TickFire, process, Take, Parse, Respond, Rearm, history
<1>5. CASE UNCHANGED <<acceptVars, stale, parked, orphans>>
  BY <1>5 DEF acceptVars
<1>6. QED
  BY <1>1, <1>2, <1>3, <1>4, <1>5 DEF Next, MainStep, vars, history

\* The events in hand and the numbers of the signals keep their types.
LEMMA LoopTypeStep == IInv /\ [Next]_vars => LoopTypes'
<1> SUFFICES ASSUME IInv, [Next]_vars PROVE LoopTypes'
  OBVIOUS
<1> USE TypeGroups, NumbersAssumption DEF IInv, LoopTypes
<1>1. CASE EpollWait
  <2>1. ASSUME NEW s \in Slots
        PROVE  Ready(s) \subseteq [kind : {"in", "out", "hup"}, at : Slots]
    BY DEF Ready, Event, ConnTypes
  <2>2. batch' \subseteq {Listen, Signal} \union [kind : {"in", "out", "hup"}, at : Slots]
    <3>1. batch' \in SUBSET ((UNION {Ready(s) : s \in Slots})
                                \union (IF accepted < MaxConns THEN {Listen} ELSE {})
                                \union (IF SignalPending THEN {Signal} ELSE {}))
      BY <1>1 DEF EpollWait
    <3>2. ASSUME NEW e \in batch'
          PROVE  e \in UNION {Ready(s) : s \in Slots} \/ e \in {Listen, Signal}
      BY <3>1
    <3>3. QED
      BY <2>1, <3>2
  <2>3. QED
    BY <1>1, <2>2 DEF EpollWait, signalVars
<1>2. ASSUME NEW e, Handle(e), UNCHANGED signalVars PROVE LoopTypes'
  BY <1>2 DEF Handle, signalVars
<1>3. CASE Accept
  BY <1>2, <1>3 DEF Accept
<1>4. ASSUME NEW s \in Slots,
             Hangup(s) \/ ReadFails(s) \/ ReadOk(s) \/ WriteOk(s) \/ WriteCloses(s)
      PROVE  LoopTypes'
  BY <1>2, <1>4 DEF Hangup, ReadFails, ReadOk, WriteOk, WriteCloses
<1>5. CASE ReadSignals
  BY <1>5 DEF ReadSignals, Handle
<1>6. CASE TickEnd
  BY <1>6 DEF TickEnd, TimerTypes
<1>7. CASE AlarmRings
  BY <1>7 DEF AlarmRings
<1>8. CASE Terminate
  BY <1>8 DEF Terminate, PipeFull
<1>9. CASE UNCHANGED <<batch, alarmAt, killed, terms>>
  BY <1>9
<1>10. ASSUME EndLoop \/ Clock \/ \E t \in Conns : TickFire(t)
       PROVE  UNCHANGED <<batch, alarmAt, killed, terms>>
  BY <1>10 DEF EndLoop, Clock, TickFire, loopVars, signalVars
<1>11. ASSUME NEW w \in Workers, process(w) PROVE UNCHANGED <<batch, alarmAt, killed, terms>>
  BY <1>11 DEF process, Take, Parse, Respond, Rearm, loopVars, signalVars
<1>12. QED
  BY <1>1, <1>3, <1>4, <1>5, <1>6, <1>7, <1>8, <1>9, <1>10, <1>11
     DEF Next, MainStep, vars, loopVars, signalVars

\* The list of the pool and what its workers hold keep their types.
LEMMA PoolTypeStep == IInv /\ [Next]_vars => PoolTypes'
<1> SUFFICES ASSUME IInv, [Next]_vars PROVE PoolTypes'
  OBVIOUS
<1> USE TypeGroups DEF IInv, PoolTypes
<1>1. ASSUME NEW s \in Slots, ReadOk(s) PROVE PoolTypes'
  BY <1>1 DEF ReadOk, Pool!Submit, workVars, poolVars
<1>2. ASSUME NEW w \in Workers, Take(w) PROVE PoolTypes'
  BY <1>2 DEF Take, At, Pool!Take
<1>3. ASSUME NEW w \in Workers, Parse(w) PROVE PoolTypes'
  <2>1. inService[w] \in Slots
    BY <1>3 DEF Parse, At, ProcessInv
  <2>2. rbuf[inService[w]] \subseteq Conns
    BY <2>1 DEF ConnTypes
  <2>3. QED
    BY <1>3, <2>2 DEF Parse, At, poolVars
<1>4. ASSUME NEW w \in Workers, Respond(w) PROVE PoolTypes'
  BY <1>4 DEF Respond, At, poolVars
<1>5. ASSUME NEW w \in Workers, Rearm(w) PROVE PoolTypes'
  BY <1>5 DEF Rearm, At, Pool!Finish
<1>6. CASE UNCHANGED <<poolVars, workVars>>
  BY <1>6 DEF poolVars, workVars
<1>7. ASSUME \/ EpollWait \/ Accept \/ ReadSignals \/ EndLoop \/ TickEnd
             \/ AlarmRings \/ Terminate \/ Clock
             \/ \E s \in Slots : Hangup(s) \/ ReadFails(s) \/ WriteOk(s) \/ WriteCloses(s)
             \/ \E t \in Conns : TickFire(t)
      PROVE  UNCHANGED <<poolVars, workVars>>
  BY <1>7 DEF EpollWait, Accept, ReadSignals, EndLoop, TickEnd, AlarmRings, Terminate, Clock,
     Hangup, ReadFails, WriteOk, WriteCloses, TickFire
<1>8. QED
  BY <1>1, <1>2, <1>3, <1>4, <1>5, <1>6, <1>7 DEF Next, MainStep, process, vars

\* The timers keep their types: deadlines are at most three time slots ahead of the clock.
LEMMA TimerTypeStep == IInv /\ [Next]_vars => TimerTypes'
<1> SUFFICES ASSUME IInv, [Next]_vars PROVE TimerTypes'
  OBVIOUS
<1> USE TypeGroups, NumbersAssumption DEF IInv, TimerTypes
<1>1. CASE Accept
  <2>1. accepted + 1 \in Conns
    BY <1>1 DEF Accept, AcceptTypes, Conns
  <2>2. now + 3 * TIMESLOT \in 0..(MaxClock + 3 * TIMESLOT)
    OBVIOUS
  <2>3. CASE Heap!Add(accepted + 1, now + 3 * TIMESLOT)
    BY <2>1, <2>2, <2>3 DEF Heap!Add
  <2>4. CASE UNCHANGED <<timers, expire, now>>
    BY <2>4
  <2>5. QED
    BY <1>1, <2>3, <2>4 DEF Accept
<1>2. ASSUME NEW s \in Slots, Hangup(s) \/ ReadFails(s) PROVE TimerTypes'
  <2>1. /\ timers' = timers \ {timer[s]}
        /\ expire' = [expire EXCEPT ![timer[s]] = 0]
        /\ UNCHANGED now
    BY <1>2 DEF Hangup, ReadFails, CloseAndDelete, Heap!Del, Heap!Remove
  <2>2. 0 \in 0..(MaxClock + 3 * TIMESLOT)
    OBVIOUS
  <2>3. expire' \in [Conns -> 0..(MaxClock + 3 * TIMESLOT)]
    BY <2>1, <2>2
  <2>4. QED
    BY <2>1, <2>3
<1>3. ASSUME NEW s \in Slots, ReadOk(s) PROVE TimerTypes'
  <2>1. now + 2 * TIMESLOT \in 0..(MaxClock + 3 * TIMESLOT)
    OBVIOUS
  <2>2. QED
    BY <1>3, <2>1 DEF ReadOk, Heap!Adjust
<1>4. ASSUME NEW t \in Conns, TickFire(t) PROVE TimerTypes'
  BY <1>4 DEF TickFire, Heap!Fire, Heap!Remove
<1>5. CASE Clock
  BY <1>5 DEF Clock, Heap!Clock
<1>6. CASE UNCHANGED <<timers, expire, now>>
  BY <1>6
<1>7. ASSUME \/ EpollWait \/ ReadSignals \/ EndLoop \/ TickEnd \/ AlarmRings \/ Terminate
             \/ \E s \in Slots : WriteOk(s) \/ WriteCloses(s)
             \/ \E w \in Workers : process(w)
      PROVE  UNCHANGED <<timers, expire, now>>
  BY <1>7 DEF EpollWait, ReadSignals, EndLoop, Heap!BeginTick, TickEnd, Heap!EndTick, AlarmRings,
     Terminate, WriteOk, WriteCloses, process, Take, Parse, Respond, Rearm, timerVars
<1>8. QED
  BY <1>1, <1>2, <1>3, <1>4, <1>5, <1>6, <1>7 DEF Next, MainStep, vars, timerVars

\* The flags stay Boolean.
LEMMA FlagTypeStep == IInv /\ [Next]_vars => FlagTypes'
<1> SUFFICES ASSUME IInv, [Next]_vars PROVE FlagTypes'
  OBVIOUS
<1> USE TypeGroups DEF IInv, FlagTypes
<1>1. CASE EpollWait
  BY <1>1 DEF EpollWait, signalVars, timerVars, history
<1>2. CASE Accept
  BY <1>2 DEF Accept, Handle, Heap!Add, signalVars
<1>3. CASE ReadSignals
  BY <1>3 DEF ReadSignals, Handle, timerVars, history
<1>4. CASE EndLoop
  BY <1>4 DEF EndLoop, Heap!BeginTick, signalVars, timerVars, history
<1>5. CASE TickEnd
  BY <1>5 DEF TickEnd, Heap!EndTick, history
<1>6. ASSUME NEW s \in Slots, Hangup(s) \/ ReadFails(s) PROVE FlagTypes'
  BY <1>6 DEF Hangup, ReadFails, CloseAndDelete, Handle, Heap!Del, signalVars, history
<1>7. ASSUME NEW s \in Slots, ReadOk(s) PROVE FlagTypes'
  BY <1>7 DEF ReadOk, Handle, Heap!Adjust, signalVars
<1>8. ASSUME NEW s \in Slots, WriteOk(s) \/ WriteCloses(s) PROVE FlagTypes'
  BY <1>8 DEF WriteOk, WriteCloses, Handle, signalVars, timerVars, history
<1>9. ASSUME NEW t \in Conns, TickFire(t) PROVE FlagTypes'
  BY <1>9 DEF TickFire, Heap!Fire, loopVars, signalVars, history
<1>10. CASE AlarmRings
  BY <1>10 DEF AlarmRings, timerVars
<1>11. CASE Terminate
  BY <1>11 DEF Terminate, timerVars, history
<1>12. CASE Clock
  BY <1>12 DEF Clock, Heap!Clock, loopVars, signalVars, history
<1>13. ASSUME NEW w \in Workers, process(w) PROVE UNCHANGED <<loopVars, timerVars, history>>
  BY <1>13 DEF process, Take, Parse, Respond, Rearm
<1>14. CASE UNCHANGED <<loopVars, timerVars, history>>
  BY <1>14 DEF loopVars, signalVars, timerVars, history
<1>15. QED
  BY <1>1, <1>2, <1>3, <1>4, <1>5, <1>6, <1>7, <1>8, <1>9, <1>10, <1>11, <1>12, <1>13, <1>14
     DEF Next, MainStep, vars

\* Every variable keeps its type.
LEMMA TypeStep == IInv /\ [Next]_vars => TypeOK'
<1> SUFFICES ASSUME IInv, [Next]_vars PROVE TypeOK'
  OBVIOUS
<1>1. /\ ConnTypes' /\ AcceptTypes' /\ LoopTypes' /\ PoolTypes' /\ TimerTypes' /\ FlagTypes'
  BY ConnTypeStep, AcceptTypeStep, LoopTypeStep, PoolTypeStep, TimerTypeStep, FlagTypeStep
<1>2. QED
  BY <1>1 DEF TypeOK, ConnTypes, AcceptTypes, LoopTypes, PoolTypes, TimerTypes, FlagTypes

-------------------------------------------------------------------------------
\* The loop over the events ends before a tick begins, and only an alarm begins one.
LEMMA LoopStep == IInv /\ [Next]_vars => LoopInv'
<1> SUFFICES ASSUME IInv, [Next]_vars PROVE LoopInv'
  OBVIOUS
<1> USE TypeGroups DEF IInv, LoopInv, FlagTypes
<1>1. CASE EpollWait
  BY <1>1 DEF EpollWait, timerVars
<1>2. ASSUME NEW e, Handle(e), UNCHANGED ticking PROVE LoopInv'
  BY <1>2 DEF Handle
<1>3. CASE Accept
  BY <1>2, <1>3 DEF Accept, Heap!Add
<1>4. CASE ReadSignals
  BY <1>2, <1>4 DEF ReadSignals, timerVars
<1>5. ASSUME NEW s \in Slots,
             Hangup(s) \/ ReadFails(s) \/ ReadOk(s) \/ WriteOk(s) \/ WriteCloses(s)
      PROVE  LoopInv'
  BY <1>2, <1>5 DEF Hangup, ReadFails, CloseAndDelete, Heap!Del, ReadOk, Heap!Adjust, WriteOk,
     WriteCloses, timerVars
<1>6. CASE EndLoop
  <2>1. looping' = FALSE /\ batch' = {} /\ UNCHANGED timeout
    BY <1>6 DEF EndLoop, signalVars
  <2>2. (ticking' => ticking \/ timeout) /\ broken' = FALSE
    BY <1>6 DEF EndLoop, Heap!BeginTick, timerVars
  <2>3. QED
    BY <2>1, <2>2
<1>7. CASE TickEnd
  BY <1>7 DEF TickEnd, Heap!EndTick
<1>8. CASE UNCHANGED <<looping, batch, timeout, ticking, broken>>
  BY <1>8
<1>9. ASSUME AlarmRings \/ Terminate \/ Clock \/ \E t \in Conns : TickFire(t)
      PROVE  UNCHANGED <<looping, batch, timeout, ticking, broken>>
  BY <1>9 DEF AlarmRings, Terminate, Clock, Heap!Clock, TickFire, Heap!Fire, loopVars, signalVars,
     timerVars
<1>10. ASSUME NEW w \in Workers, process(w) PROVE UNCHANGED <<looping, batch, timeout, ticking, broken>>
  BY <1>10 DEF process, Take, Parse, Respond, Rearm, loopVars, signalVars, timerVars
<1>11. QED
  BY <1>1, <1>3, <1>4, <1>5, <1>6, <1>7, <1>8, <1>9, <1>10
     DEF Next, MainStep, vars, loopVars, signalVars, timerVars

\* epoll_wait() returns one event for a descriptor, and handling events only removes some.
LEMMA BatchStep == IInv /\ [Next]_vars => BatchInv'
<1> SUFFICES ASSUME IInv, [Next]_vars PROVE BatchInv'
  OBVIOUS
<1> USE DEF IInv, BatchInv
<1>1. CASE EpollWait
  BY <1>1 DEF EpollWait
<1>2. CASE batch' \subseteq batch
  BY <1>2
<1>3. ASSUME Accept \/ ReadSignals \/ EndLoop \/ TickEnd \/ AlarmRings \/ Terminate \/ Clock
      PROVE  batch' \subseteq batch
  BY <1>3 DEF Accept, ReadSignals, EndLoop, TickEnd, AlarmRings, Terminate, Clock, Handle, loopVars
<1>4. ASSUME NEW s \in Slots,
             Hangup(s) \/ ReadFails(s) \/ ReadOk(s) \/ WriteOk(s) \/ WriteCloses(s)
      PROVE  batch' \subseteq batch
  BY <1>4 DEF Hangup, ReadFails, ReadOk, WriteOk, WriteCloses, Handle
<1>5. ASSUME (\E t \in Conns : TickFire(t)) \/ \E w \in Workers : process(w)
      PROVE  batch' \subseteq batch
  BY <1>5 DEF TickFire, process, Take, Parse, Respond, Rearm, loopVars
<1>6. QED
  BY <1>1, <1>2, <1>3, <1>4, <1>5 DEF Next, MainStep, vars, loopVars

\* A worker's stage, its slot and its request go together.
LEMMA ProcessStep == IInv /\ [Next]_vars => ProcessInv'
<1> SUFFICES ASSUME IInv, [Next]_vars PROVE ProcessInv'
  OBVIOUS
<1> USE TypeGroups, SlotsAssumption DEF IInv, ProcessInv, PoolTypes
<1>1. ASSUME NEW w \in Workers, Take(w) PROVE ProcessInv'
  <2>1. Head(queue) \in Slots
    BY <1>1 DEF Take, Pool!Take
  <2>2. QED
    BY <1>1, <2>1 DEF Take, At, Pool!Take
<1>2. ASSUME NEW w \in Workers, Parse(w) PROVE ProcessInv'
  BY <1>2 DEF Parse, At, poolVars
<1>3. ASSUME NEW w \in Workers, Respond(w) PROVE ProcessInv'
  BY <1>3 DEF Respond, At, poolVars
<1>4. ASSUME NEW w \in Workers, Rearm(w) PROVE ProcessInv'
  BY <1>4 DEF Rearm, At, Pool!Finish
<1>5. CASE UNCHANGED <<inService, workVars>>
  BY <1>5 DEF workVars
<1>6. ASSUME \/ EpollWait \/ Accept \/ ReadSignals \/ EndLoop \/ TickEnd
             \/ AlarmRings \/ Terminate \/ Clock
             \/ \E s \in Slots :
                  Hangup(s) \/ ReadFails(s) \/ ReadOk(s) \/ WriteOk(s) \/ WriteCloses(s)
             \/ \E t \in Conns : TickFire(t)
      PROVE  UNCHANGED <<inService, workVars>>
  BY <1>6 DEF EpollWait, Accept, ReadSignals, EndLoop, TickEnd, AlarmRings, Terminate, Clock,
     Hangup, ReadFails, ReadOk, Pool!Submit, WriteOk, WriteCloses, TickFire, poolVars
<1>7. QED
  BY <1>1, <1>2, <1>3, <1>4, <1>5, <1>6 DEF Next, MainStep, process, vars, poolVars

\* Connections and timers are numbered up to accepted.
LEMMA NumbersStep == IInv /\ [Next]_vars => NumbersInv'
<1> SUFFICES ASSUME IInv, [Next]_vars PROVE NumbersInv'
  OBVIOUS
<1> USE TypeGroups DEF IInv, NumbersInv, ConnTypes, AcceptTypes, TimerTypes, Conns, NoConn
<1>1. CASE Accept
  <2>1. accepted + 1 \in Conns /\ accepted' = accepted + 1
    BY <1>1, NumbersAssumption DEF Accept
  <2>2. CASE UNCHANGED <<conn, slot, timers>>
    BY <2>1, <2>2
  <2>3. ASSUME NEW s \in Slots, InitConn(s, accepted + 1),
               slot' = [slot EXCEPT ![accepted + 1] = s],
               Heap!Add(accepted + 1, now + 3 * TIMESLOT)
        PROVE  NumbersInv'
    <3>1. timers' \subseteq timers \union {accepted + 1}
      BY <2>3 DEF Heap!Add
    <3>2. \A r \in Slots : conn'[r] = IF r = s THEN accepted + 1 ELSE conn[r]
      BY <2>3 DEF InitConn
    <3>3. \A c \in timers' : c \in Conns /\ slot'[c] = IF c = accepted + 1 THEN s ELSE slot[c]
      BY <2>1, <2>3, <3>1
    <3>4. \A r \in Slots : conn[r] \in Nat /\ conn[r] <= accepted + 1
      OBVIOUS
    <3>5. \A r \in Slots : conn'[r] <= accepted'
      BY <2>1, <3>2, <3>4, NumbersAssumption
    <3>6. \A c \in timers' : c <= accepted' /\ slot'[c] \in Slots
      BY <2>1, <3>1, <3>3
    <3>7. QED
      BY <3>5, <3>6
  <2>4. QED
    BY <1>1, <2>2, <2>3 DEF Accept, connVars
<1>2. ASSUME UNCHANGED <<accepted, slot>>, timers' \subseteq timers,
             conn' = conn \/ \E s \in Slots : CloseConn(s)
      PROVE  NumbersInv'
  BY <1>2 DEF CloseConn
<1>3. ASSUME EpollWait \/ ReadSignals \/ EndLoop \/ TickEnd \/ AlarmRings \/ Terminate \/ Clock
      PROVE  UNCHANGED <<accepted, slot, timers, conn>>
  BY <1>3 DEF EpollWait, ReadSignals, EndLoop, Heap!BeginTick, TickEnd, Heap!EndTick, AlarmRings,
     Terminate, Clock, Heap!Clock, acceptVars, timerVars, connVars
<1>4. ASSUME NEW s \in Slots,
             Hangup(s) \/ ReadFails(s) \/ ReadOk(s) \/ WriteOk(s) \/ WriteCloses(s)
      PROVE  /\ UNCHANGED <<accepted, slot>> /\ timers' \subseteq timers
             /\ conn' = conn \/ CloseConn(s)
  BY <1>4 DEF Hangup, ReadFails, CloseAndDelete, Heap!Del, Heap!Remove, ReadOk, Heap!Adjust, WriteOk,
     WriteCloses, acceptVars, timerVars
<1>5. ASSUME NEW t \in Conns, TickFire(t)
      PROVE  /\ UNCHANGED <<accepted, slot>> /\ timers' \subseteq timers
             /\ slot[t] \in Slots /\ CloseConn(slot[t])
  BY <1>5 DEF TickFire, Heap!Fire, Heap!Remove, acceptVars
<1>6. ASSUME NEW w \in Workers, process(w) PROVE UNCHANGED <<accepted, slot, timers, conn>>
  BY <1>6 DEF process, Take, Parse, Respond, Rearm, acceptVars, timerVars, connVars
<1>7. QED
  BY <1>1, <1>2, <1>3, <1>4, <1>5, <1>6
     DEF Next, MainStep, vars, acceptVars, timerVars, connVars

-------------------------------------------------------------------------------
\* No step is taken in a state that is broken.
LEMMA NextNotBroken == Next => ~broken
<1>1. EpollWait \/ Accept \/ ReadSignals \/ EndLoop \/ TickEnd \/ AlarmRings \/ Terminate \/ Clock
        => ~broken
  BY DEF EpollWait, Accept, ReadSignals, EndLoop, TickEnd, Heap!EndTick, AlarmRings, Terminate, Clock,
     Heap!Clock, Handle
<1>2. ASSUME NEW s \in Slots,
             Hangup(s) \/ ReadFails(s) \/ ReadOk(s) \/ WriteOk(s) \/ WriteCloses(s)
      PROVE  ~broken
  BY <1>2 DEF Hangup, ReadFails, ReadOk, WriteOk, WriteCloses, Handle
<1>3. ASSUME NEW t \in Conns, TickFire(t) PROVE ~broken
  BY <1>3 DEF TickFire, Heap!Fire
<1>4. ASSUME NEW w \in Workers, process(w) PROVE ~broken
  BY <1>4 DEF process, Take, Parse, Respond, Rearm
<1>5. QED
  BY <1>1, <1>2, <1>3, <1>4 DEF Next, MainStep

\* What main does with a slot whose event it has in hand leaves the others' events live.
LEMMA EventsLiveStep == IInv /\ [Next]_vars => EventsLive'
<1> SUFFICES ASSUME IInv, [Next]_vars, ~broken' PROVE EventsLive'
  BY DEF EventsLive
<1>0. ~broken /\ EventsLive
  BY NextNotBroken DEF IInv, vars, timerVars
<1> USE <1>0, TypeGroups, NumbersAssumption
    DEF IInv, EventsLive, ConnTypes, AcceptTypes, TimerTypes, Open
<1>1. CASE EpollWait
  <2>1. UNCHANGED <<conn, timer, timers, slot>>
    BY <1>1 DEF EpollWait, timerVars, acceptVars
  <2>2. ASSUME NEW s \in Slots, conn[s] = NoConn, NEW e \in batch' PROVE e.at # s
    <3>1. \A r \in Slots \ Open : Ready(r) = {}
      BY DEF Ready
    <3>2. batch' \in SUBSET ((UNION {Ready(r) : r \in Slots})
                                \union (IF accepted < MaxConns THEN {Listen} ELSE {})
                                \union (IF SignalPending THEN {Signal} ELSE {}))
      BY <1>1 DEF EpollWait
    <3>3. e \in {Listen, Signal} \/ \E r \in Slots : e \in Ready(r)
      BY <3>2
    <3>4. CASE e \in {Listen, Signal}
      BY <3>4, SlotsAssumption DEF Listen, Signal
    <3>5. ASSUME NEW r \in Slots, e \in Ready(r) PROVE e.at # s
      BY <2>2, <3>1, <3>5 DEF Ready, Event
    <3>6. QED
      BY <3>3, <3>4, <3>5
  <2>3. \A s \in Slots \ Open : armed'[s] = "off"
    BY <1>1 DEF EpollWait
  <2>4. QED
    BY <2>1, <2>2, <2>3
<1>2. CASE Accept
  <2>1. accepted + 1 \in Conns /\ accepted' = accepted + 1
    BY <1>2 DEF Accept, Conns
  <2>2. batch' \subseteq batch
    BY <1>2 DEF Accept, Handle
  <2>3. PICK s \in Slots \ Open :
          /\ conn' = [conn EXCEPT ![s] = accepted + 1]
          /\ armed' = [armed EXCEPT ![s] = "in"]
          /\ slot' = [slot EXCEPT ![accepted + 1] = s]
          /\ timer' = [timer EXCEPT ![s] = accepted + 1]
          /\ timers' = timers \union {accepted + 1}
    BY <1>2 DEF Accept, InitConn, addfd, Heap!Add
  <2>4. \A r \in Open : conn[r] # accepted + 1
    BY DEF NumbersInv
  <2>5. ASSUME NEW r \in Slots, conn'[r] # NoConn
        PROVE  timer'[r] = conn'[r] /\ timer'[r] \in timers' /\ slot'[conn'[r]] = r
    BY <2>1, <2>3, <2>4, <2>5
  <2>6. ASSUME NEW r \in Slots, conn'[r] = NoConn
        PROVE  armed'[r] = "off" /\ \A e \in batch' : e.at # r
    <3>1. r # s
      BY <2>1, <2>3, <2>6 DEF Conns, NoConn
    <3>2. conn[r] = NoConn /\ armed'[r] = armed[r]
      BY <2>3, <2>6, <3>1
    <3>3. QED
      BY <2>2, <3>2
  <2>7. QED
    BY <2>5, <2>6
<1>3. ASSUME NEW s \in Slots, CloseConn(s), UNCHANGED <<timer, slot>>,
             \A c \in timers : slot[c] # s => c \in timers',
             \A e \in batch' : e \in batch /\ e.at # s
      PROVE  EventsLive'
  <2>1. \A r \in Slots : conn'[r] = IF r = s THEN NoConn ELSE conn[r]
    BY <1>3 DEF CloseConn
  <2>2. \A r \in Slots : armed'[r] = IF r = s THEN "off" ELSE armed[r]
    BY <1>3 DEF CloseConn, removefd
  <2>3. \A r \in Open \ {s} : slot[conn[r]] # s
    OBVIOUS
  <2>4. ASSUME NEW r \in Slots, conn'[r] # NoConn
        PROVE  timer'[r] = conn'[r] /\ timer'[r] \in timers' /\ slot'[conn'[r]] = r
    BY <1>3, <2>1, <2>3, <2>4 DEF Conns, NoConn
  <2>5. ASSUME NEW r \in Slots, conn'[r] = NoConn
        PROVE  armed'[r] = "off" /\ \A e \in batch' : e.at # r
    BY <1>3, <2>1, <2>2, <2>5
  <2>6. QED
    BY <2>4, <2>5
\* The event main has in hand is the only one for its slot.
<1>4. ASSUME NEW e, e.at \in Slots, Handle(e)
      PROVE  e \in batch /\ \A f \in batch' : f \in batch /\ f.at # e.at
  BY <1>4, SlotsAssumption DEF Handle, BatchInv
<1>5. ASSUME NEW s \in Slots, Hangup(s) \/ ReadFails(s) PROVE EventsLive'
  <2>1. \E e \in batch : e.at = s /\ Handle(e)
    BY <1>5 DEF Hangup, ReadFails, Event, Handle
  <2>2. timer[s] = conn[s] /\ \A f \in batch' : f \in batch /\ f.at # s
    BY <1>4, <2>1, EventOpen
  <2>3. CloseConn(s) /\ timers' = timers \ {conn[s]} /\ UNCHANGED <<timer, slot>>
    BY <1>5, <2>2 DEF Hangup, ReadFails, CloseAndDelete, Heap!Del, Heap!Remove, acceptVars
  <2>4. slot[conn[s]] = s
    BY <2>1, EventOpen
  <2>5. QED
    BY <1>3, <2>2, <2>3, <2>4
<1>6. ASSUME NEW s \in Slots, WriteCloses(s) PROVE EventsLive'
  <2>1. \A f \in batch' : f \in batch /\ f.at # s
    BY <1>4, <1>6 DEF WriteCloses, Event
  <2>2. CloseConn(s) /\ UNCHANGED <<timer, slot, timers>>
    BY <1>6 DEF WriteCloses, acceptVars, timerVars
  <2>3. QED
    BY <1>3, <2>1, <2>2
<1>7. ASSUME NEW t \in Conns, TickFire(t) PROVE EventsLive'
  <2>1. slot[t] \in Slots /\ CloseConn(slot[t]) /\ UNCHANGED <<timer, slot, batch>>
    BY <1>7 DEF TickFire, Heap!Fire, NumbersInv, acceptVars, loopVars
  <2>2. batch = {} /\ timers' = timers \ {t}
    BY <1>7 DEF TickFire, Heap!Fire, Heap!Remove, LoopInv
  <2>3. QED
    BY <1>3, <2>1, <2>2
<1>8. ASSUME UNCHANGED <<conn, timer, slot, timers>>, batch' \subseteq batch,
             UNCHANGED armed \/ \E s \in Slots, ev \in {"in", "out"} : Modfd(s, ev)
      PROVE  EventsLive'
  <2>1. \A r \in Slots \ Open : armed'[r] = armed[r]
    BY <1>8 DEF Modfd
  <2>2. QED
    BY <1>8, <2>1
<1>9. ASSUME NEW s \in Slots, ReadOk(s) \/ WriteOk(s) PROVE EventsLive'
  <2>1. UNCHANGED <<conn, timer, slot, timers>> /\ batch' \subseteq batch
    BY <1>9 DEF ReadOk, WriteOk, Handle, Heap!Adjust, acceptVars, timerVars
  <2>2. UNCHANGED armed \/ Modfd(s, "in") \/ Modfd(s, "out")
    BY <1>9 DEF ReadOk, WriteOk
  <2>3. QED
    BY <1>8, <2>1, <2>2
<1>10. ASSUME NEW w \in Workers, process(w) PROVE EventsLive'
  <2>1. UNCHANGED <<conn, timer, slot, timers, batch>>
    BY <1>10 DEF process, Take, Parse, Respond, Rearm, connVars, acceptVars, timerVars, loopVars
  <2>2. UNCHANGED armed \/ Modfd(inService[w], "in") \/ Modfd(inService[w], "out")
    BY <1>10 DEF process, Take, Parse, Respond, Rearm, connVars
  <2>3. Rearm(w) => inService[w] \in Slots
    BY DEF Rearm, Pool!Finish, PoolTypes
  <2>4. UNCHANGED armed \/ Rearm(w)
    BY <1>10 DEF process, Take, Parse, Respond, connVars
  <2>5. QED
    BY <1>8, <2>1, <2>2, <2>3, <2>4
<1>11. ASSUME ReadSignals \/ EndLoop \/ TickEnd \/ AlarmRings \/ Terminate \/ Clock
       PROVE  UNCHANGED <<conn, timer, slot, timers, armed>> /\ batch' \subseteq batch
  BY <1>11 DEF ReadSignals, EndLoop, Heap!BeginTick, TickEnd, Heap!EndTick, AlarmRings, Terminate,
     Clock, Heap!Clock, Handle, connVars, acceptVars, timerVars, loopVars
<1>12. QED
  BY <1>1, <1>2, <1>5, <1>6, <1>7, <1>8, <1>9, <1>10, <1>11
     DEF Next, MainStep, vars, connVars, acceptVars, timerVars, loopVars

-------------------------------------------------------------------------------
\* While no connection was closed without its timer, the heap has room for one timer more
\* whenever there is a free slot: so many timers, so many open slots.
LEMMA TimersFit ==
    ASSUME IInv, orphans = {}, NEW s \in Slots \ Open
    PROVE  IsFiniteSet(timers) /\ Cardinality(timers) < HeapCapacity
<1> DEFINE f == [r \in Open |-> conn[r]]
<1>1. timers = {conn[r] : r \in Open}
  BY DEF IInv, TimersMatch
<1>2. f \in Surjection(Open, timers)
  BY <1>1 DEF Surjection
<1>3. IsFiniteSet(timers) /\ Cardinality(timers) <= Cardinality(Open)
  BY <1>2, OpenFinite, FS_Surjection
<1>4. IsFiniteSet(Slots \ {s}) /\ Cardinality(Slots \ {s}) = Cardinality(Slots) - 1
  BY SlotsAssumption, FS_RemoveElement
<1>5. Cardinality(Open) <= Cardinality(Slots \ {s})
  <2>1. Open \in SUBSET (Slots \ {s})
    BY DEF Open
  <2>2. QED
    BY <1>4, <2>1, FS_Subset
<1>6. Cardinality(timers) \in Nat /\ Cardinality(Open) \in Nat /\ Cardinality(Slots) \in Nat
  BY <1>3, OpenFinite, SlotsAssumption, FS_CardinalityType
<1>7. QED
  BY <1>3, <1>4, <1>5, <1>6, RoomAssumption, NumbersAssumption

\* Open connections and timers come and go together, as long as write() closes none.
LEMMA TimersMatchStep == IInv /\ [Next]_vars => TimersMatch'
<1> SUFFICES ASSUME IInv, [Next]_vars, orphans' = {} PROVE timers' = {conn'[s] : s \in Open'}
  BY DEF TimersMatch
<1> USE TypeGroups DEF IInv, ConnTypes, AcceptTypes, TimerTypes
<1>1. CASE UNCHANGED vars
  BY <1>1 DEF vars, history, timerVars, connVars, TimersMatch, Open
<1>2. SUFFICES ASSUME Next PROVE timers' = {conn'[s] : s \in Open'}
  BY <1>1
<1>3. ~broken
  BY <1>2, NextNotBroken
<1>4. \A s \in Open : conn[s] \in Conns /\ slot[conn[s]] = s
  BY <1>3 DEF EventsLive, Open
<1>5. ASSUME orphans = {}, UNCHANGED <<conn, timers>> PROVE timers' = {conn'[s] : s \in Open'}
  BY <1>5 DEF TimersMatch, Open
<1>6. ASSUME orphans = {}, NEW t \in timers, slot[t] \in Slots, CloseConn(slot[t]),
             timers' = timers \ {t}
      PROVE  timers' = {conn'[s] : s \in Open'}
  <2>1. timers = {conn[r] : r \in Open}
    BY <1>6 DEF TimersMatch
  <2>2. PICK s \in Open : t = conn[s]
    BY <1>6, <2>1
  <2>3. slot[t] = s
    BY <1>4, <2>2
  <2>4. Open' = Open \ {s} /\ \A r \in Open' : conn'[r] = conn[r]
    BY <1>6, <2>3, CloseCounts DEF CloseConn, Open
  <2>5. {conn'[r] : r \in Open'} = {conn[r] : r \in Open \ {s}}
    BY <2>4
  <2>6. {conn[r] : r \in Open \ {s}} = {conn[r] : r \in Open} \ {conn[s]}
    BY <1>4
  <2>7. QED
    BY <1>6, <2>1, <2>2, <2>5, <2>6
<1>7. CASE Accept
  <2>1. orphans = {} /\ accepted + 1 \in Conns
    BY <1>7, NumbersAssumption DEF Accept, Conns
  <2>2. CASE UNCHANGED <<conn, timers>>
    BY <1>5, <2>1, <2>2
  <2>3. ASSUME NEW s \in Slots \ Open, InitConn(s, accepted + 1),
               Heap!Add(accepted + 1, now + 3 * TIMESLOT)
        PROVE  timers' = {conn'[r] : r \in Open'}
    <3>1. timers' = timers \union {accepted + 1}
      BY <2>1, <2>3, TimersFit DEF Heap!Add, Heap!Cardinality, Cardinality
    <3>2. Open' = Open \union {s} /\ conn'[s] = accepted + 1
          /\ \A r \in Open : conn'[r] = conn[r]
      <4>1. Open' = Open \union {s}
        BY <2>1, <2>3, InitCounts
      <4>2. QED
        BY <2>3, <4>1 DEF InitConn, Open
    <3>3. QED
      BY <2>1, <3>1, <3>2 DEF TimersMatch
  <2>4. QED
    BY <1>7, <2>2, <2>3 DEF Accept, connVars
<1>8. ASSUME NEW s \in Slots, Hangup(s) \/ ReadFails(s) PROVE timers' = {conn'[r] : r \in Open'}
  <2>1. \E e \in batch : e.at = s
    BY <1>8 DEF Hangup, ReadFails, Event, Handle
  <2>2. timer[s] \in timers /\ slot[timer[s]] = s
    BY <1>3, <2>1, EventOpen
  <2>3. CloseConn(s) /\ timers' = timers \ {timer[s]} /\ UNCHANGED orphans
    BY <1>8 DEF Hangup, ReadFails, CloseAndDelete, Heap!Del, Heap!Remove, history
  <2>4. QED
    BY <1>6, <2>2, <2>3
<1>9. ASSUME NEW s \in Slots, WriteCloses(s) PROVE FALSE
  BY <1>9 DEF WriteCloses
<1>10. ASSUME NEW t \in Conns, TickFire(t) PROVE timers' = {conn'[r] : r \in Open'}
  <2>1. /\ t \in timers /\ slot[t] \in Slots /\ CloseConn(slot[t])
        /\ timers' = timers \ {t} /\ UNCHANGED orphans
    BY <1>10 DEF TickFire, Heap!Fire, Heap!Remove, NumbersInv, history
  <2>2. QED
    BY <1>6, <2>1
<1>11. ASSUME \/ EpollWait \/ ReadSignals \/ EndLoop \/ TickEnd \/ AlarmRings \/ Terminate \/ Clock
              \/ \E s \in Slots : ReadOk(s) \/ WriteOk(s)
              \/ \E w \in Workers : process(w)
       PROVE  UNCHANGED <<conn, timers, orphans>>
  BY <1>11 DEF EpollWait, ReadSignals, EndLoop, Heap!BeginTick, TickEnd, Heap!EndTick, AlarmRings,
     Terminate, Clock, Heap!Clock, ReadOk, Heap!Adjust, WriteOk, process, Take, Parse, Respond, Rearm,
     connVars, timerVars, history
<1>12. QED
  BY <1>2, <1>5, <1>7, <1>8, <1>9, <1>10, <1>11 DEF Next, MainStep

-------------------------------------------------------------------------------
\* The alarm is in one place.
LEMMA AlarmStep == IInv /\ [Next]_vars => OneAlarm'
<1> SUFFICES ASSUME IInv, [Next]_vars PROVE OneAlarm'
  OBVIOUS
<1> USE TypeGroups, NumbersAssumption DEF IInv, FlagTypes, OneAlarm, Count
<1>1. CASE ReadSignals
  BY <1>1 DEF ReadSignals, history
<1>2. CASE TickEnd
  BY <1>2 DEF TickEnd, Heap!EndTick, history, LoopInv, NoAlarm, TimerTypes
<1>3. CASE AlarmRings
  BY <1>3 DEF AlarmRings
<1>4. CASE UNCHANGED <<alarmAt, signalled, timeout, alarmLost>>
  BY <1>4
<1>5. ASSUME \/ EpollWait \/ Accept \/ EndLoop \/ Terminate \/ Clock
             \/ \E s \in Slots :
                  Hangup(s) \/ ReadFails(s) \/ ReadOk(s) \/ WriteOk(s) \/ WriteCloses(s)
             \/ \E t \in Conns : TickFire(t)
             \/ \E w \in Workers : process(w)
      PROVE  UNCHANGED <<alarmAt, signalled, timeout, alarmLost>>
  BY <1>5 DEF EpollWait, Accept, EndLoop, Terminate, Clock, Hangup, ReadFails, ReadOk, WriteOk,
     WriteCloses, TickFire, process, Take, Parse, Respond, Rearm, loopVars, signalVars, history
<1>6. QED
  BY <1>1, <1>2, <1>3, <1>4, <1>5 DEF Next, MainStep, vars, loopVars, signalVars, history

-------------------------------------------------------------------------------
(* How a step changes the number of claims on a slot *)

Events == {Listen, Signal} \union [kind : {"in", "out", "hup"}, at : Slots]

\* There are at most three events for a slot, so they can be counted.
LEMMA EventsFinite ==
    ASSUME NEW b \in SUBSET Events, NEW s \in Slots
    PROVE  /\ IsFiniteSet(EventsFor(b, s)) /\ Cardinality(EventsFor(b, s)) \in Nat
           /\ Cardinality(EventsFor(b, s)) = 0 <=> \A e \in b : e.at # s
<1> DEFINE All == {Event("in", s)} \union {Event("out", s)} \union {Event("hup", s)}
<1>1. IsFiniteSet(All)
  BY FS_Singleton, FS_Union
<1>2. EventsFor(b, s) \subseteq All
  BY SlotsAssumption DEF EventsFor, Events, Event, Listen, Signal
<1>3. IsFiniteSet(EventsFor(b, s))
  BY <1>1, <1>2, FS_Subset
<1>4. QED
  BY <1>3, FS_CardinalityType, FS_EmptySet DEF EventsFor

\* One event less in hand.
LEMMA EventsRemove ==
    ASSUME NEW b \in SUBSET Events, NEW e \in b, NEW s \in Slots
    PROVE  Cardinality(EventsFor(b \ {e}, s)) =
             IF e.at = s THEN Cardinality(EventsFor(b, s)) - 1 ELSE Cardinality(EventsFor(b, s))
<1>1. EventsFor(b \ {e}, s) = EventsFor(b, s) \ {e}
  BY DEF EventsFor
<1>2. e \in EventsFor(b, s) <=> e.at = s
  BY DEF EventsFor
<1>3. IsFiniteSet(EventsFor(b, s))
  BY EventsFinite
<1>4. Cardinality(EventsFor(b, s) \ {e}) =
        IF e \in EventsFor(b, s) THEN Cardinality(EventsFor(b, s)) - 1
                                ELSE Cardinality(EventsFor(b, s))
  BY <1>3, FS_RemoveElement
<1>5. QED
  BY <1>1, <1>2, <1>4

\* The places of a slot in the list can be counted.
LEMMA PlacesFinite ==
    ASSUME NEW q \in Seq(Slots), NEW s \in Slots
    PROVE  /\ IsFiniteSet(PlacesOf(q, s)) /\ Cardinality(PlacesOf(q, s)) \in Nat
           /\ Cardinality(PlacesOf(q, s)) = 0 <=> \A i \in 1..Len(q) : q[i] # s
<1>1. IsFiniteSet(1..Len(q))
  BY FS_Interval
<1>2. IsFiniteSet(PlacesOf(q, s))
  BY <1>1, FS_Subset DEF PlacesOf
<1>3. Cardinality(PlacesOf(q, s)) = 0 <=> PlacesOf(q, s) = {}
  BY <1>2, FS_EmptySet
<1>4. PlacesOf(q, s) = {} <=> \A i \in 1..Len(q) : q[i] # s
  BY DEF PlacesOf
<1>5. QED
  BY <1>2, <1>3, <1>4, FS_CardinalityType

\* A task joins the list.
LEMMA PlacesAppend ==
    ASSUME NEW q \in Seq(Slots), NEW r \in Slots, NEW s \in Slots
    PROVE  Cardinality(PlacesOf(Append(q, r), s)) =
             IF r = s THEN Cardinality(PlacesOf(q, s)) + 1 ELSE Cardinality(PlacesOf(q, s))
<1>1. PlacesOf(Append(q, r), s) =
        IF r = s THEN PlacesOf(q, s) \union {Len(q) + 1} ELSE PlacesOf(q, s)
  BY AppendProperties DEF PlacesOf
<1>2. Len(q) + 1 \notin PlacesOf(q, s)
  BY DEF PlacesOf
<1>3. QED
  BY <1>1, <1>2, PlacesFinite, FS_AddElement

\* The first task leaves the list, and all others move up by one place.
LEMMA PlacesTail ==
    ASSUME NEW q \in Seq(Slots), q # <<>>, NEW s \in Slots
    PROVE  Cardinality(PlacesOf(Tail(q), s)) =
             IF Head(q) = s THEN Cardinality(PlacesOf(q, s)) - 1 ELSE Cardinality(PlacesOf(q, s))
<1> DEFINE Rest == PlacesOf(q, s) \ {1}
           f == [i \in Rest |-> i - 1]
<1>1. /\ Len(q) \in Nat /\ Len(q) >= 1 /\ Head(q) = q[1]
      /\ Len(Tail(q)) = Len(q) - 1
      /\ \A i \in 1..Len(q) - 1 : Tail(q)[i] = q[i + 1]
  BY HeadTailProperties, LenProperties
<1>2. \A i \in Rest : i - 1 \in PlacesOf(Tail(q), s)
  BY <1>1 DEF PlacesOf
<1>3. \A j \in PlacesOf(Tail(q), s) : j + 1 \in Rest /\ f[j + 1] = j
  BY <1>1 DEF PlacesOf
<1>4. f \in Bijection(Rest, PlacesOf(Tail(q), s))
  <2>1. f \in [Rest -> PlacesOf(Tail(q), s)]
    BY <1>2
  <2>2. \A i, j \in Rest : f[i] = f[j] => i = j
    BY DEF PlacesOf
  <2>3. \A j \in PlacesOf(Tail(q), s) : \E i \in Rest : f[i] = j
    BY <1>3
  <2>4. QED
    BY <2>1, <2>2, <2>3 DEF Bijection, Injection, Surjection, IsInjective
<1>5. IsFiniteSet(Rest) /\ Cardinality(Rest) =
        IF 1 \in PlacesOf(q, s) THEN Cardinality(PlacesOf(q, s)) - 1
                                ELSE Cardinality(PlacesOf(q, s))
  BY PlacesFinite, FS_RemoveElement
<1>6. Cardinality(PlacesOf(Tail(q), s)) = Cardinality(Rest)
  BY <1>4, <1>5, FS_Bijection DEF ExistsBijection
<1>7. 1 \in PlacesOf(q, s) <=> Head(q) = s
  BY <1>1 DEF PlacesOf
<1>8. QED
  BY <1>5, <1>6, <1>7

\* The workers that hold a slot can be counted.
LEMMA HoldersFinite ==
    ASSUME NEW f, NEW s \in Slots
    PROVE  /\ IsFiniteSet(HoldersOf(f, s)) /\ Cardinality(HoldersOf(f, s)) \in Nat
           /\ Cardinality(HoldersOf(f, s)) = 0 <=> \A w \in Workers : f[w] # s
<1>1. IsFiniteSet(HoldersOf(f, s))
  BY WorkersAssumption, FS_Subset DEF HoldersOf
<1>2. QED
  BY <1>1, FS_CardinalityType, FS_EmptySet DEF HoldersOf

\* A worker without a slot takes one.
LEMMA HoldersTake ==
    ASSUME NEW f \in [Workers -> Slots \union {NoSlot}], NEW w \in Workers, f[w] = NoSlot,
           NEW r \in Slots, NEW s \in Slots
    PROVE  /\ r = s => Cardinality(HoldersOf([f EXCEPT ![w] = r], s)) = Cardinality(HoldersOf(f, s)) + 1
           /\ r # s => Cardinality(HoldersOf([f EXCEPT ![w] = r], s)) = Cardinality(HoldersOf(f, s))
<1>1. HoldersOf([f EXCEPT ![w] = r], s) =
        IF r = s THEN HoldersOf(f, s) \union {w} ELSE HoldersOf(f, s)
  BY SlotsAssumption DEF HoldersOf
<1>2. w \notin HoldersOf(f, s)
  BY SlotsAssumption DEF HoldersOf
<1>3. QED
  BY <1>1, <1>2, HoldersFinite, FS_AddElement

\* A worker gives up its slot.
LEMMA HoldersFinish ==
    ASSUME NEW f \in [Workers -> Slots \union {NoSlot}], NEW w \in Workers, NEW s \in Slots
    PROVE  Cardinality(HoldersOf([f EXCEPT ![w] = NoSlot], s)) =
             IF f[w] = s THEN Cardinality(HoldersOf(f, s)) - 1 ELSE Cardinality(HoldersOf(f, s))
<1>1. HoldersOf([f EXCEPT ![w] = NoSlot], s) = HoldersOf(f, s) \ {w}
  BY SlotsAssumption DEF HoldersOf
<1>2. w \in HoldersOf(f, s) <=> f[w] = s
  BY DEF HoldersOf
<1>3. IsFiniteSet(HoldersOf(f, s))
  BY HoldersFinite
<1>4. Cardinality(HoldersOf(f, s) \ {w}) =
        IF w \in HoldersOf(f, s) THEN Cardinality(HoldersOf(f, s)) - 1 ELSE Cardinality(HoldersOf(f, s))
  BY <1>3, FS_RemoveElement
<1>5. QED
  BY <1>1, <1>2, <1>4

\* The claims on a slot are what epoll, main, the list and the workers have of it.
Parts(s) ==
    Watch(armed, s) + Cardinality(EventsFor(batch, s))
    + Cardinality(PlacesOf(queue, s)) + Cardinality(HoldersOf(inService, s))

\* They are what the checked invariants count.
LEMMA ClaimsParts == ASSUME NEW s \in Slots PROVE Claims(s) = Parts(s)
BY DEF Claims, Parts, Watch, EventsFor, PlacesOf, HoldersOf

\* Each part is a number, which is 0 iff nobody of that kind has the slot.
LEMMA PartsTypes ==
    ASSUME TypeOK, NEW s \in Slots
    PROVE  /\ Watch(armed, s) \in {0, 1}
           /\ Cardinality(EventsFor(batch, s)) \in Nat
           /\ Cardinality(PlacesOf(queue, s)) \in Nat
           /\ Cardinality(HoldersOf(inService, s)) \in Nat
           /\ Watch(armed, s) = 0 <=> armed[s] = "off"
           /\ Cardinality(EventsFor(batch, s)) = 0 <=> \A e \in batch : e.at # s
           /\ Cardinality(PlacesOf(queue, s)) = 0 <=> ~Queued(s)
           /\ Cardinality(HoldersOf(inService, s)) = 0 <=> ~InHand(s)
<1>1. batch \in SUBSET Events /\ queue \in Seq(Slots)
  BY DEF TypeOK, Events
<1>2. Watch(armed, s) \in {0, 1} /\ (Watch(armed, s) = 0 <=> armed[s] = "off")
  BY DEF Watch
<1>3. /\ Cardinality(EventsFor(batch, s)) \in Nat
      /\ Cardinality(EventsFor(batch, s)) = 0 <=> \A e \in batch : e.at # s
  BY <1>1, EventsFinite
<1>4. /\ Cardinality(PlacesOf(queue, s)) \in Nat
      /\ Cardinality(PlacesOf(queue, s)) = 0 <=> ~Queued(s)
  BY <1>1, PlacesFinite DEF Queued
<1>5. /\ Cardinality(HoldersOf(inService, s)) \in Nat
      /\ Cardinality(HoldersOf(inService, s)) = 0 <=> ~InHand(s)
  BY HoldersFinite DEF InHand
<1>6. QED
  BY <1>2, <1>3, <1>4, <1>5

\* The owner of an event or of a task is the only owner of its slot.
LEMMA OwnerAlone ==
    ASSUME IInv, NEW s \in Open \ stale
    PROVE  /\ (\E e \in batch : e.at = s) => s \notin parked /\ armed[s] = "off" /\ ~Busy(s)
           /\ Busy(s) => s \notin parked /\ armed[s] = "off" /\ \A e \in batch : e.at # s
<1>1. s \in Slots
  BY DEF Open
<1>2. Parts(s) = IF s \in parked THEN 0 ELSE 1
  BY <1>1, ClaimsParts DEF IInv, OneOwner
<1>3. QED
  BY <1>1, <1>2, PartsTypes DEF IInv, Parts, Busy

\* A connection that is open and not stale has one owner, whoever hands it on.
LEMMA OwnerStep == IInv /\ [Next]_vars => OneOwner'
<1> SUFFICES ASSUME IInv, [Next]_vars PROVE OneOwner'
  OBVIOUS
<1> USE TypeGroups DEF IInv
<1>1. batch \in SUBSET Events /\ queue \in Seq(Slots)
  BY DEF LoopTypes, PoolTypes, Events
<1>2. \A s \in Open \ stale : Parts(s) = IF s \in parked THEN 0 ELSE 1
  BY ClaimsParts DEF OneOwner, Open
<1>3. SUFFICES ASSUME NEW s \in Slots, conn'[s] # NoConn, s \notin stale'
               PROVE  Parts(s)' = IF s \in parked' THEN 0 ELSE 1
  BY ClaimsParts DEF OneOwner, Open, Claims, Parts, Watch, EventsFor, PlacesOf, HoldersOf
\* The sum before and after, and the types of what is summed up.
<1>a. /\ Parts(s) = Watch(armed, s) + Cardinality(EventsFor(batch, s))
                      + Cardinality(PlacesOf(queue, s)) + Cardinality(HoldersOf(inService, s))
      /\ Parts(s)' = Watch(armed', s) + Cardinality(EventsFor(batch', s))
                      + Cardinality(PlacesOf(queue', s)) + Cardinality(HoldersOf(inService', s))
  BY DEF Parts, Watch, EventsFor, PlacesOf, HoldersOf
<1>b. /\ Watch(armed, s) \in {0, 1}
      /\ Cardinality(EventsFor(batch, s)) \in Nat
      /\ Cardinality(PlacesOf(queue, s)) \in Nat
      /\ Cardinality(HoldersOf(inService, s)) \in Nat
  BY PartsTypes
\* Nothing that the claims on s are made of changes.
<1>4. ASSUME s \in Open \ stale, armed'[s] = armed[s], EventsFor(batch', s) = EventsFor(batch, s),
             queue' = queue, inService' = inService, s \in parked' <=> s \in parked
      PROVE  Parts(s)' = IF s \in parked' THEN 0 ELSE 1
  <2>1. Parts(s)' = Parts(s)
    BY <1>4 DEF Parts, Watch, PlacesOf, HoldersOf, EventsFor
  <2>2. QED
    BY <1>2, <1>4, <2>1
\* An event for another descriptor is handled.
<1>5. ASSUME NEW e, Handle(e), e.at # s PROVE EventsFor(batch', s) = EventsFor(batch, s)
  BY <1>5 DEF Handle, EventsFor
\* The event for s is handled.
<1>6. ASSUME NEW e, Handle(e), e.at = s
      PROVE  Cardinality(EventsFor(batch', s)) = Cardinality(EventsFor(batch, s)) - 1
  BY <1>1, <1>6, EventsRemove DEF Handle
\* A slot is closed: s is another one.
<1>7. ASSUME NEW r \in Slots, CloseConn(r),
             \A e \in batch : e.at # r => e \in batch', batch' \subseteq batch,
             UNCHANGED <<queue, inService, stale, parked>>
      PROVE  Parts(s)' = IF s \in parked' THEN 0 ELSE 1
  <2>1. s # r /\ s \in Open \ stale /\ armed'[s] = armed[s]
    BY <1>3, <1>7 DEF CloseConn, removefd, ConnTypes, Open
  <2>2. EventsFor(batch', s) = EventsFor(batch, s)
    BY <1>7, <2>1 DEF EventsFor
  <2>3. QED
    BY <1>4, <1>7, <2>1, <2>2
<1>8. CASE EpollWait
  <2>1. /\ s \in Open \ stale /\ batch = {} /\ ~broken
        /\ UNCHANGED <<parked, queue, inService>>
    BY <1>3, <1>8 DEF EpollWait, LoopInv, Open, history, poolVars
  <2>2. \A e, f \in batch' : e.at = s /\ f.at = s => e = f
    BY <1>8, SlotsAssumption DEF EpollWait
  <2>3. armed'[s] = IF \E e \in batch' : e.at = s THEN "off" ELSE armed[s]
    BY <1>8 DEF EpollWait
  <2>4. Cardinality(EventsFor(batch, s)) = 0
    BY <1>1, <2>1, EventsFinite
  <2>5. CASE \A e \in batch' : e.at # s
    <3>1. EventsFor(batch', s) = EventsFor(batch, s)
      BY <2>1, <2>5 DEF EventsFor
    <3>2. QED
      BY <1>4, <2>1, <2>3, <2>5, <3>1
  <2>6. ASSUME NEW e \in batch', e.at = s
        PROVE  Parts(s)' = IF s \in parked' THEN 0 ELSE 1
    <3>1. EventsFor(batch', s) = {e}
      BY <2>2, <2>6 DEF EventsFor
    <3>2. Cardinality(EventsFor(batch', s)) = 1
      BY <3>1, FS_Singleton
    <3>3. armed[s] # "off"
      <4>1. batch' \in SUBSET ((UNION {Ready(r) : r \in Slots})
                                  \union (IF accepted < MaxConns THEN {Listen} ELSE {})
                                  \union (IF SignalPending THEN {Signal} ELSE {}))
        BY <1>8 DEF EpollWait
      <4>2. e \in {Listen, Signal} \/ \E r \in Slots : e \in Ready(r)
        BY <2>6, <4>1
      <4>3. QED
        BY <2>6, <4>2, SlotsAssumption DEF Ready, Event, Listen, Signal
    <3>4. Watch(armed, s) = 1 /\ Watch(armed', s) = 0
      BY <2>3, <2>6, <3>3 DEF Watch
    <3>5. Parts(s)' = Parts(s)
      BY <2>1, <2>4, <3>2, <3>4, PartsTypes DEF Parts, Watch, EventsFor, PlacesOf, HoldersOf
    <3>6. QED
      BY <1>2, <2>1, <3>5
  <2>7. QED
    BY <2>5, <2>6
<1>9. CASE Accept
  <2>1. Listen.at # s
    BY SlotsAssumption DEF Listen
  <2>2. EventsFor(batch', s) = EventsFor(batch, s) /\ UNCHANGED <<queue, inService>>
    BY <1>5, <1>9, <2>1 DEF Accept, poolVars
  <2>3. CASE UNCHANGED <<connVars, stale, parked>>
    BY <1>3, <1>4, <2>2, <2>3 DEF connVars, Open
  <2>4. ASSUME NEW r \in Slots \ Open, InitConn(r, accepted + 1),
               stale' = IF Busy(r) THEN stale \union {r} ELSE stale \ {r},
               parked' = parked \ {r}
        PROVE  Parts(s)' = IF s \in parked' THEN 0 ELSE 1
    <3>1. CASE s # r
      <4>1. s \in Open \ stale /\ armed'[s] = armed[s] /\ (s \in parked' <=> s \in parked)
        BY <1>3, <2>4, <3>1 DEF InitConn, addfd, ConnTypes, Open
      <4>2. QED
        BY <1>4, <2>2, <4>1
    <3>2. CASE s = r
      <4>1. ~Busy(s) /\ s \notin parked'
        BY <1>3, <2>4, <3>2
      <4>2. armed'[s] = "in"
        BY <2>4, <3>2 DEF InitConn, addfd, ConnTypes
      <4>3. \A e \in batch : e.at # s
        BY <1>9, <2>4, <3>2, NextNotBroken DEF EventsLive, Next, MainStep
      <4>4. Watch(armed, s)' = 1
        BY <4>2 DEF Watch
      <4>5. Cardinality(EventsFor(batch, s)) = 0 /\ Cardinality(PlacesOf(queue, s)) = 0
            /\ Cardinality(HoldersOf(inService, s)) = 0
        BY <4>1, <4>3, PartsTypes DEF Busy
      <4>6. Cardinality(EventsFor(batch, s))' = 0
        BY <2>2, <4>5
      <4>7. Cardinality(PlacesOf(queue, s))' = 0 /\ Cardinality(HoldersOf(inService, s))' = 0
        BY <2>2, <4>5
      <4>8. Parts(s)' = 1
        BY <4>4, <4>6, <4>7 DEF Parts
      <4>9. QED
        BY <4>1, <4>8
    <3>3. QED
      BY <3>1, <3>2
  <2>5. QED
    BY <1>9, <2>3, <2>4 DEF Accept
<1>10. ASSUME NEW r \in Slots, Hangup(r) \/ ReadFails(r) \/ WriteCloses(r)
       PROVE  Parts(s)' = IF s \in parked' THEN 0 ELSE 1
  <2>1. CloseConn(r) /\ UNCHANGED <<queue, inService, stale, parked>>
    BY <1>10 DEF Hangup, ReadFails, CloseAndDelete, WriteCloses, poolVars, history
  <2>2. (\A e \in batch : e.at # r => e \in batch') /\ batch' \subseteq batch
    BY <1>10 DEF Hangup, ReadFails, WriteCloses, Handle, Event
  <2>3. QED
    BY <1>7, <2>1, <2>2
<1>11. ASSUME NEW t \in Conns, TickFire(t) PROVE Parts(s)' = IF s \in parked' THEN 0 ELSE 1
  BY <1>7, <1>11 DEF TickFire, Heap!Fire, NumbersInv, poolVars, history, loopVars
<1>12. ASSUME NEW r \in Slots, ReadOk(r) PROVE Parts(s)' = IF s \in parked' THEN 0 ELSE 1
  <2>1. s \in Open \ stale /\ Handle(Event("in", r)) /\ UNCHANGED <<armed, inService>>
    BY <1>3, <1>12 DEF ReadOk, Pool!Submit, poolVars, Open
  <2>2. Event("in", r).at = r
    BY DEF Event
  <2>3. \/ queue' = Append(queue, r) /\ parked' = parked
        \/ queue' = queue /\ parked' = parked \union {r}
    BY <1>12 DEF ReadOk, Pool!Submit, poolVars
  <2>4. CASE r # s
    <3>1. Cardinality(EventsFor(batch', s)) = Cardinality(EventsFor(batch, s))
      BY <1>5, <2>1, <2>2, <2>4
    <3>2. Cardinality(PlacesOf(queue', s)) = Cardinality(PlacesOf(queue, s))
      <4>1. CASE queue' = queue
        BY <4>1
      <4>2. CASE queue' = Append(queue, r)
        BY <1>1, <2>4, <4>2, PlacesAppend
      <4>3. QED
        BY <2>3, <4>1, <4>2
    <3>3. Parts(s)' = Parts(s)
      BY <2>1, <3>1, <3>2 DEF Parts, Watch, HoldersOf
    <3>4. QED
      BY <1>2, <2>1, <2>3, <2>4, <3>3
  <2>5. CASE r = s
    <3>1. Cardinality(EventsFor(batch', s)) = Cardinality(EventsFor(batch, s)) - 1
      BY <1>6, <2>1, <2>2, <2>5
    <3>2. s \notin parked
      BY <2>1, <2>2, <2>5, OwnerAlone DEF Handle
    <3>3. Parts(s) = 1
      BY <1>2, <2>1, <3>2
    <3>4. CASE queue' = Append(queue, r) /\ parked' = parked
      <4>1. Cardinality(PlacesOf(queue', s)) = Cardinality(PlacesOf(queue, s)) + 1
        BY <1>1, <2>5, <3>4, PlacesAppend
      <4>2. Parts(s)' = Parts(s)
        BY <1>a, <1>b, <2>1, <3>1, <4>1
      <4>3. QED
        BY <3>2, <3>3, <3>4, <4>2
    <3>5. CASE queue' = queue /\ parked' = parked \union {r}
      <4>1. Parts(s)' = Parts(s) - 1
        BY <1>a, <1>b, <2>1, <3>1, <3>5
      <4>2. QED
        BY <2>5, <3>3, <3>5, <4>1
    <3>6. QED
      BY <2>3, <3>4, <3>5
  <2>6. QED
    BY <2>4, <2>5
<1>13. ASSUME NEW r \in Slots, WriteOk(r) PROVE Parts(s)' = IF s \in parked' THEN 0 ELSE 1
  <2>1. /\ s \in Open \ stale /\ Handle(Event("out", r))
        /\ UNCHANGED <<queue, inService, parked>>
        /\ Modfd(r, "in") \/ Modfd(r, "out")
    BY <1>3, <1>13 DEF WriteOk, poolVars, history, Open
  <2>2. Event("out", r).at = r
    BY DEF Event
  <2>3. CASE r # s
    <3>1. EventsFor(batch', s) = EventsFor(batch, s) /\ armed'[s] = armed[s]
      BY <1>5, <2>1, <2>2, <2>3 DEF Modfd, ConnTypes
    <3>2. QED
      BY <1>4, <2>1, <3>1
  <2>4. CASE r = s
    <3>1. Cardinality(EventsFor(batch', s)) = Cardinality(EventsFor(batch, s)) - 1
      BY <1>6, <2>1, <2>2, <2>4
    <3>2. armed[s] = "off" /\ armed'[s] # "off"
      BY <2>1, <2>2, <2>4, OwnerAlone DEF Handle, Modfd, ConnTypes, Open
    <3>3. Watch(armed, s) = 0 /\ Watch(armed', s) = 1
      BY <3>2 DEF Watch
    <3>4. Parts(s)' = Parts(s)
      BY <1>a, <1>b, <2>1, <3>1, <3>3
    <3>5. QED
      BY <1>2, <2>1, <3>4
  <2>5. QED
    BY <2>3, <2>4
<1>14. ASSUME NEW w \in Workers, Take(w) PROVE Parts(s)' = IF s \in parked' THEN 0 ELSE 1
  <2>1. /\ s \in Open \ stale /\ UNCHANGED <<armed, batch, parked>>
        /\ queue # <<>> /\ queue' = Tail(queue) /\ inService[w] = NoSlot
        /\ inService' = [inService EXCEPT ![w] = Head(queue)]
    BY <1>3, <1>14 DEF Take, Pool!Take, connVars, loopVars, history, Open
  <2>2. Head(queue) \in Slots
    BY <1>1, <2>1
  <2>3. Cardinality(PlacesOf(queue', s)) =
          IF Head(queue) = s THEN Cardinality(PlacesOf(queue, s)) - 1
                             ELSE Cardinality(PlacesOf(queue, s))
    BY <1>1, <2>1, PlacesTail
  <2>4. Cardinality(HoldersOf(inService', s)) =
          IF Head(queue) = s THEN Cardinality(HoldersOf(inService, s)) + 1
                             ELSE Cardinality(HoldersOf(inService, s))
    <3>1. inService \in [Workers -> Slots \union {NoSlot}]
      BY DEF PoolTypes
    <3>2. QED
      <4>1. /\ Head(queue) = s => Cardinality(HoldersOf([inService EXCEPT ![w] = Head(queue)], s))
                                    = Cardinality(HoldersOf(inService, s)) + 1
            /\ Head(queue) # s => Cardinality(HoldersOf([inService EXCEPT ![w] = Head(queue)], s))
                                    = Cardinality(HoldersOf(inService, s))
        <5>1. inService[w] = NoSlot
          BY <2>1
        <5>2. QED
          BY <2>2, <3>1, <5>1, HoldersTake
      <4>2. QED
        BY <2>1, <4>1
  <2>5. Parts(s)' = Parts(s)
    <3>1. Watch(armed', s) = Watch(armed, s) /\ EventsFor(batch', s) = EventsFor(batch, s)
      BY <2>1
    <3>2. Cardinality(PlacesOf(queue', s)) + Cardinality(HoldersOf(inService', s)) =
            Cardinality(PlacesOf(queue, s)) + Cardinality(HoldersOf(inService, s))
      BY <1>b, <2>3, <2>4
    <3>3. QED
      BY <1>a, <1>b, <2>3, <2>4, <3>1, <3>2
  <2>6. QED
    BY <1>2, <2>1, <2>5
<1>15. ASSUME NEW w \in Workers, Rearm(w) PROVE Parts(s)' = IF s \in parked' THEN 0 ELSE 1
  <2>1. /\ s \in Open \ stale /\ UNCHANGED <<batch, queue, parked>>
        /\ inService' = [inService EXCEPT ![w] = NoSlot]
        /\ Modfd(inService[w], "in") \/ Modfd(inService[w], "out")
    BY <1>3, <1>15 DEF Rearm, Pool!Finish, loopVars, history, Open
  <2>2. Cardinality(HoldersOf(inService', s)) =
          IF inService[w] = s THEN Cardinality(HoldersOf(inService, s)) - 1
                              ELSE Cardinality(HoldersOf(inService, s))
    <3>1. inService \in [Workers -> Slots \union {NoSlot}]
      BY DEF PoolTypes
    <3>2. Cardinality(HoldersOf([inService EXCEPT ![w] = NoSlot], s)) =
             IF inService[w] = s THEN Cardinality(HoldersOf(inService, s)) - 1
                                 ELSE Cardinality(HoldersOf(inService, s))
      BY <3>1, HoldersFinish
    <3>3. QED
      BY <2>1, <3>2
  <2>3. CASE inService[w] # s
    <3>1. armed'[s] = armed[s]
      BY <2>1, <2>3 DEF Modfd, ConnTypes
    <3>2. Parts(s)' = Parts(s)
      BY <2>1, <2>2, <2>3, <3>1 DEF Parts, Watch, EventsFor, PlacesOf
    <3>3. QED
      BY <1>2, <2>1, <3>2
  <2>4. CASE inService[w] = s
    <3>1. armed[s] = "off" /\ armed'[s] # "off"
      BY <2>1, <2>4, OwnerAlone DEF Busy, InHand, Modfd, ConnTypes, Open
    <3>2. Watch(armed, s) = 0 /\ Watch(armed', s) = 1
      BY <3>1 DEF Watch
    <3>3. Parts(s)' = Parts(s)
      BY <1>a, <1>b, <2>1, <2>2, <2>4, <3>2
    <3>4. QED
      BY <1>2, <2>1, <3>3
  <2>5. QED
    BY <2>3, <2>4
<1>16. CASE ReadSignals
  <2>1. Signal.at # s
    BY SlotsAssumption DEF Signal
  <2>2. EventsFor(batch', s) = EventsFor(batch, s)
    BY <1>5, <1>16, <2>1 DEF ReadSignals
  <2>3. QED
    BY <1>3, <1>4, <1>16, <2>2 DEF ReadSignals, connVars, poolVars, history, Open
<1>17. CASE UNCHANGED <<conn, armed, batch, queue, inService, stale, parked>>
  BY <1>3, <1>4, <1>17 DEF Open
<1>18. ASSUME \/ EndLoop \/ TickEnd \/ AlarmRings \/ Terminate \/ Clock
              \/ \E w \in Workers : Parse(w) \/ Respond(w)
       PROVE  UNCHANGED <<conn, armed, batch, queue, inService, stale, parked>>
  BY <1>18 DEF EndLoop, TickEnd, AlarmRings, Terminate, Clock, Parse, Respond, connVars, loopVars,
     poolVars, history
<1>19. QED
  BY <1>8, <1>9, <1>10, <1>11, <1>12, <1>13, <1>14, <1>15, <1>16, <1>17, <1>18
     DEF Next, MainStep, process, vars, connVars, loopVars, poolVars, history

\* A slot has one task at most until it is accepted into while it has one.
LEMMA TaskStep == IInv /\ [Next]_vars => TaskInv'
<1> SUFFICES ASSUME IInv, [Next]_vars PROVE TaskInv'
  OBVIOUS
<1> USE TypeGroups DEF IInv
<1>1. queue \in Seq(Slots) /\ inService \in [Workers -> Slots \union {NoSlot}]
  BY DEF PoolTypes
<1>2. SUFFICES ASSUME NEW s \in Slots, s \notin stale'
               PROVE  Cardinality(PlacesOf(queue', s)) + Cardinality(HoldersOf(inService', s)) <= 1
  BY DEF TaskInv, PlacesOf, HoldersOf
<1>3. /\ Cardinality(PlacesOf(queue, s)) \in Nat
      /\ Cardinality(HoldersOf(inService, s)) \in Nat
      /\ s \notin stale =>
           Cardinality(PlacesOf(queue, s)) + Cardinality(HoldersOf(inService, s)) <= 1
  BY PartsTypes DEF TaskInv
<1>4. CASE UNCHANGED <<queue, inService, stale>>
  BY <1>2, <1>3, <1>4
<1>5. CASE Accept
  <2>1. UNCHANGED <<queue, inService>>
    BY <1>5 DEF Accept, poolVars
  <2>2. s \notin stale \/ ~Busy(s)
    BY <1>2, <1>5 DEF Accept
  <2>3. ~Busy(s) => Cardinality(PlacesOf(queue, s)) = 0 /\ Cardinality(HoldersOf(inService, s)) = 0
    BY PartsTypes DEF Busy
  <2>4. QED
    BY <1>3, <2>1, <2>2, <2>3
<1>6. ASSUME NEW r \in Slots, ReadOk(r)
      PROVE  Cardinality(PlacesOf(queue', s)) + Cardinality(HoldersOf(inService', s)) <= 1
  <2>1. UNCHANGED <<inService, stale>> /\ (queue' = queue \/ queue' = Append(queue, r))
    BY <1>6 DEF ReadOk, Pool!Submit, poolVars
  <2>2. CASE queue' = queue
    BY <1>4, <2>1, <2>2
  <2>3. CASE queue' = Append(queue, r) /\ r # s
    BY <1>1, <1>2, <1>3, <2>1, <2>3, PlacesAppend
  <2>4. CASE queue' = Append(queue, r) /\ r = s
    <3>1. \E e \in batch : e.at = s
      BY <1>6, <2>4 DEF ReadOk, Handle, Event
    <3>2. s \in Open \ stale
      BY <1>2, <1>6, <2>1, <3>1, EventOpen DEF ReadOk, Handle
    <3>3. ~Busy(s)
      BY <3>1, <3>2, OwnerAlone
    <3>4. Cardinality(PlacesOf(queue, s)) = 0 /\ Cardinality(HoldersOf(inService, s)) = 0
      BY <3>3, PartsTypes DEF Busy
    <3>5. Cardinality(PlacesOf(queue', s)) = 1
      BY <1>1, <2>4, <3>4, PlacesAppend
    <3>6. QED
      BY <2>1, <3>4, <3>5
  <2>5. QED
    BY <2>1, <2>2, <2>3, <2>4
<1>7. ASSUME NEW w \in Workers, Take(w)
      PROVE  Cardinality(PlacesOf(queue', s)) + Cardinality(HoldersOf(inService', s)) <= 1
  <2>1. /\ queue # <<>> /\ queue' = Tail(queue) /\ inService[w] = NoSlot
        /\ inService' = [inService EXCEPT ![w] = Head(queue)] /\ UNCHANGED stale
    BY <1>7 DEF Take, Pool!Take, history
  <2>2. Head(queue) \in Slots
    BY <1>1, <2>1
  <2>3. Cardinality(PlacesOf(queue', s)) =
          IF Head(queue) = s THEN Cardinality(PlacesOf(queue, s)) - 1
                             ELSE Cardinality(PlacesOf(queue, s))
    BY <1>1, <2>1, PlacesTail
  <2>4. Cardinality(HoldersOf(inService', s)) =
          IF Head(queue) = s THEN Cardinality(HoldersOf(inService, s)) + 1
                             ELSE Cardinality(HoldersOf(inService, s))
    <3>1. /\ Head(queue) = s => Cardinality(HoldersOf([inService EXCEPT ![w] = Head(queue)], s))
                                  = Cardinality(HoldersOf(inService, s)) + 1
          /\ Head(queue) # s => Cardinality(HoldersOf([inService EXCEPT ![w] = Head(queue)], s))
                                  = Cardinality(HoldersOf(inService, s))
      <4>1. inService[w] = NoSlot /\ inService \in [Workers -> Slots \union {NoSlot}]
        BY <1>1, <2>1
      <4>2. QED
        BY <2>2, <4>1, HoldersTake
    <3>2. QED
      BY <2>1, <3>1
  <2>5. QED
    BY <1>2, <1>3, <2>1, <2>3, <2>4
<1>8. ASSUME NEW w \in Workers, Rearm(w)
      PROVE  Cardinality(PlacesOf(queue', s)) + Cardinality(HoldersOf(inService', s)) <= 1
  <2>1. inService' = [inService EXCEPT ![w] = NoSlot] /\ UNCHANGED <<queue, stale>>
    BY <1>8 DEF Rearm, Pool!Finish, history
  <2>2. Cardinality(HoldersOf(inService', s)) =
          IF inService[w] = s THEN Cardinality(HoldersOf(inService, s)) - 1
                              ELSE Cardinality(HoldersOf(inService, s))
    <3>1. Cardinality(HoldersOf([inService EXCEPT ![w] = NoSlot], s)) =
             IF inService[w] = s THEN Cardinality(HoldersOf(inService, s)) - 1
                                 ELSE Cardinality(HoldersOf(inService, s))
      BY <1>1, HoldersFinish
    <3>2. QED
      BY <2>1, <3>1
  <2>3. QED
    BY <1>2, <1>3, <2>1, <2>2
<1>9. ASSUME \/ EpollWait \/ ReadSignals \/ EndLoop \/ TickEnd \/ AlarmRings \/ Terminate \/ Clock
             \/ \E r \in Slots : Hangup(r) \/ ReadFails(r) \/ WriteOk(r) \/ WriteCloses(r)
             \/ \E t \in Conns : TickFire(t)
             \/ \E w \in Workers : Parse(w) \/ Respond(w)
      PROVE  UNCHANGED <<queue, inService, stale>>
  BY <1>9 DEF EpollWait, ReadSignals, EndLoop, TickEnd, AlarmRings, Terminate, Clock, Hangup,
     ReadFails, WriteOk, WriteCloses, TickFire, Parse, Respond, poolVars, history
<1>10. QED
  BY <1>4, <1>5, <1>6, <1>7, <1>8, <1>9 DEF Next, MainStep, process, vars, poolVars, history

-------------------------------------------------------------------------------
\* The buffers and the request of a connection's worker hold its own bytes.
LEMMA BytesStep == IInv /\ [Next]_vars => OwnBytes'
<1> SUFFICES ASSUME IInv, [Next]_vars PROVE OwnBytes'
  OBVIOUS
<1> USE TypeGroups DEF IInv, ConnTypes, PoolTypes
<1> DEFINE Own(s) == /\ rbuf[s] \union wbuf[s] \subseteq {conn[s]}
                     /\ \A w \in Workers : inService[w] = s => parsed[w] \subseteq {conn[s]}
<1>1. \A s \in Open \ stale : Own(s)
  BY DEF OwnBytes
<1>2. SUFFICES ASSUME NEW s \in Slots, conn'[s] # NoConn, s \notin stale' PROVE Own(s)'
  BY DEF OwnBytes, Open
<1>3. ASSUME s \in Open \ stale, conn'[s] = conn[s], rbuf'[s] = rbuf[s], wbuf'[s] = wbuf[s],
             UNCHANGED <<inService, parsed>>
      PROVE  Own(s)'
  BY <1>1, <1>3
<1>4. CASE Accept
  <2>1. UNCHANGED <<inService, parsed>>
    BY <1>4 DEF Accept, poolVars, workVars
  <2>2. CASE UNCHANGED <<connVars, stale>>
    BY <1>2, <1>3, <2>1, <2>2 DEF connVars, Open
  <2>3. ASSUME NEW r \in Slots \ Open, InitConn(r, accepted + 1),
               stale' = IF Busy(r) THEN stale \union {r} ELSE stale \ {r}
        PROVE  Own(s)'
    <3>1. CASE s # r
      <4>1. s \in Open \ stale /\ conn'[s] = conn[s] /\ rbuf'[s] = rbuf[s] /\ wbuf'[s] = wbuf[s]
        BY <1>2, <2>3, <3>1 DEF InitConn, ClearBuffers, Open
      <4>2. QED
        BY <1>3, <2>1, <4>1
    <3>2. CASE s = r
      <4>1. rbuf'[s] = {} /\ wbuf'[s] = {}
        BY <2>3, <3>2 DEF InitConn, ClearBuffers
      <4>2. \A w \in Workers : inService'[w] # s
        BY <1>2, <2>1, <2>3, <3>2 DEF Busy, InHand
      <4>3. QED
        BY <4>1, <4>2
    <3>3. QED
      BY <3>1, <3>2
  <2>4. QED
    BY <1>4, <2>2, <2>3 DEF Accept
<1>5. ASSUME NEW r \in Slots, CloseConn(r),
             UNCHANGED <<rbuf, wbuf, inService, parsed, stale>>
      PROVE  Own(s)'
  <2>1. s # r /\ s \in Open \ stale /\ conn'[s] = conn[s]
    BY <1>2, <1>5 DEF CloseConn, Open
  <2>2. QED
    BY <1>3, <1>5, <2>1
<1>6. ASSUME NEW r \in Slots, Hangup(r) \/ ReadFails(r) \/ WriteCloses(r) PROVE Own(s)'
  BY <1>5, <1>6
     DEF Hangup, ReadFails, CloseAndDelete, WriteCloses, poolVars, workVars, history
<1>7. ASSUME NEW t \in Conns, TickFire(t) PROVE Own(s)'
  BY <1>5, <1>7 DEF TickFire, Heap!Fire, NumbersInv, poolVars, workVars, history
<1>8. ASSUME NEW r \in Slots, ReadOk(r) PROVE Own(s)'
  <2>1. s \in Open \ stale /\ UNCHANGED <<conn, wbuf, inService, parsed>>
    BY <1>2, <1>8 DEF ReadOk, Pool!Submit, poolVars, workVars, Open
  <2>2. rbuf'[s] = rbuf[s] \/ rbuf'[s] = rbuf[s] \union {conn[s]}
    BY <1>8 DEF ReadOk, RecvAll
  <2>3. QED
    BY <1>1, <2>1, <2>2
<1>9. ASSUME NEW r \in Slots, WriteOk(r) PROVE Own(s)'
  <2>1. s \in Open \ stale /\ UNCHANGED <<conn, inService, parsed>>
    BY <1>2, <1>9 DEF WriteOk, poolVars, workVars, history, Open
  <2>2. /\ rbuf'[s] = rbuf[s] \/ rbuf'[s] = {}
        /\ wbuf'[s] = wbuf[s] \/ wbuf'[s] = {}
    BY <1>9 DEF WriteOk, ClearBuffers
  <2>3. QED
    BY <1>1, <2>1, <2>2
<1>10. ASSUME NEW w \in Workers, process(w) PROVE Own(s)'
  <2>1. s \in Open \ stale /\ UNCHANGED <<conn, rbuf>>
    BY <1>2, <1>10 DEF process, Take, Parse, Respond, Rearm, connVars, history, Open
  <2>2. CASE Take(w)
    <3>1. /\ UNCHANGED <<wbuf, parsed>> /\ parsed[w] = {}
          /\ \A v \in Workers \ {w} : inService'[v] = inService[v]
      BY <2>2 DEF Take, At, Pool!Take, ProcessInv, connVars
    <3>2. QED
      BY <1>1, <2>1, <3>1
  <2>3. CASE Parse(w)
    <3>1. UNCHANGED <<wbuf, inService>>
      BY <2>3 DEF Parse, poolVars
    <3>2. \A v \in Workers : parsed'[v] = parsed[v] \/ (v = w /\ parsed'[v] = rbuf[inService[w]])
      BY <2>3 DEF Parse
    <3>3. QED
      BY <1>1, <2>1, <3>1, <3>2
  <2>4. CASE Respond(w)
    <3>1. /\ UNCHANGED inService
          /\ \A v \in Workers : parsed'[v] \subseteq parsed[v]
      BY <2>4 DEF Respond, poolVars
    <3>2. wbuf'[s] = wbuf[s] \/ (inService[w] = s /\ wbuf'[s] = wbuf[s] \union parsed[w])
      BY <2>4 DEF Respond
    <3>3. QED
      BY <1>1, <2>1, <3>1, <3>2
  <2>5. CASE Rearm(w)
    <3>1. /\ UNCHANGED <<wbuf, parsed>>
          /\ \A v \in Workers : inService'[v] = s => inService[v] = s
      BY <2>5, SlotsAssumption DEF Rearm, Pool!Finish
    <3>2. QED
      BY <1>1, <2>1, <3>1
  <2>6. QED
    BY <1>10, <2>2, <2>3, <2>4, <2>5 DEF process
<1>11. CASE UNCHANGED <<conn, rbuf, wbuf, inService, parsed, stale>>
  BY <1>2, <1>3, <1>11 DEF Open
<1>12. ASSUME EpollWait \/ ReadSignals \/ EndLoop \/ TickEnd \/ AlarmRings \/ Terminate \/ Clock
       PROVE  UNCHANGED <<conn, rbuf, wbuf, inService, parsed, stale>>
  BY <1>12 DEF EpollWait, ReadSignals, EndLoop, TickEnd, AlarmRings, Terminate, Clock, connVars,
     poolVars, workVars, history
<1>13. QED
  BY <1>4, <1>6, <1>7, <1>8, <1>9, <1>10, <1>11, <1>12
     DEF Next, MainStep, vars, connVars, poolVars, workVars, history

\* Only a tick closes a connection that the pool is working on: an event for it would be a
\* second claim.
LEMMA ClosingStep ==
    IInv /\ Next => \A s \in Open \ stale : Busy(s) /\ conn'[s] = NoConn => ticking
<1> SUFFICES ASSUME IInv, Next, NEW s \in Open \ stale, Busy(s), conn'[s] = NoConn, ~ticking
             PROVE  FALSE
  OBVIOUS
<1> USE TypeGroups, SlotsAssumption DEF IInv, ConnTypes, Open
<1>1. \A e \in batch : e.at # s
  BY OwnerAlone
<1>2. CASE Accept
  <2>1. accepted + 1 # NoConn
    BY <1>2 DEF Accept, AcceptTypes, NoConn
  <2>2. QED
    BY <1>2, <2>1 DEF Accept, InitConn, connVars
<1>3. ASSUME NEW r \in Slots, Hangup(r) \/ ReadFails(r) \/ WriteCloses(r) PROVE FALSE
  <2>1. CloseConn(r) /\ \E e \in batch : e.at = r
    BY <1>3 DEF Hangup, ReadFails, CloseAndDelete, WriteCloses, Handle, Event
  <2>2. r = s
    BY <2>1 DEF CloseConn
  <2>3. QED
    BY <1>1, <2>1, <2>2
<1>4. ASSUME NEW t \in Conns, TickFire(t) PROVE FALSE
  BY <1>4 DEF TickFire, Heap!Fire
<1>5. ASSUME \/ EpollWait \/ ReadSignals \/ EndLoop \/ TickEnd \/ AlarmRings \/ Terminate \/ Clock
             \/ \E r \in Slots : ReadOk(r) \/ WriteOk(r)
             \/ \E w \in Workers : process(w)
      PROVE  UNCHANGED conn
  BY <1>5 DEF EpollWait, ReadSignals, EndLoop, TickEnd, AlarmRings, Terminate, Clock, ReadOk,
     WriteOk, process, Take, Parse, Respond, Rearm, connVars
<1>6. QED
  BY <1>2, <1>3, <1>4, <1>5 DEF Next, MainStep

-------------------------------------------------------------------------------
\* The inductive invariant holds in every reachable state.
THEOREM IInvHolds == Spec => []IInv
<1>1. IInv /\ [Next]_vars => IInv'
  BY TypeStep, LoopStep, BatchStep, ProcessStep, NumbersStep, CountStep, EventsLiveStep, OwnerStep,
     TaskStep, BytesStep, TimersMatchStep, AlarmStep DEF IInv
<1>2. QED
  BY <1>1, InitIInv, PTL DEF Spec

\* Every variable of the event loop keeps its type, whatever the number of slots, workers,
\* connections and signals.
THEOREM TypeCorrect == Spec => []TypeOK
BY IInvHolds, PTL DEF IInv

\* m_user_count is the number of open connections, although close_conn() can come twice.
THEOREM CountedExactly == Spec => []CountExact
BY IInvHolds, PTL DEF IInv

\* No handler meets an event or a timer of a connection that is gone.
THEOREM NoStaleEvents == Spec => []EventsLive
BY IInvHolds, PTL DEF IInv

\* EPOLLONESHOT gives each open connection one owner, unless its slot was taken over from a
\* task that was still around.
THEOREM OwnedOnce == Spec => []OneOwner
BY IInvHolds, PTL DEF IInv

\* No byte of one connection reaches another, under the same proviso.
THEOREM BytesKeptApart == Spec => []OwnBytes
BY IInvHolds, PTL DEF IInv

\* Only a response that ends its connection leaves a timer behind, and until one does the
\* heap cannot overflow.
THEOREM TimersKept == Spec => []TimersMatch
BY IInvHolds, PTL DEF IInv

\* The chain of alarms neither breaks nor forks.
THEOREM AlarmKept == Spec => []OneAlarm
BY IInvHolds, PTL DEF IInv

\* Two workers are inside one HttpConn only after a takeover of its slot.
THEOREM WorkersApart == Spec => []OneWorkerUnlessStale
<1>1. ASSUME IInv, NEW w \in Workers, NEW v \in Workers, w # v, inService[w] = inService[v],
             inService[w] # NoSlot
      PROVE  inService[w] \in stale
  <2>1. SUFFICES ASSUME inService[w] \notin stale PROVE FALSE
    OBVIOUS
  <2> DEFINE s == inService[w]
  <2>2. s \in Slots
    BY <1>1 DEF IInv, TypeOK
  <2>3. /\ Cardinality(PlacesOf(queue, s)) \in Nat /\ Cardinality(HoldersOf(inService, s)) \in Nat
        /\ Cardinality(PlacesOf(queue, s)) + Cardinality(HoldersOf(inService, s)) <= 1
    BY <1>1, <2>1, <2>2, PartsTypes DEF IInv, TaskInv
  <2>4. w \in HoldersOf(inService, s) /\ v \in HoldersOf(inService, s)
    BY <1>1 DEF HoldersOf
  <2>5. IsFiniteSet(HoldersOf(inService, s))
    BY <2>2, HoldersFinite
  <2>6. Cardinality(HoldersOf(inService, s)) # 0 /\ Cardinality(HoldersOf(inService, s)) # 1
    BY <1>1, <2>4, <2>5, FS_EmptySet, FS_Singleton
  <2>7. QED
    BY <2>3, <2>6
<1>2. IInv => OneWorkerUnlessStale
  BY <1>1 DEF OneWorkerUnlessStale
<1>3. QED
  BY <1>2, IInvHolds, PTL

\* Main closes no connection that the pool is working on, but for a tick.
THEOREM BusyKept == Spec => OnlyTickClosesBusy
<1>1. IInv /\ [Next]_vars =>
        [\A s \in Open \ stale : Busy(s) /\ conn'[s] = NoConn => ticking]_vars
  BY ClosingStep
<1>2. QED
  BY <1>1, IInvHolds, PTL DEF Spec, OnlyTickClosesBusy
===============================================================================
