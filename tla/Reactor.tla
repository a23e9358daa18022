-------------------------------- MODULE Reactor -------------------------------
(***************************************************************************)
(* The event loop of main.cpp over the connections of http/httpConn.cpp:   *)
(* one thread waits for events, accepts, reads, writes and times out; the  *)
(* workers of the pool parse requests, build responses and re-arm the      *)
(* connection with EPOLLONESHOT.  The pool is used through the steps of    *)
(* RequestQueue and the timers through those of TimerSet, which ThreadPool *)
(* and TimerHeap implement.                                                *)
(*                                                                         *)
(* A slot is an index of the array users, which is also the fd of the      *)
(* connection in it.  Connections are numbered in the order of accept();   *)
(* connection c is given timer c.  Of a buffer the model keeps whose bytes *)
(* are in it.  What a client does is the choice of the events epoll_wait() *)
(* returns and of the results of recv() and writev().                      *)
(***************************************************************************)
EXTENDS Integers, Sequences, FiniteSets

CONSTANTS Slots,        \* the fds that accept() can return and users has room for
          NoSlot,
          Workers,
          MaxRequests,  \* m_max_requests
          TIMESLOT,
          HeapCapacity, \* how many timers the heap has room for
          PipeRoom,     \* how many bytes the self-pipe holds
          MaxTerms,     \* bound on the number of SIGTERMs
          MaxConns,     \* bound on the number of calls of accept()
          MaxClock      \* bound on the clock

ASSUME SlotsAssumption == IsFiniteSet(Slots) /\ NoSlot \notin Slots
ASSUME WorkersAssumption == IsFiniteSet(Workers)
ASSUME NumbersAssumption ==
    /\ MaxRequests \in Nat \ {0} /\ TIMESLOT \in Nat \ {0}
    /\ PipeRoom \in Nat \ {0} /\ MaxTerms \in Nat
    /\ HeapCapacity \in Nat /\ MaxConns \in Nat /\ MaxClock \in Nat
\* The heap has room for as many timers as users has slots (MAX_HEAP_SIZE and MAX_FD).
ASSUME RoomAssumption == Cardinality(Slots) <= HeapCapacity

Conns == 1..MaxConns
NoConn == 0

VARIABLES conn,         \* the connection in each slot, NoConn iff m_sockfd is -1
          m_user_count,
          armed,        \* what epoll watches a slot for, "off" if nothing
          rbuf, wbuf,   \* whose bytes are in m_read_buf and m_write_buf
          keep,         \* m_keepAlive
          accepted,     \* number of calls of accept() so far
          slot,         \* user_data of each timer
          timer,        \* users[slot].timer
          looping,      \* main is inside the loop over events[]
          batch,        \* the events of epoll_wait() not handled yet
          alarmAt,      \* when alarm() rings, NoAlarm if it is not set
          signalled,    \* the self-pipe holds a SIGALRM
          terms,        \* how many SIGTERMs it holds
          killed,       \* number of SIGTERMs so far
          timeout, stop_server,   \* locals of main()
          queue,        \* m_workQueue of the pool
          inService,    \* the slot whose process() each worker runs
          stage,        \* how far each worker is in process()
          parsed,       \* whose bytes the request of each worker was parsed from
          timers, expire, now, ticking, broken,   \* see TimerSet
          stale,        \* history: slots accepted into while an old task was around
          parked,       \* history: slots whose request append() refused
          orphans,      \* history: connections closed without del_timer()
          alarmLost     \* history: a SIGALRM did not fit into the self-pipe

connVars == <<conn, m_user_count, armed, rbuf, wbuf, keep>>
signalVars == <<alarmAt, signalled, terms, killed, timeout, stop_server>>
loopVars == <<looping, batch, signalVars>>
poolVars == <<queue, inService>>
workVars == <<stage, parsed>>
timerVars == <<timers, expire, now, ticking, broken>>
acceptVars == <<accepted, slot, timer>>
history == <<stale, parked, orphans, alarmLost>>
vars == <<connVars, loopVars, poolVars, workVars, timerVars, acceptVars, history>>

Pool == INSTANCE RequestQueue WITH
    Requests <- Slots, NoRequest <- NoSlot, pending <- queue
Heap == INSTANCE TimerSet WITH
    Timers <- Conns, Capacity <- HeapCapacity, Deadlines <- 0..(MaxClock + 3 * TIMESLOT)

NoAlarm == -1
Listen == [kind |-> "listen", at |-> NoSlot]
Signal == [kind |-> "signal", at |-> NoSlot]
Event(kind, s) == [kind |-> kind, at |-> s]

Init ==
    /\ conn = [s \in Slots |-> NoConn]
    /\ m_user_count = 0
    /\ armed = [s \in Slots |-> "off"]
    /\ rbuf = [s \in Slots |-> {}] /\ wbuf = [s \in Slots |-> {}]
    /\ keep = [s \in Slots |-> FALSE]
    /\ accepted = 0
    /\ slot = [c \in Conns |-> NoSlot] /\ timer = [s \in Slots |-> NoConn]
    /\ looping = FALSE /\ batch = {}
    /\ alarmAt = TIMESLOT /\ signalled = FALSE /\ terms = 0 /\ killed = 0
    /\ timeout = FALSE /\ stop_server = FALSE
    /\ Pool!Init
    /\ stage = [w \in Workers |-> "idle"] /\ parsed = [w \in Workers |-> {}]
    /\ Heap!Init
    /\ stale = {} /\ parked = {} /\ orphans = {} /\ alarmLost = FALSE

\* The tasks of the pool for a slot: queued or in a worker's hands.
Queued(s) == \E i \in 1..Len(queue) : queue[i] = s
InHand(s) == \E w \in Workers : inService[w] = s
Busy(s) == Queued(s) \/ InHand(s)

Open == {s \in Slots : conn[s] # NoConn}

-------------------------------------------------------------------------------
(* Parts of HttpConn that several handlers call *)

\* Slip: the read side is reset and m_write_idx is not.
ClearReadBuffer(s) ==
    /\ rbuf' = [rbuf EXCEPT ![s] = {}]
    /\ keep' = [keep EXCEPT ![s] = FALSE]
    /\ UNCHANGED wbuf

\* init() without parameters: the state of a request and both buffers are cleared.
ClearBuffers(s) ==
    /\ rbuf' = [rbuf EXCEPT ![s] = {}]
    /\ wbuf' = [wbuf EXCEPT ![s] = {}]
    /\ keep' = [keep EXCEPT ![s] = FALSE]

\* addfd() and removefd(): with EPOLLONESHOT, for input, and not at all.
addfd(s) == armed' = [armed EXCEPT ![s] = "in"]
removefd(s) == armed' = [armed EXCEPT ![s] = "off"]

\* init(sockfd, addr): the slot is registered with epoll and counted.
InitConn(s, c) ==
    /\ conn' = [conn EXCEPT ![s] = c]
    /\ m_user_count' = m_user_count + 1
    /\ addfd(s)
    /\ ClearBuffers(s)

\* read(): everything the socket holds joins the read buffer.
RecvAll(s) == rbuf' = [rbuf EXCEPT ![s] = @ \union {conn[s]}]

\* Slip: the guard m_sockfd != -1 is dropped.
CloseConnUnguarded(s) ==
    /\ conn' = [conn EXCEPT ![s] = NoConn]
    /\ removefd(s)
    /\ m_user_count' = m_user_count - 1

\* Slip: close() without EPOLL_CTL_DEL, counting on the kernel to drop the fd.
CloseConnLeavesArmed(s) ==
    /\ conn' = [conn EXCEPT ![s] = NoConn]
    /\ m_user_count' = IF conn[s] # NoConn THEN m_user_count - 1 ELSE m_user_count
    /\ UNCHANGED armed

\* close_conn(): nothing happens to a slot that is already closed.
CloseConn(s) ==
    /\ conn' = [conn EXCEPT ![s] = NoConn]
    /\ removefd(s)
    /\ m_user_count' = IF conn[s] # NoConn THEN m_user_count - 1 ELSE m_user_count

\* modfd(): no effect on a slot whose m_sockfd is -1.
Modfd(s, ev) == armed' = IF conn[s] # NoConn THEN [armed EXCEPT ![s] = ev] ELSE armed

-------------------------------------------------------------------------------
(* main: waiting, and the events of the listening socket and of the self-pipe *)

\* What the kernel can report for a slot that is armed: data or room in the socket, or
\* the peer is gone.
Ready(s) == IF armed[s] = "off" THEN {} ELSE {Event(armed[s], s), Event("hup", s)}

\* Slip: the slots are registered without EPOLLONESHOT and stay armed.
EpollWaitLevel ==
    /\ ~broken /\ ~ticking /\ ~looping
    /\ batch' \in SUBSET ((UNION {Ready(s) : s \in Slots}) \union
                           (IF accepted < MaxConns THEN {Listen} ELSE {}))
    /\ batch' # {}
    /\ \A e, f \in batch' : e # f => e.at # f.at \/ e.at = NoSlot
    /\ looping' = TRUE
    /\ UNCHANGED <<connVars, signalVars, poolVars, workVars, timerVars,
                   acceptVars, history>>

SignalPending == signalled \/ terms > 0

\* epoll_wait() returns some events, at most one for each descriptor; EPOLLONESHOT
\* disarms the slots it returns.  A byte in the self-pipe is always reported.
EpollWait ==
    /\ ~broken /\ ~ticking /\ ~looping
    /\ batch' \in SUBSET ((UNION {Ready(s) : s \in Slots})
                            \union (IF accepted < MaxConns THEN {Listen} ELSE {})
                            \union (IF SignalPending THEN {Signal} ELSE {}))
    /\ batch' # {}
    /\ \A e, f \in batch' : e # f => e.at # f.at \/ e.at = NoSlot
    /\ SignalPending => Signal \in batch'
    /\ armed' = [s \in Slots |-> IF \E e \in batch' : e.at = s THEN "off" ELSE armed[s]]
    /\ looping' = TRUE
    /\ UNCHANGED <<conn, m_user_count, rbuf, wbuf, keep, signalVars,
                   poolVars, workVars, timerVars, acceptVars, history>>

Handle(e) ==
    /\ ~broken /\ looping
    /\ e \in batch
    /\ batch' = batch \ {e}
    /\ UNCHANGED looping

\* accept() into a free slot, init() and a timer.  The test of m_user_count against
\* MAX_FD (main.cpp:203) never holds: descriptors below MAX_FD are used up before that
\* many connections are open.  accept() may fail, and when there is no descriptor left
\* for users it does or returns one past the end: users[connfd] leaves the array.
Accept ==
    /\ Handle(Listen)
    /\ accepted < MaxConns
    /\ accepted' = accepted + 1
    /\ \/ \E s \in Slots \ Open :
            /\ InitConn(s, accepted + 1)
            /\ slot' = [slot EXCEPT ![accepted + 1] = s]
            /\ timer' = [timer EXCEPT ![s] = accepted + 1]
            /\ Heap!Add(accepted + 1, now + 3 * TIMESLOT)
            /\ stale' = IF Busy(s) THEN stale \union {s} ELSE stale \ {s}
            /\ parked' = parked \ {s}
       \/ /\ broken' = TRUE
          /\ UNCHANGED <<connVars, slot, timer, timers, expire, now, ticking, stale, parked>>
    /\ UNCHANGED <<signalVars, poolVars, workVars, orphans, alarmLost>>

\* The handler of a signal writes a byte to the self-pipe, which is non-blocking: without
\* room the byte is lost.
PipeFull == terms + (IF signalled THEN 1 ELSE 0) >= PipeRoom

AlarmRings ==
    /\ ~broken
    /\ alarmAt # NoAlarm /\ alarmAt <= now
    /\ alarmAt' = NoAlarm
    /\ IF PipeFull THEN alarmLost' = TRUE /\ UNCHANGED signalled
                   ELSE signalled' = TRUE /\ UNCHANGED alarmLost
    /\ UNCHANGED <<connVars, looping, batch, terms, killed, timeout, stop_server, poolVars,
                   workVars, timerVars, acceptVars, stale, parked, orphans>>

Terminate ==
    /\ ~broken
    /\ killed < MaxTerms
    /\ killed' = killed + 1
    /\ terms' = IF PipeFull THEN terms ELSE terms + 1
    /\ UNCHANGED <<connVars, looping, batch, alarmAt, signalled, timeout, stop_server, poolVars,
                   workVars, timerVars, acceptVars, history>>

\* Slip: only one byte of what recv() returned is looked at.
ReadSignalsOneByte ==
    /\ Handle(Signal)
    /\ signalled' = FALSE /\ terms' = 0
    /\ timeout' = (timeout \/ (signalled /\ terms = 0))
    /\ stop_server' = (stop_server \/ terms > 0)
    /\ UNCHANGED <<connVars, alarmAt, killed, poolVars, workVars, timerVars, acceptVars, history>>

\* recv() empties the self-pipe, which holds fewer signals than the 1024 bytes that it
\* asks for (PipeRoom is at most that).  stop_server is set and never looked at.
ReadSignals ==
    /\ Handle(Signal)
    /\ signalled' = FALSE /\ terms' = 0
    /\ timeout' = (timeout \/ signalled)
    /\ stop_server' = (stop_server \/ terms > 0)
    /\ UNCHANGED <<connVars, alarmAt, killed, poolVars, workVars, timerVars, acceptVars, history>>

\* The events are handled; a tick follows if a SIGALRM was among them.
EndLoop ==
    /\ ~broken /\ looping /\ batch = {}
    /\ looping' = FALSE
    /\ IF timeout THEN Heap!BeginTick ELSE UNCHANGED timerVars
    /\ UNCHANGED <<connVars, batch, signalVars, poolVars, workVars,
                   acceptVars, history>>

-------------------------------------------------------------------------------
(* main: the events of a connection *)

\* The peer is gone, or recv() fails, or returns 0: close and delete the timer.
CloseAndDelete(s) ==
    /\ CloseConn(s)
    /\ Heap!Del(timer[s])
    /\ UNCHANGED <<rbuf, wbuf, keep>>

\* Slip: del_timer() is left to the tick.
HangupKeepsTimer(s) ==
    /\ Handle(Event("hup", s))
    /\ CloseConn(s)
    /\ UNCHANGED <<rbuf, wbuf, keep, signalVars, poolVars, workVars,
                   timerVars, acceptVars, history>>

Hangup(s) ==
    /\ Handle(Event("hup", s))
    /\ CloseAndDelete(s)
    /\ UNCHANGED <<signalVars, poolVars, workVars, acceptVars, history>>

ReadFails(s) ==
    /\ Handle(Event("in", s))
    /\ CloseAndDelete(s)
    /\ UNCHANGED <<signalVars, poolVars, workVars, acceptVars, history>>

\* Slip: EPOLLIN is armed again at once, in case the request was incomplete.
ReadOkRearms(s) ==
    /\ Handle(Event("in", s))
    /\ RecvAll(s)
    /\ Pool!Submit(s)
    /\ Modfd(s, "in")
    /\ Heap!Adjust(timer[s], now + 2 * TIMESLOT)
    /\ UNCHANGED <<conn, m_user_count, wbuf, keep, signalVars, workVars,
                   acceptVars, history>>

\* Data is read, the slot is given to the pool and the timer is moved.  The result of
\* append() is not looked at: a refused slot stays disarmed.
ReadOk(s) ==
    /\ Handle(Event("in", s))
    /\ RecvAll(s)
    /\ \/ Pool!Submit(s) /\ UNCHANGED parked
       \/ Len(queue) > MaxRequests /\ parked' = parked \union {s} /\ UNCHANGED poolVars
    /\ Heap!Adjust(timer[s], now + 2 * TIMESLOT)
    /\ UNCHANGED <<conn, m_user_count, armed, wbuf, keep, signalVars,
                   workVars, acceptVars, stale, orphans, alarmLost>>

\* write() comes back true: with nothing to send or a response sent on a connection
\* that stays open the buffers are cleared and EPOLLIN is armed; when the socket is
\* full EPOLLOUT is armed again.
WriteOk(s) ==
    /\ Handle(Event("out", s))
    /\ \/ /\ wbuf[s] = {} \/ keep[s]
          /\ ClearBuffers(s)
          /\ Modfd(s, "in")
       \/ /\ wbuf[s] # {}
          /\ Modfd(s, "out")
          /\ UNCHANGED <<rbuf, wbuf, keep>>
    /\ UNCHANGED <<conn, m_user_count, signalVars, poolVars, workVars,
                   timerVars, acceptVars, history>>

\* write() comes back false, on an error or after a response that ends the connection:
\* the slot is closed and its timer stays set.
WriteCloses(s) ==
    /\ Handle(Event("out", s))
    /\ wbuf[s] # {}
    /\ CloseConn(s)
    /\ orphans' = orphans \union {conn[s]}
    /\ UNCHANGED <<rbuf, wbuf, keep, signalVars, poolVars, workVars,
                   timerVars, acceptVars, stale, parked, alarmLost>>

-------------------------------------------------------------------------------
(* main: the tick *)

\* cb_func() closes whatever connection is in the slot of the timer.
TickFire(t) ==
    /\ Heap!Fire(t)
    /\ CloseConn(slot[t])
    /\ UNCHANGED <<rbuf, wbuf, keep, loopVars, poolVars, workVars, acceptVars, history>>

\* Slip: the alarm is not set again, as if alarm() repeated itself.
TickEndForgetsAlarm ==
    /\ Heap!EndTick
    /\ timeout' = FALSE
    /\ UNCHANGED <<connVars, looping, batch, alarmAt, signalled, terms, killed, stop_server,
                   poolVars, workVars, acceptVars, history>>

\* tick() returns and the alarm is set again.
TickEnd ==
    /\ Heap!EndTick
    /\ timeout' = FALSE
    /\ alarmAt' = now + TIMESLOT
    /\ UNCHANGED <<connVars, looping, batch, signalled, terms, killed, stop_server, poolVars,
                   workVars, acceptVars, history>>

Clock ==
    /\ Heap!Clock
    /\ UNCHANGED <<connVars, loopVars, poolVars, workVars, acceptVars, history>>

-------------------------------------------------------------------------------
(* the workers: HttpConn::process() *)

At(w, from, to) == stage[w] = from /\ stage' = [stage EXCEPT ![w] = to]

Take(w) ==
    /\ ~broken
    /\ At(w, "idle", "parse")
    /\ Pool!Take(w)
    /\ UNCHANGED <<connVars, loopVars, parsed, timerVars, acceptVars, history>>

\* process_read(): the request may be incomplete, and is if nothing has been read.
Parse(w) ==
    LET s == inService[w] IN
    /\ ~broken
    /\ \/ At(w, "parse", "again") /\ UNCHANGED parsed
       \/ /\ At(w, "parse", "respond")
          /\ rbuf[s] # {}
          /\ parsed' = [parsed EXCEPT ![w] = rbuf[s]]
    /\ \E k \in {FALSE, rbuf[s] # {}} : keep' = [keep EXCEPT ![s] = @ \/ k]
    /\ UNCHANGED <<conn, m_user_count, armed, rbuf, wbuf, loopVars, poolVars, timerVars,
                   acceptVars, history>>

\* process_write(): the response joins what m_write_buf holds.  It is taken to fit, as it does
\* into an empty buffer; that it may not, behind one that another worker has left in a slot
\* taken over, and that the worker then closes the connection, is left out.
Respond(w) ==
    LET s == inService[w] IN
    /\ ~broken
    /\ At(w, "respond", "reply")
    /\ wbuf' = [wbuf EXCEPT ![s] = @ \union parsed[w]]
    /\ parsed' = [parsed EXCEPT ![w] = {}]
    /\ UNCHANGED <<conn, m_user_count, armed, rbuf, keep, loopVars, poolVars, timerVars,
                   acceptVars, history>>

\* Slip: process() returns early from an incomplete request.
RearmReplies(w) ==
    /\ ~broken
    /\ \/ At(w, "again", "idle") /\ UNCHANGED armed
       \/ At(w, "reply", "idle") /\ Modfd(inService[w], "out")
    /\ Pool!Finish(w)
    /\ UNCHANGED <<conn, m_user_count, rbuf, wbuf, keep, loopVars, parsed, timerVars,
                   acceptVars, history>>

\* modfd() and return to the pool.
Rearm(w) ==
    /\ ~broken
    /\ \/ At(w, "again", "idle") /\ Modfd(inService[w], "in")
       \/ At(w, "reply", "idle") /\ Modfd(inService[w], "out")
    /\ Pool!Finish(w)
    /\ UNCHANGED <<conn, m_user_count, rbuf, wbuf, keep, loopVars, parsed, timerVars,
                   acceptVars, history>>

-------------------------------------------------------------------------------
MainStep ==
    \/ EpollWait \/ Accept \/ ReadSignals \/ EndLoop \/ TickEnd
    \/ \E s \in Slots :
         Hangup(s) \/ ReadFails(s) \/ ReadOk(s) \/ WriteOk(s) \/ WriteCloses(s)
    \/ \E t \in Conns : TickFire(t)

process(w) == Take(w) \/ Parse(w) \/ Respond(w) \/ Rearm(w)

Next ==
    \/ MainStep
    \/ \E w \in Workers : process(w)
    \/ AlarmRings \/ Terminate
    \/ Clock

Spec == Init /\ [][Next]_vars

\* Time goes on, the kernel delivers signals and reports a readable self-pipe, main comes
\* to the end of what epoll_wait() returned and of a tick, and no worker is starved.
\* Nothing is assumed of clients: epoll_wait() may report nothing else forever.
Fairness ==
    /\ WF_vars(Clock) /\ WF_vars(AlarmRings)
    /\ WF_vars(SignalPending /\ EpollWait)
    /\ WF_vars((looping \/ ticking) /\ MainStep)
    /\ \A w \in Workers : WF_vars(process(w))

FairSpec == Spec /\ Fairness

-------------------------------------------------------------------------------
(* Properties *)

\* Every variable keeps its type; in particular the user count never goes negative.
TypeOK ==
    /\ conn \in [Slots -> Conns \union {NoConn}]
    /\ m_user_count \in Nat
    /\ armed \in [Slots -> {"off", "in", "out"}]
    /\ rbuf \in [Slots -> SUBSET Conns]
    /\ wbuf \in [Slots -> SUBSET Conns]
    /\ keep \in [Slots -> BOOLEAN]
    /\ accepted \in 0..MaxConns
    /\ slot \in [Conns -> Slots \union {NoSlot}]
    /\ timer \in [Slots -> Conns \union {NoConn}]
    /\ looping \in BOOLEAN /\ signalled \in BOOLEAN /\ timeout \in BOOLEAN /\ stop_server \in BOOLEAN
    /\ killed \in 0..MaxTerms /\ terms \in 0..PipeRoom
    /\ batch \subseteq {Listen, Signal} \union
         [kind : {"in", "out", "hup"}, at : Slots]
    /\ alarmAt \in Nat \union {NoAlarm}
    /\ queue \in Seq(Slots)
    /\ inService \in [Workers -> Slots \union {NoSlot}]
    /\ stage \in [Workers -> {"idle", "parse", "respond", "again", "reply"}]
    /\ parsed \in [Workers -> SUBSET Conns]
    /\ timers \subseteq Conns
    /\ expire \in [Conns -> 0..(MaxClock + 3 * TIMESLOT)]
    /\ now \in 0..MaxClock
    /\ ticking \in BOOLEAN /\ broken \in BOOLEAN
    /\ stale \subseteq Slots /\ parked \subseteq Slots /\ orphans \subseteq Conns
    /\ alarmLost \in BOOLEAN

\* m_user_count is the number of open connections, although a slot can be closed twice:
\* by write() and again by the timer that write() left behind.
CountExact == m_user_count = Cardinality(Open)

\* Every open connection has its own timer set, the one users[slot].timer points to,
\* so no handler ever moves or deletes a timer that is gone; and an event in hand is
\* always for an open connection, whatever was closed since epoll_wait() returned it.
EventsLive == ~broken =>
    /\ \A s \in Open : timer[s] = conn[s] /\ timer[s] \in timers /\ slot[conn[s]] = s
    /\ \A s \in Slots \ Open : armed[s] = "off" /\ \A e \in batch : e.at # s

\* Who may act on an open connection next: epoll, main with an event, or the pool.
Claims(s) ==
    (IF armed[s] = "off" THEN 0 ELSE 1)
    + Cardinality({e \in batch : e.at = s})
    + Cardinality({i \in 1..Len(queue) : queue[i] = s})
    + Cardinality({w \in Workers : inService[w] = s})

\* EPOLLONESHOT passes a connection from hand to hand: exactly one of epoll, main and
\* the pool has it -- none for good once append() has refused it -- as long as the
\* slot was not taken over from a connection whose task was still around.
OneOwner == \A s \in Open \ stale : Claims(s) = IF s \in parked THEN 0 ELSE 1

\* The buffers of a connection hold its own bytes only, and a worker answers a request
\* of the connection it holds, under the same proviso.
OwnBytes ==
    \A s \in Open \ stale :
        /\ rbuf[s] \union wbuf[s] \subseteq {conn[s]}
        /\ \A w \in Workers : inService[w] = s => parsed[w] \subseteq {conn[s]}

\* Timers are set for the open connections and no others, as long as write() has not
\* closed a connection: that path alone forgets del_timer() (main.cpp:300-303).
TimersMatch == orphans = {} => timers = {conn[s] : s \in Open}

\* A connection that the pool is working on is closed by nothing but a tick.
OnlyTickClosesBusy ==
    [][\A s \in Open \ stale : Busy(s) /\ conn'[s] = NoConn => ticking]_vars

\* The alarm goes from hand to hand: it is set, or its byte is in the self-pipe, or main is
\* on its way to the tick that sets it again -- one of these and never two, so ticks neither
\* pile up nor stop; except that an alarm for which the self-pipe had no room is gone.
Count(b) == IF b THEN 1 ELSE 0
OneAlarm == Count(alarmAt # NoAlarm) + Count(signalled) + Count(timeout) = Count(~alarmLost)

\* An expired timer is fired by a tick sooner or later, or moved by its connection; unless
\* another timer that is not due hides it in the heap, the self-pipe was full when the
\* alarm rang (main.cpp:39), or time is over in the model.
TimedOut ==
    \A c \in Conns :
        c \in timers /\ Heap!Expired(c) ~>
            \/ ~(c \in timers /\ Heap!Expired(c)) \/ \E t \in timers : ~Heap!Expired(t)
            \/ alarmLost \/ broken \/ alarmAt > MaxClock

\* A connection that was taken from epoll is given back to it or closed, whichever of main
\* and the workers has it; unless append() refused it.
ComesBack ==
    \A s \in Slots :
        s \in Open /\ armed[s] = "off" ~>
            s \notin Open \/ armed[s] # "off" \/ s \in parked \/ broken

\* "EPOLLONESHOT prevents one communication from being handled by different threads"
\* (httpConn.cpp:46): two workers are never inside process() of one HttpConn.
OneWorkerPerConnection ==
    \A w, v \in Workers : w # v /\ inService[w] # NoSlot => inService[w] # inService[v]

\* An inactive connection is closed when its time is over (README.md:29), so a tick
\* never fires a timer on a connection whose own deadline is still to come.  The deadline
\* is the one main sets, after a read two and not three TIMESLOTs ahead (main.cpp:283).
NotClosedEarly ==
    \A t \in timers : ticking /\ Heap!Expired(t) /\ conn[slot[t]] # NoConn =>
        Heap!Expired(conn[slot[t]])

\* That has one cause: two workers are inside one HttpConn only where a connection was
\* accepted into a slot that the pool still had a task for, which takes a tick
\* (OnlyTickClosesBusy).
OneWorkerUnlessStale ==
    \A w, v \in Workers : w # v /\ inService[w] = inService[v] => inService[w] \in stale \union {NoSlot}
===============================================================================
