------------------------------ MODULE TimerHeap -------------------------------
(***************************************************************************)
(* sort_timer_srp of timer/srp_timer.{h,cpp}, the binary min-heap of       *)
(* timers, with the deadlines main.cpp gives them: three time slots at     *)
(* accept() (main.cpp:222), two at every read (main.cpp:283).  Only the    *)
(* main thread calls it.  One step is one call up to its first sift, or    *)
(* one iteration of swifup_() or swifdown_() (whose recursion is a tail    *)
(* call), so that an operation runs to its end before the next begins.     *)
(***************************************************************************)
EXTENDS Integers, FiniteSets

CONSTANTS Timers,       \* the TimerNodes; a deleted node may be allocated again
          Null,         \* nullptr
          MAX_HEAP_SIZE,
          TIMESLOT,
          MaxClock      \* bound on the clock

ASSUME TimersAssumption == IsFiniteSet(Timers) /\ Null \notin Timers
ASSUME SizesAssumption ==
    MAX_HEAP_SIZE \in Nat \ {0} /\ TIMESLOT \in Nat \ {0} /\ MaxClock \in Nat

Slots == 1..(MAX_HEAP_SIZE - 1)

VARIABLES size_,
          heap_,       \* the array; slot 0 is never used
          ref_,        \* where each timer is, 0 for a timer that is not in the map
          expire,      \* field expire of each node, 0 once the node is deleted
          now,         \* time(NULL)
          op,          \* the operation in progress, "none" between two of them
          pc,          \* the loop it is in
          u,           \* parameter of swifup_() or swifdown_()
          idx,         \* local idx of del_timer()
          victim,      \* parameter of del_timer()
          broken,      \* the process has dereferenced nullptr or left the array
          shortened    \* history: a deadline has been moved to an earlier time

node == <<op, pc, u, idx, victim>>
vars == <<size_, heap_, ref_, expire, now, node, broken, shortened>>

Init ==
    /\ size_ = 0
    /\ heap_ = [i \in Slots |-> Null]
    /\ ref_ = [t \in Timers |-> 0]
    /\ expire = [t \in Timers |-> 0]
    /\ now = 0
    /\ op = "none" /\ pc = "idle" /\ u = 0 /\ idx = 0 /\ victim = Null
    /\ broken = FALSE
    /\ shortened = FALSE

InHeap == {heap_[i] : i \in 1..size_}
Idle == ~broken /\ op = "none"

\* Slip: swapnode_() exchanges the nodes and forgets the indices.
SwapNodesOnly(a, b) ==
    /\ heap_' = [heap_ EXCEPT ![a] = heap_[b], ![b] = heap_[a]]
    /\ UNCHANGED ref_

\* swapnode_(): the two nodes trade places, in the array and in the map.
SwapNode(a, b) ==
    /\ heap_' = [heap_ EXCEPT ![a] = heap_[b], ![b] = heap_[a]]
    /\ ref_' = [ref_ EXCEPT ![heap_[a]] = ref_[heap_[b]], ![heap_[b]] = ref_[heap_[a]]]

Return == op' = "none" /\ pc' = "idle" /\ u' = 0 /\ idx' = 0 /\ victim' = Null

-------------------------------------------------------------------------------
\* add_timer() for a new node: no test of size_ against MAX_HEAP_SIZE.
AddTimer(t) ==
    /\ Idle
    /\ t \notin InHeap
    /\ IF size_ + 1 \in Slots
          THEN /\ size_' = size_ + 1
               /\ heap_' = [heap_ EXCEPT ![size_ + 1] = t]
               /\ ref_' = [ref_ EXCEPT ![t] = size_ + 1]
               /\ expire' = [expire EXCEPT ![t] = now + 3 * TIMESLOT]
               /\ op' = "add" /\ pc' = "up" /\ u' = size_ + 1
               /\ UNCHANGED broken
          ELSE broken' = TRUE /\ UNCHANGED <<size_, heap_, ref_, expire, op, pc, u>>
    /\ UNCHANGED <<now, idx, victim, shortened>>

\* Slip: the new deadline is not followed by a sift.
AdjustTimerOnlySets(t) ==
    /\ Idle
    /\ t \in InHeap
    /\ expire' = [expire EXCEPT ![t] = now + 2 * TIMESLOT]
    /\ shortened' = (shortened \/ now + 2 * TIMESLOT < expire[t])
    /\ UNCHANGED <<size_, heap_, ref_, now, node, broken>>

\* Slip: the extension is added to the old deadline, not to the current time.
AdjustTimerAccumulates(t) ==
    /\ Idle
    /\ t \in InHeap
    /\ expire' = [expire EXCEPT ![t] = expire[t] + 2 * TIMESLOT]
    /\ op' = "adjust" /\ pc' = "down" /\ u' = ref_[t]
    /\ UNCHANGED <<size_, heap_, ref_, now, idx, victim, broken, shortened>>

\* main sets the new deadline, adjust_timer() sifts the timer down and only down.
AdjustTimer(t) ==
    /\ Idle
    /\ t \in InHeap
    /\ expire' = [expire EXCEPT ![t] = now + 2 * TIMESLOT]
    /\ shortened' = (shortened \/ now + 2 * TIMESLOT < expire[t])
    /\ op' = "adjust" /\ pc' = "down" /\ u' = ref_[t]
    /\ UNCHANGED <<size_, heap_, ref_, now, idx, victim, broken>>

\* del_timer(t) up to its sifts: t trades places with the last timer, the last slot
\* is cleared and given up.  When t was itself last and others remain, the slot that
\* swifup_() is about to look at is the one just cleared.
Detach(t, caller) ==
    LET i == ref_[t] IN
    /\ heap_' = [heap_ EXCEPT ![i] = heap_[size_], ![size_] = Null]
    /\ ref_' = [ref_ EXCEPT ![heap_[size_]] = i, ![t] = IF size_ = 1 THEN 0 ELSE size_]
    /\ size_' = size_ - 1
    /\ expire' = [expire EXCEPT ![t] = 0]
    /\ broken' = (i = size_ /\ size_ > 1)
    /\ IF size_ = 1
          THEN IF caller = "tick" THEN op' = "tick" /\ pc' = "test" /\ UNCHANGED <<u, idx, victim>>
                                  ELSE Return
          ELSE op' = caller /\ pc' = "up" /\ u' = i /\ idx' = i /\ victim' = t
    /\ UNCHANGED <<now, shortened>>

DelTimer(t) == Idle /\ t \in InHeap /\ Detach(t, "del")

\* tick() reads the clock; the clock does not matter to it again.
Tick ==
    /\ Idle
    /\ op' = "tick" /\ pc' = "test"
    /\ UNCHANGED <<size_, heap_, ref_, expire, now, u, idx, victim, broken, shortened>>

\* Slip: the comparison with the clock is turned round.
TickFireEarly ==
    /\ ~broken /\ op = "tick" /\ pc = "test"
    /\ size_ > 0 /\ now <= expire[heap_[1]]
    /\ Detach(heap_[1], "tick")

\* The root has expired: its callback runs and it is deleted.
TickFire ==
    /\ ~broken /\ op = "tick" /\ pc = "test"
    /\ size_ > 0 /\ expire[heap_[1]] <= now
    /\ Detach(heap_[1], "tick")

TickEnd ==
    /\ ~broken /\ op = "tick" /\ pc = "test"
    /\ size_ > 0 => now < expire[heap_[1]]
    /\ Return
    /\ UNCHANGED <<size_, heap_, ref_, expire, now, broken, shortened>>

-------------------------------------------------------------------------------
(* the sifts *)

AboveParent == u \div 2 > 0 /\ expire[heap_[u \div 2]] > expire[heap_[u]]

SwifUp ==
    /\ ~broken /\ pc = "up" /\ AboveParent
    /\ SwapNode(u, u \div 2)
    /\ u' = u \div 2
    /\ UNCHANGED <<size_, expire, now, op, pc, idx, victim, broken, shortened>>

\* add_timer() is done; del_timer() goes on with swifdown_(idx).
SwifUpEnd ==
    /\ ~broken /\ pc = "up" /\ ~AboveParent
    /\ IF op = "add" THEN Return
                     ELSE pc' = "down" /\ u' = idx /\ UNCHANGED <<op, idx, victim>>
    /\ UNCHANGED <<size_, heap_, ref_, expire, now, broken, shortened>>

LeftOrSelf ==
    IF 2 * u <= size_ /\ expire[heap_[2 * u]] < expire[heap_[u]] THEN 2 * u ELSE u

\* Slip: the right child is compared with slot u, not with the smaller of u and left.
SmallestOfTwo ==
    IF 2 * u + 1 <= size_ /\ expire[heap_[2 * u + 1]] < expire[heap_[u]]
       THEN 2 * u + 1 ELSE LeftOrSelf

\* The smallest of slot u and its children, as the two tests of swifdown_() find it.
Smallest ==
    IF 2 * u + 1 <= size_ /\ expire[heap_[2 * u + 1]] < expire[heap_[LeftOrSelf]]
       THEN 2 * u + 1 ELSE LeftOrSelf

SwifDown ==
    /\ ~broken /\ pc = "down" /\ Smallest # u
    /\ SwapNode(Smallest, u)
    /\ u' = Smallest
    /\ UNCHANGED <<size_, expire, now, op, pc, idx, victim, broken, shortened>>

\* adjust_timer() is done; del_timer() erases the timer from the map and returns, to
\* main or to the loop of tick().
SwifDownEnd ==
    /\ ~broken /\ pc = "down" /\ Smallest = u
    /\ ref_' = IF victim = Null THEN ref_ ELSE [ref_ EXCEPT ![victim] = 0]
    /\ IF op = "tick" THEN pc' = "test" /\ u' = 0 /\ idx' = 0 /\ victim' = Null /\ UNCHANGED op
                      ELSE Return
    /\ UNCHANGED <<size_, heap_, expire, now, broken, shortened>>

Clock ==
    /\ Idle
    /\ now < MaxClock
    /\ now' = now + 1
    /\ UNCHANGED <<size_, heap_, ref_, expire, node, broken, shortened>>

Next ==
    \/ \E t \in Timers : AddTimer(t) \/ AdjustTimer(t) \/ DelTimer(t)
    \/ Tick \/ TickFire \/ TickEnd
    \/ SwifUp \/ SwifUpEnd \/ SwifDown \/ SwifDownEnd
    \/ Clock

Spec == Init /\ [][Next]_vars

-------------------------------------------------------------------------------
(* Properties *)

\* Every variable keeps its type; in particular every index stays inside the array.
TypeOK ==
    /\ size_ \in Slots \union {0}
    /\ heap_ \in [Slots -> Timers \union {Null}]
    /\ ref_ \in [Timers -> Slots \union {0}]
    /\ expire \in [Timers -> 0..(MaxClock + 3 * TIMESLOT)]
    /\ now \in 0..MaxClock
    /\ op \in {"none", "add", "adjust", "del", "tick"}
    /\ pc \in {"idle", "up", "down", "test"}
    /\ u \in Slots \union {0}
    /\ idx \in Slots \union {0}
    /\ victim \in Timers \union {Null}
    /\ broken \in BOOLEAN
    /\ shortened \in BOOLEAN

\* The map and the array agree, also in the middle of a sift: every used slot holds a
\* timer whose entry in ref_ is that slot, and a timer with an entry is in the array,
\* but for the one del_timer() has taken out and not yet erased.
IndexConsistent ==
    /\ \A i \in 1..size_ : heap_[i] \in Timers /\ ref_[heap_[i]] = i
    /\ \A t \in Timers : ref_[t] # 0 /\ t # victim => ref_[t] <= size_ /\ heap_[ref_[t]] = t

\* Between two operations the array is a min-heap, as long as no deadline was ever
\* moved to an earlier time: add_timer(), del_timer() and adjust_timer() each restore
\* the order, adjust_timer() for the one direction it handles (srp_timer.h:34-35).
Ordered == \A i \in 2..size_ : expire[heap_[i \div 2]] <= expire[heap_[i]]
OrderedUnlessShortened == Idle /\ ~shortened => Ordered

\* A tick leaves no expired timer behind (srp_timer.h:41 "处理链表上到期任务", it handles
\* the tasks on the list that have expired): when its loop stops, nothing is overdue.
NoneOverdue ==
    op = "tick" /\ pc = "test" /\ (size_ > 0 => now < expire[heap_[1]]) => \A t \in InHeap : now < expire[t]

\* The part of it that the code keeps: the same while no deadline was moved earlier.
NoneOverdueUnlessShortened == shortened \/ NoneOverdue

\* del_timer() deletes the timer it is given and comes back (srp_timer.h:38
\* "将目标定时器 timer 从链表中删除", removes the given timer from the list).
DelTimerReturns == ~broken

\* The heap implements the abstract set of timers: whatever order the sifts leave, a
\* tick fires expired timers only, and nothing but a tick or del_timer() removes one.
Set == INSTANCE TimerSet WITH
    timers <- InHeap, ticking <- (op = "tick"), Capacity <- MAX_HEAP_SIZE - 1,
    Deadlines <- 0..(MaxClock + 3 * TIMESLOT)

ImplementsTimerSet == Set!Spec
===============================================================================
