---------------------------- MODULE TimerHeapProofs ----------------------------
(***************************************************************************)
(* Proofs about TimerHeap, for any finite set of timers, any size of the   *)
(* array, any time slot and any bound on the clock.                        *)
(*                                                                         *)
(* The inductive invariant adds to the checked ones which locals mean      *)
(* something in which loop (CallInv) and that the timer del_timer() has    *)
(* taken out still has an entry in ref_, for the slot that was given up    *)
(* (VictimInv).  OrderInv, inductive relative to it, says where the heap   *)
(* may be out of order while a sift runs.                                  *)
(***************************************************************************)
EXTENDS TimerHeap, FiniteSetTheorems, FunctionTheorems, WellFoundedInduction, TLAPS

Sifting == pc \in {"up", "down"}
Deleting == op \in {"del", "tick"} /\ Sifting

CallInv ==
    /\ op = "none" => pc = "idle"
    /\ pc = "idle" => op = "none"
    /\ pc = "test" => op = "tick"
    /\ op = "tick" => pc # "idle"
    /\ op = "add" => pc = "up"
    /\ op = "adjust" => pc = "down"
    /\ Deleting => victim \in Timers
    /\ ~Deleting => victim = Null /\ idx = 0
    /\ broken => pc # "test"
    /\ ~broken /\ Sifting => u \in 1..size_
    /\ ~broken /\ Deleting => idx \in 1..size_

VictimInv == victim # Null => ref_[victim] = size_ + 1

IInv == TypeOK /\ CallInv /\ VictimInv /\ IndexConsistent

-------------------------------------------------------------------------------
\* The initial state satisfies the inductive invariant.
LEMMA InitIInv == Init => IInv
<1> SUFFICES ASSUME Init PROVE IInv
  OBVIOUS
<1> USE SizesAssumption, TimersAssumption DEF Init
<1>1. TypeOK
  <2>1. expire \in [Timers -> 0..(MaxClock + 3 * TIMESLOT)] /\ now \in 0..MaxClock
    OBVIOUS
  <2>2. heap_ \in [Slots -> Timers \union {Null}] /\ ref_ \in [Timers -> Slots \union {0}]
    OBVIOUS
  <2>3. QED
    BY <2>1, <2>2 DEF TypeOK
<1>2. CallInv /\ VictimInv
  BY DEF CallInv, VictimInv, Deleting, Sifting
<1>3. IndexConsistent
  BY DEF IndexConsistent
<1>4. QED
  BY <1>1, <1>2, <1>3 DEF IInv

\* The parent of a slot is a slot before it.
LEMMA ParentSlot ==
    ASSUME NEW i \in Nat
    PROVE  i \div 2 \in 0..i /\ (i > 0 => i \div 2 < i)
OBVIOUS

\* The used slots hold timers, each of them once, and are slots.
LEMMA UsedSlots ==
    ASSUME IInv
    PROVE  /\ size_ \in Nat
           /\ 1..size_ \subseteq Slots
           /\ \A i \in 1..size_ : heap_[i] \in Timers /\ heap_[i] # Null /\ heap_[i] # victim
           /\ \A i, j \in 1..size_ : heap_[i] = heap_[j] => i = j
<1> USE SizesAssumption, TimersAssumption DEF IInv
<1>1. size_ \in Nat /\ 1..size_ \subseteq Slots
  BY DEF TypeOK, Slots
<1>2. \A i \in 1..size_ : heap_[i] \in Timers /\ ref_[heap_[i]] = i
  BY DEF IndexConsistent
<1>3. \A i \in 1..size_ : heap_[i] # victim
  BY <1>1, <1>2 DEF VictimInv
<1>4. QED
  BY <1>1, <1>2, <1>3

\* swapnode_() of two used slots keeps the types and the agreement of array and map.
LEMMA SwapKeeps ==
    ASSUME IInv, NEW a \in 1..size_, NEW b \in 1..size_,
           SwapNode(a, b), UNCHANGED <<size_, victim>>
    PROVE  /\ heap_' \in [Slots -> Timers \union {Null}]
           /\ ref_' \in [Timers -> Slots \union {0}]
           /\ VictimInv' /\ IndexConsistent'
<1> DEFINE A == heap_[a]
           B == heap_[b]
<1>1. A \in Timers /\ B \in Timers /\ ref_[A] = a /\ ref_[B] = b /\ a \in Slots /\ b \in Slots
  BY UsedSlots DEF IInv, IndexConsistent
<1>2. heap_ \in [Slots -> Timers \union {Null}] /\ ref_ \in [Timers -> Slots \union {0}]
  BY DEF IInv, TypeOK
<1>3. heap_' = [heap_ EXCEPT ![a] = B, ![b] = A] /\ ref_' = [ref_ EXCEPT ![A] = b, ![B] = a]
  BY <1>1 DEF SwapNode
<1>4. heap_' \in [Slots -> Timers \union {Null}] /\ ref_' \in [Timers -> Slots \union {0}]
  BY <1>1, <1>2, <1>3
<1>5. VictimInv'
  BY <1>1, <1>2, <1>3, UsedSlots DEF IInv, VictimInv, TypeOK
<1>6. ASSUME NEW i \in 1..size_
      PROVE  heap_'[i] \in Timers /\ ref_'[heap_'[i]] = i
  <2>1. heap_[i] \in Timers /\ ref_[heap_[i]] = i /\ i \in Slots
    BY UsedSlots DEF IInv, IndexConsistent
  <2>2. QED
    BY <1>1, <1>2, <1>3, <2>1
<1>7. ASSUME NEW t \in Timers, ref_'[t] # 0, t # victim
      PROVE  ref_'[t] <= size_ /\ heap_'[ref_'[t]] = t
  <2>1. CASE t \in {A, B}
    BY <1>1, <1>2, <1>3, <2>1, UsedSlots
  <2>2. CASE t \notin {A, B}
    <3>1. ref_'[t] = ref_[t] /\ ref_[t] <= size_ /\ heap_[ref_[t]] = t
      BY <1>1, <1>2, <1>3, <1>7, <2>2 DEF IInv, IndexConsistent
    <3>2. ref_[t] \in Slots /\ ref_[t] # a /\ ref_[t] # b
      BY <1>1, <1>2, <1>7, <2>2, <3>1
    <3>3. heap_'[ref_[t]] = heap_[ref_[t]]
      BY <1>1, <1>2, <1>3, <3>2
    <3>4. QED
      BY <3>1, <3>3
  <2>3. QED
    BY <2>1, <2>2
<1>8. QED
  BY <1>4, <1>5, <1>6, <1>7 DEF IndexConsistent

\* add_timer() up to its sift.
LEMMA AddKeeps ==
    ASSUME IInv, NEW t \in Timers, AddTimer(t) PROVE IInv'
<1> USE SizesAssumption, TimersAssumption
<1>1. op = "none" /\ pc = "idle" /\ victim = Null /\ idx = 0 /\ broken = FALSE
  BY DEF AddTimer, Idle, IInv, CallInv, Deleting, Sifting, TypeOK
<1>2. CASE size_ + 1 \notin Slots
  BY <1>1, <1>2 DEF AddTimer, IInv, TypeOK, CallInv, Deleting, Sifting, VictimInv, IndexConsistent
<1>3. CASE size_ + 1 \in Slots
  <2>1. TypeOK'
    BY <1>1, <1>3 DEF AddTimer, IInv, TypeOK
  <2>2. CallInv' /\ VictimInv'
    BY <1>1, <1>3, UsedSlots DEF AddTimer, CallInv, VictimInv, Deleting, Sifting
  <2>3. heap_ \in [Slots -> Timers \union {Null}] /\ ref_ \in [Timers -> Slots \union {0}] /\ size_ \in Nat
    BY UsedSlots DEF IInv, TypeOK
  <2>4. heap_' = [heap_ EXCEPT ![size_ + 1] = t] /\ ref_' = [ref_ EXCEPT ![t] = size_ + 1]
        /\ size_' = size_ + 1
    BY <1>3 DEF AddTimer
  <2>5. ASSUME NEW i \in 1..size_'
        PROVE  heap_'[i] \in Timers /\ ref_'[heap_'[i]] = i
    <3>1. CASE i = size_ + 1
      BY <1>3, <2>3, <2>4, <3>1
    <3>2. CASE i \in 1..size_
      <4>1. heap_[i] # t /\ heap_[i] \in Timers /\ ref_[heap_[i]] = i /\ i \in Slots
        BY <3>2, UsedSlots DEF AddTimer, InHeap, IInv, IndexConsistent
      <4>2. QED
        BY <2>3, <2>4, <3>2, <4>1
    <3>3. QED
      BY <2>3, <2>4, <3>1, <3>2
  <2>6. ASSUME NEW x \in Timers, ref_'[x] # 0
        PROVE  ref_'[x] <= size_' /\ heap_'[ref_'[x]] = x
    <3>1. CASE x = t
      BY <1>3, <2>3, <2>4, <3>1
    <3>2. CASE x # t
      <4>1. ref_'[x] = ref_[x] /\ ref_[x] <= size_ /\ heap_[ref_[x]] = x
        BY <1>1, <2>3, <2>4, <2>6, <3>2, TimersAssumption DEF IInv, IndexConsistent
      <4>2. QED
        BY <2>3, <2>4, <4>1 DEF Slots
    <3>3. QED
      BY <3>1, <3>2
  <2>7. IndexConsistent'
    BY <2>5, <2>6 DEF IndexConsistent
  <2>8. QED
    BY <2>1, <2>2, <2>7 DEF IInv
<1>4. QED
  BY <1>2, <1>3

\* del_timer() up to its sifts, whoever calls it.
LEMMA DetachKeeps ==
    ASSUME IInv, ~broken, pc \in {"idle", "test"}, NEW t \in InHeap,
           NEW caller \in {"del", "tick"}, caller = "tick" => pc = "test",
           Detach(t, caller)
    PROVE  IInv'
<1> USE SizesAssumption, TimersAssumption
<1> DEFINE i == ref_[t]
           last == heap_[size_]
<1>1. PICK j \in 1..size_ : t = heap_[j]
  BY DEF InHeap
<1>2. t \in Timers /\ i = j /\ i \in 1..size_ /\ heap_[i] = t
  BY <1>1, UsedSlots DEF IInv, IndexConsistent
<1>3. /\ size_ \in Nat \ {0} /\ size_ \in Slots /\ i \in Slots
      /\ last \in Timers /\ ref_[last] = size_
  BY <1>2, UsedSlots DEF IInv, IndexConsistent
<1>4. heap_ \in [Slots -> Timers \union {Null}] /\ ref_ \in [Timers -> Slots \union {0}]
  BY DEF IInv, TypeOK
<1>5. victim = Null /\ idx = 0
  BY DEF IInv, CallInv, Deleting, Sifting
<1>6. /\ heap_' = [heap_ EXCEPT ![i] = last, ![size_] = Null]
      /\ ref_' = [ref_ EXCEPT ![last] = i, ![t] = IF size_ = 1 THEN 0 ELSE size_]
      /\ size_' = size_ - 1
  BY DEF Detach
<1>7. CASE size_ = 1
  <2>1. op' \in {"none", "tick"} /\ pc' \in {"idle", "test"} /\ victim' = Null
        /\ (op' = "none" <=> pc' = "idle") /\ (op' = "tick" <=> pc' = "test")
        /\ u' \in Slots \union {0} /\ idx' = 0
    BY <1>5, <1>7 DEF Detach, Return, IInv, TypeOK
  <2>2. heap_' \in [Slots -> Timers \union {Null}] /\ ref_' \in [Timers -> Slots \union {0}]
    BY <1>2, <1>3, <1>4, <1>6
  <2>3. TypeOK'
    BY <1>2, <1>3, <1>6, <1>7, <2>1, <2>2 DEF Detach, IInv, TypeOK
  <2>4. CallInv' /\ VictimInv'
    <3>1. ~broken'
      <4>1. ~(size_ > 1)
        BY <1>7
      <4>2. broken' = (i = size_ /\ size_ > 1)
        BY DEF Detach
      <4>3. QED
        BY <4>1, <4>2
    <3>2. QED
      BY <2>1, <3>1 DEF CallInv, VictimInv, Deleting, Sifting
  <2>5. ASSUME NEW x \in Timers PROVE ref_'[x] = 0
    BY <1>2, <1>3, <1>4, <1>5, <1>6, <1>7 DEF IInv, IndexConsistent, Slots
  <2>6. size_' = 0
    BY <1>6, <1>7
  <2>7. IndexConsistent'
    BY <2>5, <2>6 DEF IndexConsistent
  <2>8. QED
    BY <2>3, <2>4, <2>7 DEF IInv
<1>8. CASE size_ # 1
  <2>1. /\ op' = caller /\ pc' = "up" /\ u' = i /\ idx' = i /\ victim' = t
        /\ broken' = (i = size_ /\ size_ > 1)
    BY <1>8 DEF Detach
  <2>2. heap_' \in [Slots -> Timers \union {Null}] /\ ref_' \in [Timers -> Slots \union {0}]
    BY <1>2, <1>3, <1>4, <1>6, <1>8
  <2>3. TypeOK'
    <3>1. size_' \in Slots /\ broken' \in BOOLEAN
      BY <1>3, <1>6, <1>8, <2>1 DEF Slots
    <3>2. expire' \in [Timers -> 0..(MaxClock + 3 * TIMESLOT)]
          /\ now' \in 0..MaxClock /\ shortened' \in BOOLEAN
      <4>1. 0 \in 0..(MaxClock + 3 * TIMESLOT)
        OBVIOUS
      <4>2. QED
        BY <4>1 DEF Detach, IInv, TypeOK
    <3>3. op' \in {"none", "add", "adjust", "del", "tick"} /\ pc' \in {"idle", "up", "down", "test"}
          /\ u' \in Slots /\ idx' \in Slots /\ victim' \in Timers
      BY <1>2, <1>3, <2>1
    <3>4. QED
      BY <2>2, <3>1, <3>2, <3>3 DEF TypeOK
  <2>4. CallInv'
    <3>1. ~broken' => i \in 1..size_'
      <4>1. size_ > 1
        BY <1>3, <1>8
      <4>2. i = size_ => broken'
        BY <2>1, <4>1
      <4>3. QED
        BY <1>2, <1>3, <1>6, <4>2
    <3>2. QED
      BY <1>2, <2>1, <3>1 DEF CallInv, Deleting, Sifting
  <2>5. VictimInv'
    BY <1>2, <1>3, <1>4, <1>6, <1>8, <2>1 DEF VictimInv
  <2>6. ASSUME NEW k \in 1..size_'
        PROVE  heap_'[k] \in Timers /\ ref_'[heap_'[k]] = k
    <3>1. k \in 1..size_ /\ k # size_ /\ k \in Slots
      BY <1>3, <1>6, UsedSlots
    <3>2. heap_[k] \in Timers /\ ref_[heap_[k]] = k /\ heap_[k] # last
      BY <1>3, <3>1 DEF IInv, IndexConsistent
    <3>3. CASE k = i
      BY <1>2, <1>3, <1>4, <1>6, <3>1, <3>2, <3>3
    <3>4. CASE k # i
      <4>1. heap_'[k] = heap_[k] /\ heap_[k] # t
        BY <1>2, <1>3, <1>4, <1>6, <3>1, <3>2, <3>4
      <4>2. QED
        BY <1>2, <1>3, <1>4, <1>6, <3>2, <4>1
    <3>5. QED
      BY <3>3, <3>4
  <2>7. ASSUME NEW x \in Timers, ref_'[x] # 0, x # victim'
        PROVE  ref_'[x] <= size_' /\ heap_'[ref_'[x]] = x
    <3>1. x # t
      BY <2>1, <2>7
    <3>2. CASE x = last
      <4>1. i # size_
        BY <1>2, <3>1, <3>2
      <4>2. ref_'[x] = i /\ heap_'[i] = last /\ i <= size_ - 1
        BY <1>2, <1>3, <1>4, <1>6, <3>1, <3>2, <4>1
      <4>3. QED
        BY <1>6, <3>2, <4>2
    <3>3. CASE x # last
      <4>1. ref_'[x] = ref_[x]
        BY <1>2, <1>3, <1>4, <1>6, <3>1, <3>3
      <4>2. ref_[x] <= size_ /\ heap_[ref_[x]] = x /\ ref_[x] \in Slots
        BY <1>4, <1>5, <2>7, <4>1 DEF IInv, IndexConsistent
      <4>3. ref_[x] # size_ /\ ref_[x] # i
        BY <1>2, <3>1, <3>3, <4>2
      <4>4. heap_'[ref_[x]] = heap_[ref_[x]]
        BY <1>3, <1>4, <1>6, <4>2, <4>3
      <4>5. QED
        BY <1>3, <1>6, <4>1, <4>2, <4>3, <4>4 DEF Slots
    <3>4. QED
      BY <3>2, <3>3
  <2>8. IndexConsistent'
    BY <2>6, <2>7 DEF IndexConsistent
  <2>9. QED
    BY <2>3, <2>4, <2>5, <2>8 DEF IInv
<1>9. QED
  BY <1>7, <1>8

\* The smaller child that swifdown_() finds, or the slot itself, is a used slot.
LEMMA SmallestUsed ==
    ASSUME IInv, ~broken, pc = "down"
    PROVE  u \in 1..size_ /\ Smallest \in 1..size_
<1>1. u \in 1..size_ /\ size_ \in Nat
  BY UsedSlots DEF IInv, CallInv, Sifting
<1>2. QED
  BY <1>1 DEF Smallest, LeftOrSelf

\* One iteration of either sift.
LEMMA SiftKeeps == IInv /\ (SwifUp \/ SwifDown) => IInv'
<1> USE SizesAssumption, TimersAssumption
<1>1. ASSUME IInv, SwifUp PROVE IInv'
  <2>1. u \in 1..size_ /\ u \div 2 \in 1..size_ /\ u \div 2 \in Slots
    <3>1. u \in 1..size_ /\ size_ \in Nat
      BY <1>1, UsedSlots DEF SwifUp, IInv, CallInv, Sifting
    <3>2. u \div 2 \in 1..size_
      BY <1>1, <3>1, ParentSlot DEF SwifUp, AboveParent
    <3>3. QED
      BY <1>1, <3>1, <3>2, UsedSlots
  <2>2. /\ heap_' \in [Slots -> Timers \union {Null}]
        /\ ref_' \in [Timers -> Slots \union {0}]
        /\ VictimInv' /\ IndexConsistent'
    BY <1>1, <2>1, SwapKeeps DEF SwifUp
  <2>3. TypeOK'
    BY <1>1, <2>1, <2>2 DEF SwifUp, IInv, TypeOK
  <2>4. CallInv'
    BY <1>1, <2>1 DEF SwifUp, IInv, CallInv, Deleting, Sifting
  <2>5. QED
    BY <2>2, <2>3, <2>4 DEF IInv
<1>2. ASSUME IInv, SwifDown PROVE IInv'
  <2>1. u \in 1..size_ /\ Smallest \in 1..size_ /\ Smallest \in Slots
    BY <1>2, SmallestUsed, UsedSlots DEF SwifDown
  <2>2. /\ heap_' \in [Slots -> Timers \union {Null}]
        /\ ref_' \in [Timers -> Slots \union {0}]
        /\ VictimInv' /\ IndexConsistent'
    BY <1>2, <2>1, SwapKeeps DEF SwifDown
  <2>3. TypeOK'
    BY <1>2, <2>1, <2>2 DEF SwifDown, IInv, TypeOK
  <2>4. CallInv'
    BY <1>2, <2>1 DEF SwifDown, IInv, CallInv, Deleting, Sifting
  <2>5. QED
    BY <2>2, <2>3, <2>4 DEF IInv
<1>3. QED
  BY <1>1, <1>2

\* The end of either sift.
LEMMA SiftEndKeeps == IInv /\ (SwifUpEnd \/ SwifDownEnd) => IInv'
<1> USE SizesAssumption, TimersAssumption
<1>1. ASSUME IInv, SwifUpEnd PROVE IInv'
  <2>1. TypeOK'
    BY <1>1 DEF SwifUpEnd, Return, IInv, TypeOK
  <2>2. CallInv'
    BY <1>1 DEF SwifUpEnd, Return, IInv, TypeOK, CallInv, Deleting, Sifting
  <2>3. VictimInv' /\ IndexConsistent'
    BY <1>1 DEF SwifUpEnd, Return, IInv, VictimInv, IndexConsistent, CallInv, Deleting, Sifting
  <2>4. QED
    BY <2>1, <2>2, <2>3 DEF IInv
<1>2. ASSUME IInv, SwifDownEnd PROVE IInv'
  <2>1. /\ op' \in {"none", "tick"} /\ pc' \in {"idle", "test"} /\ victim' = Null
        /\ (op' = "none" <=> pc' = "idle") /\ (op' = "tick" <=> pc' = "test")
        /\ u' = 0 /\ idx' = 0 /\ UNCHANGED <<size_, heap_, expire, now, broken, shortened>>
        /\ ~broken'
    BY <1>2 DEF SwifDownEnd, Return, IInv, TypeOK
  <2>2. CASE victim = Null
    BY <1>2, <2>1, <2>2 DEF SwifDownEnd, IInv, TypeOK, CallInv, VictimInv, IndexConsistent,
                            Deleting, Sifting
  <2>3. CASE victim # Null
    <3>1. /\ victim \in Timers
          /\ ref_ \in [Timers -> Slots \union {0}]
          /\ ref_' = [ref_ EXCEPT ![victim] = 0]
      BY <1>2, <2>3 DEF SwifDownEnd, IInv, TypeOK
    <3>2. TypeOK'
      BY <1>2, <2>1, <3>1 DEF IInv, TypeOK
    <3>3. CallInv' /\ VictimInv'
      BY <2>1 DEF CallInv, VictimInv, Deleting, Sifting
    <3>4. IndexConsistent'
      BY <1>2, <2>1, <3>1, UsedSlots DEF IInv, IndexConsistent
    <3>5. QED
      BY <3>2, <3>3, <3>4 DEF IInv
  <2>4. QED
    BY <2>2, <2>3
<1>3. QED
  BY <1>1, <1>2

\* Every step keeps the inductive invariant.
LEMMA IInvStep == IInv /\ [Next]_vars => IInv'
<1> SUFFICES ASSUME IInv, [Next]_vars PROVE IInv'
  OBVIOUS
<1> USE SizesAssumption, TimersAssumption
<1>1. ASSUME NEW t \in Timers, AddTimer(t) PROVE IInv'
  BY <1>1, AddKeeps
<1>2. ASSUME NEW t \in Timers, AdjustTimer(t) PROVE IInv'
  <2>1. ref_[t] \in 1..size_ /\ ref_[t] \in Slots
    BY <1>2, UsedSlots DEF AdjustTimer, InHeap, IInv, IndexConsistent
  <2>2. TypeOK'
    BY <1>2, <2>1 DEF AdjustTimer, IInv, TypeOK
  <2>3. CallInv' /\ VictimInv' /\ IndexConsistent'
    BY <1>2, <2>1 DEF AdjustTimer, Idle, IInv, CallInv, Deleting, Sifting, VictimInv,
                      IndexConsistent
  <2>4. QED
    BY <2>2, <2>3 DEF IInv
<1>3. ASSUME NEW t \in Timers, DelTimer(t) PROVE IInv'
  BY <1>3, DetachKeeps DEF DelTimer, Idle, IInv, CallInv
<1>4. CASE Tick
  BY <1>4 DEF Tick, Idle, IInv, TypeOK, CallInv, Deleting, Sifting, VictimInv, IndexConsistent
<1>5. CASE TickFire
  <2>1. heap_[1] \in InHeap
    BY <1>5, UsedSlots DEF TickFire, InHeap
  <2>2. QED
    BY <1>5, <2>1, DetachKeeps DEF TickFire
<1>6. CASE TickEnd
  <2>1. victim = Null
    BY <1>6 DEF TickEnd, IInv, CallInv, Deleting, Sifting
  <2>2. QED
    BY <1>6, <2>1 DEF TickEnd, Return, IInv, TypeOK, CallInv, Deleting, Sifting, VictimInv,
                      IndexConsistent
<1>7. CASE SwifUp \/ SwifDown
  BY <1>7, SiftKeeps
<1>8. CASE SwifUpEnd \/ SwifDownEnd
  BY <1>8, SiftEndKeeps
<1>9. CASE Clock
  BY <1>9 DEF Clock, node, IInv, TypeOK, CallInv, Deleting, Sifting, VictimInv, IndexConsistent
<1>10. CASE UNCHANGED vars
  BY <1>10 DEF vars, node, IInv, TypeOK, CallInv, Deleting, Sifting, VictimInv, IndexConsistent
<1>11. QED
  BY <1>1, <1>2, <1>3, <1>4, <1>5, <1>6, <1>7, <1>8, <1>9, <1>10 DEF Next

\* The inductive invariant holds of every reachable state.
THEOREM IInvHolds == Spec => []IInv
BY InitIInv, IInvStep, PTL DEF Spec

\* size_, the locals of the sifts and the entries of ref_ stay within the array and deadlines
\* in their range: a call of srp_timer.cpp that would leave the array sets broken instead.
THEOREM TypeCorrect == Spec => []TypeOK
<1>1. IInv => TypeOK
  BY DEF IInv
<1>2. QED
  BY IInvHolds, <1>1, PTL

\* The array and the map of the heap agree at every moment, also inside a sift.
THEOREM IndexAgrees == Spec => []IndexConsistent
<1>1. IInv => IndexConsistent
  BY DEF IInv
<1>2. QED
  BY IInvHolds, <1>1, PTL

-------------------------------------------------------------------------------
(* the order of the heap *)

\* The deadline in each used slot.
keys == [i \in 1..size_ |-> expire[heap_[i]]]

Parent(j) == j \div 2
Edge(K, j) == K[Parent(j)] <= K[j]

\* No child of slot v is smaller than the parent of v.
Bridged(K, n, v) == \A j \in 2..n : Parent(j) = v /\ v > 1 => K[Parent(v)] <= K[j]

\* swifup_() at slot v: only v may be smaller than its parent, and while v is slot d,
\* where del_timer() has put the last timer, it may also be larger than its children.
UpOrder(K, n, v, d) ==
    /\ \A j \in 2..n : j # v /\ (Parent(j) = v => v # d) => Edge(K, j)
    /\ Bridged(K, n, v)

\* swifdown_() at slot v: only v may be larger than its children.
DownOrder(K, n, v) ==
    /\ \A j \in 2..n : Parent(j) # v => Edge(K, j)
    /\ Bridged(K, n, v)

OrderInv ==
    ~shortened /\ ~broken =>
        /\ ~Sifting => \A j \in 2..size_ : Edge(keys, j)
        /\ pc = "up" => UpOrder(keys, size_, u, idx)
        /\ pc = "down" => DownOrder(keys, size_, u)

\* A slot other than the first has a parent; a slot is not its own grandparent.
LEMMA Parents ==
    ASSUME NEW n \in Nat, NEW j \in 2..n
    PROVE  /\ Parent(j) \in 1..n /\ Parent(j) < j
           /\ Parent(Parent(j)) < Parent(j)
BY DEF Parent

\* One swap of swifup_() moves the hole to the parent.
LEMMA UpSwap ==
    ASSUME NEW n \in Nat, NEW K \in [1..n -> Int], NEW v \in 2..n, NEW d \in Nat,
           UpOrder(K, n, v, d), K[v] < K[Parent(v)],
           NEW L \in [1..n -> Int],
           L = [K EXCEPT ![v] = K[Parent(v)], ![Parent(v)] = K[v]]
    PROVE  UpOrder(L, n, Parent(v), d)
<1> DEFINE q == Parent(v)
<1>1. q \in 1..n /\ q < v /\ Parent(q) < q
  BY Parents
<1>2. L[v] = K[q] /\ L[q] = K[v] /\ \A i \in 1..n : i # v /\ i # q => L[i] = K[i]
  BY <1>1
<1>3. ASSUME NEW j \in 2..n, j # q
      PROVE  Edge(L, j)
  <2>1. Parent(j) \in 1..n /\ Parent(j) < j
    BY Parents
  <2>2. CASE j = v
    BY <1>1, <1>2, <2>2 DEF Edge
  <2>3. CASE j # v /\ Parent(j) = v
    BY <1>1, <1>2, <2>1, <2>3 DEF Edge, UpOrder, Bridged
  <2>4. CASE j # v /\ Parent(j) = q
    <3>1. K[q] <= K[j]
      BY <1>1, <2>4 DEF Edge, UpOrder
    <3>2. QED
      BY <1>1, <1>2, <1>3, <2>4, <3>1 DEF Edge
  <2>5. CASE j # v /\ Parent(j) # v /\ Parent(j) # q
    BY <1>2, <1>3, <2>1, <2>5 DEF Edge, UpOrder
  <2>6. QED
    BY <2>2, <2>3, <2>4, <2>5
<1>4. ASSUME NEW j \in 2..n, Parent(j) = q, q > 1
      PROVE  L[Parent(q)] <= L[j]
  <2>1. q \in 2..n /\ Parent(q) \in 1..n
    BY <1>1, <1>4, Parents
  <2>2. K[Parent(q)] <= K[q]
    BY <1>1, <2>1 DEF UpOrder, Edge
  <2>3. j # q /\ (j # v => K[q] <= K[j])
    <3>1. j # q
      BY <1>4, Parents
    <3>2. j # v => Edge(K, j)
      BY <1>1, <1>4 DEF UpOrder
    <3>3. QED
      BY <1>4, <3>1, <3>2 DEF Edge
  <2>4. QED
    BY <1>1, <1>2, <2>1, <2>2, <2>3, SMTT(30)
<1>5. QED
  BY <1>3, <1>4 DEF UpOrder, Bridged

\* One swap of swifdown_() moves the hole to the smallest child.
LEMMA DownSwap ==
    ASSUME NEW n \in Nat, NEW K \in [1..n -> Int], NEW v \in 1..n, NEW c \in 2..n,
           Parent(c) = v, DownOrder(K, n, v), K[c] < K[v],
           \A j \in 2..n : Parent(j) = v => K[c] <= K[j],
           NEW L \in [1..n -> Int],
           L = [K EXCEPT ![c] = K[v], ![v] = K[c]]
    PROVE  DownOrder(L, n, c)
<1>1. v < c
  BY Parents
<1>2. L[v] = K[c] /\ L[c] = K[v] /\ \A i \in 1..n : i # v /\ i # c => L[i] = K[i]
  BY <1>1
<1>3. ASSUME NEW j \in 2..n, Parent(j) # c
      PROVE  Edge(L, j)
  <2>1. Parent(j) \in 1..n /\ Parent(j) < j
    BY Parents
  <2>2. CASE j = c
    BY <1>1, <1>2, <2>2 DEF Edge
  <2>3. CASE j # c /\ Parent(j) = v
    BY <1>1, <1>2, <2>1, <2>3 DEF Edge
  <2>4. CASE j = v
    BY <1>1, <1>2, <2>1, <2>4 DEF Edge, DownOrder, Bridged
  <2>5. CASE j # c /\ j # v /\ Parent(j) # v
    BY <1>2, <1>3, <2>1, <2>5 DEF Edge, DownOrder
  <2>6. QED
    BY <2>2, <2>3, <2>4, <2>5
<1>4. ASSUME NEW j \in 2..n, Parent(j) = c
      PROVE  L[Parent(c)] <= L[j]
  <2>1. j # c /\ j # v /\ K[c] <= K[j]
    BY <1>1, <1>4, Parents DEF DownOrder, Edge
  <2>2. QED
    BY <1>2, <2>1
<1>5. QED
  BY <1>3, <1>4 DEF DownOrder, Bridged

\* What swapnode_() does to the deadlines in the slots.
LEMMA SwapKeys ==
    ASSUME IInv, NEW a \in 1..size_, NEW b \in 1..size_,
           SwapNode(a, b), UNCHANGED <<size_, expire>>
    PROVE  keys' = [keys EXCEPT ![a] = keys[b], ![b] = keys[a]]
<1>1. a \in Slots /\ b \in Slots /\ 1..size_ \subseteq Slots
  BY UsedSlots
<1>2. heap_ \in [Slots -> Timers \union {Null}]
  BY DEF IInv, TypeOK
<1>3. heap_' = [heap_ EXCEPT ![a] = heap_[b], ![b] = heap_[a]]
  BY DEF SwapNode
<1>4. \A i \in 1..size_ : heap_'[i] = IF i = b THEN heap_[a] ELSE IF i = a THEN heap_[b] ELSE heap_[i]
  BY <1>1, <1>2, <1>3
<1>5. QED
  BY <1>4 DEF keys

\* The deadlines in the used slots are numbers.
LEMMA KeysType == ASSUME IInv PROVE keys \in [1..size_ -> Int]
<1>1. \A i \in 1..size_ : heap_[i] \in Timers
  BY UsedSlots
<1>2. QED
  BY <1>1, SizesAssumption DEF keys, IInv, TypeOK

\* OrderInv unfolded where it says something.
LEMMA OrderInvHeld ==
    ASSUME IInv, OrderInv, ~shortened, ~broken
    PROVE  /\ ~Sifting => \A j \in 2..size_ : Edge(keys, j)
           /\ pc = "up" => UpOrder(keys, size_, u, idx)
           /\ pc = "down" => DownOrder(keys, size_, u)
BY DEF OrderInv

\* add_timer() puts the timer at the end, where nothing is below it.
LEMMA AddOrder ==
    ASSUME IInv, OrderInv, NEW t \in Timers, AddTimer(t), ~shortened', ~broken'
    PROVE  UpOrder(keys', size_', u', idx') /\ pc' = "up"
<1>1. /\ ~broken /\ ~shortened /\ ~Sifting /\ idx = 0 /\ size_ \in Nat
      /\ heap_ \in [Slots -> Timers \union {Null}] /\ expire \in [Timers -> Int]
  BY SizesAssumption, UsedSlots DEF AddTimer, Idle, IInv, TypeOK, CallInv, Deleting, Sifting
<1>2. /\ size_' = size_ + 1 /\ u' = size_ + 1 /\ pc' = "up" /\ idx' = 0
      /\ heap_' = [heap_ EXCEPT ![size_ + 1] = t]
      /\ expire' = [expire EXCEPT ![t] = now + 3 * TIMESLOT]
  BY <1>1 DEF AddTimer
<1>3. ASSUME NEW i \in 1..size_ PROVE keys'[i] = keys[i]
  <2>1. heap_[i] \in Timers /\ heap_[i] # t /\ i \in Slots
    BY UsedSlots DEF AddTimer, InHeap
  <2>2. heap_'[i] = heap_[i] /\ expire'[heap_[i]] = expire[heap_[i]]
    BY <1>1, <1>2, <2>1
  <2>3. QED
    BY <1>1, <1>2, <2>2 DEF keys
<1>4. ASSUME NEW j \in 2..size_', j # u' PROVE Edge(keys', j)
  <2>1. j \in 2..size_ /\ Parent(j) \in 1..size_
    BY <1>1, <1>2, <1>4, Parents
  <2>2. Edge(keys, j)
    BY <1>1, <2>1, OrderInvHeld
  <2>3. QED
    BY <1>1, <1>3, <2>1, <2>2 DEF Edge
<1>5. ASSUME NEW j \in 2..size_' PROVE Parent(j) # u'
  <2>1. Parent(j) < j /\ j <= size_ + 1 /\ Parent(j) \in Nat
    BY <1>1, <1>2, <1>5, Parents
  <2>2. QED
    BY <1>1, <1>2, <2>1
<1>6. QED
  BY <1>2, <1>4, <1>5 DEF UpOrder, Bridged

\* adjust_timer() with a deadline that is not earlier: only the children may be smaller.
LEMMA AdjustOrder ==
    ASSUME IInv, OrderInv, NEW t \in Timers, AdjustTimer(t), ~shortened', ~broken'
    PROVE  DownOrder(keys', size_', u') /\ pc' = "down"
<1>1. /\ ~broken /\ ~shortened /\ ~Sifting /\ size_ \in Nat
      /\ heap_ \in [Slots -> Timers \union {Null}] /\ expire \in [Timers -> Int] /\ now \in Int
  BY SizesAssumption, UsedSlots DEF AdjustTimer, Idle, IInv, TypeOK, CallInv, Deleting, Sifting
<1>2. /\ size_' = size_ /\ heap_' = heap_ /\ u' = ref_[t] /\ pc' = "down"
      /\ expire' = [expire EXCEPT ![t] = now + 2 * TIMESLOT]
      /\ now + 2 * TIMESLOT >= expire[t]
  <2>1. ~(now + 2 * TIMESLOT < expire[t])
    BY Zenon DEF AdjustTimer
  <2>2. t \in Timers /\ expire[t] \in Int /\ 2 * TIMESLOT \in Int
    BY <1>1, SizesAssumption
  <2>3. QED
    BY <1>1, <2>1, <2>2 DEF AdjustTimer
<1>3. u' \in 1..size_ /\ heap_[u'] = t
  BY <1>2, UsedSlots DEF AdjustTimer, InHeap, IInv, IndexConsistent
<1>4. keys'[u'] >= keys[u'] /\ \A i \in 1..size_ : i # u' => keys'[i] = keys[i]
  <2>1. keys'[u'] >= keys[u']
    BY <1>1, <1>2, <1>3 DEF keys
  <2>2. ASSUME NEW i \in 1..size_, i # u' PROVE keys'[i] = keys[i]
    <3>1. heap_[i] \in Timers /\ heap_[i] # t
      BY <1>3, <2>2, UsedSlots
    <3>2. QED
      BY <1>1, <1>2, <3>1 DEF keys
  <2>3. QED
    BY <2>1, <2>2
<1>5. keys \in [1..size_ -> Int] /\ keys'[u'] \in Int
  BY <1>1, <1>2, <1>3, SizesAssumption, KeysType DEF keys
<1>6. ASSUME NEW j \in 2..size_
      PROVE  Edge(keys, j) /\ Parent(j) \in 1..size_ /\ Parent(j) < j
  BY <1>1, <1>6, OrderInvHeld, Parents
<1>7. ASSUME NEW j \in 2..size_', Parent(j) # u' PROVE Edge(keys', j)
  BY <1>2, <1>3, <1>4, <1>5, <1>6, <1>7, SMTT(30) DEF Edge
<1>8. ASSUME NEW j \in 2..size_', Parent(j) = u', u' > 1
      PROVE  keys'[Parent(u')] <= keys'[j]
  <2>1. u' \in 2..size_ /\ j \in 2..size_
    BY <1>1, <1>2, <1>3, <1>8
  <2>2. keys[Parent(u')] <= keys[u'] /\ keys[u'] <= keys[j]
    BY <1>6, <1>8, <2>1 DEF Edge
  <2>3. j # u' /\ Parent(u') # u' /\ Parent(u') \in 1..size_
    BY <1>6, <1>8, <2>1
  <2>4. QED
    BY <1>4, <1>5, <2>1, <2>2, <2>3
<1>9. QED
  BY <1>2, <1>7, <1>8 DEF DownOrder, Bridged

\* del_timer() puts the last timer into the slot it clears, and only that slot may be
\* out of order.
LEMMA DetachOrder ==
    ASSUME IInv, OrderInv, ~broken, ~shortened, ~Sifting, NEW t \in InHeap,
           NEW caller \in {"del", "tick"}, Detach(t, caller), ~broken'
    PROVE  IF pc' = "up" THEN UpOrder(keys', size_', u', idx')
                         ELSE ~Sifting' /\ \A j \in 2..size_' : Edge(keys', j)
<1> DEFINE i == ref_[t]
           last == heap_[size_]
<1>1. t \in Timers /\ i \in 1..size_ /\ heap_[i] = t
  BY UsedSlots DEF InHeap, IInv, IndexConsistent
<1>2. /\ size_ \in Nat \ {0} /\ size_ \in Slots /\ i \in Slots
      /\ heap_ \in [Slots -> Timers \union {Null}] /\ expire \in [Timers -> Int]
  BY <1>1, SizesAssumption, UsedSlots DEF IInv, TypeOK
<1>3. /\ heap_' = [heap_ EXCEPT ![i] = last, ![size_] = Null]
      /\ expire' = [expire EXCEPT ![t] = 0]
      /\ size_' = size_ - 1
  BY DEF Detach
<1>4. CASE size_ = 1
  <2>1. pc' \in {"idle", "test"} /\ size_' = 0
    BY <1>3, <1>4 DEF Detach, Return
  <2>2. QED
    BY <2>1 DEF Sifting
<1>5. CASE size_ # 1
  <2>1. pc' = "up" /\ u' = i /\ idx' = i
    BY <1>5 DEF Detach
  <2>2. ASSUME NEW k \in 1..size_', k # i
        PROVE  keys'[k] = keys[k]
    <3>1. k \in 1..size_ /\ k # size_ /\ k \in Slots
      BY <1>2, <1>3, UsedSlots
    <3>2. heap_[k] \in Timers /\ heap_[k] # t
      BY <1>1, <2>2, <3>1, UsedSlots
    <3>3. heap_'[k] = heap_[k] /\ expire'[heap_[k]] = expire[heap_[k]]
      BY <1>2, <1>3, <2>2, <3>1, <3>2
    <3>4. QED
      BY <3>1, <3>3 DEF keys
  <2>3. ASSUME NEW j \in 2..size_'
        PROVE  /\ j \in 2..size_ /\ Edge(keys, j)
               /\ Parent(j) \in 1..size_' /\ Parent(j) < j
    <3>1. j \in 2..size_ /\ size_' \in Nat
      BY <1>2, <1>3
    <3>2. QED
      BY <3>1, OrderInvHeld, Parents
  <2>4. ASSUME NEW j \in 2..size_', j # i, Parent(j) # i PROVE Edge(keys', j)
    <3>1. keys'[j] = keys[j] /\ keys'[Parent(j)] = keys[Parent(j)]
      BY <1>2, <1>3, <2>2, <2>3, <2>4
    <3>2. QED
      BY <2>3, <2>4, <3>1 DEF Edge
  <2>5. ASSUME NEW j \in 2..size_', Parent(j) = i, i > 1
        PROVE  keys'[Parent(i)] <= keys'[j]
    <3>1. i \in 2..size_' /\ i < j /\ i \in 1..size_ /\ j \in 1..size_
      BY <1>1, <1>2, <1>3, <2>3, <2>5
    <3>2. Parent(i) \in 1..size_' /\ Parent(i) < i /\ Parent(i) \in 1..size_
      BY <1>2, <1>3, <2>3, <3>1
    <3>3. keys[Parent(i)] <= keys[i] /\ keys[i] <= keys[j]
      BY <2>3, <2>5, <3>1 DEF Edge
    <3>4. keys[Parent(i)] <= keys[j]
      BY <3>1, <3>2, <3>3, KeysType
    <3>5. keys'[Parent(i)] = keys[Parent(i)] /\ keys'[j] = keys[j]
      BY <2>2, <2>5, <3>1, <3>2
    <3>6. QED
      BY <3>4, <3>5
  <2>6. QED
    BY <2>1, <2>4, <2>5 DEF UpOrder, Bridged
<1>6. QED
  BY <1>4, <1>5

\* An iteration of swifup_().
LEMMA SwifUpOrder ==
    ASSUME IInv, OrderInv, SwifUp, ~shortened
    PROVE  UpOrder(keys', size_', u', idx') /\ pc' = "up"
<1>1. /\ ~broken /\ pc = "up" /\ u \in 1..size_ /\ size_ \in Nat /\ idx \in Nat
  BY UsedSlots DEF SwifUp, IInv, TypeOK, CallInv, Sifting, Slots
<1>2. /\ u' = Parent(u) /\ Parent(u) > 0 /\ expire[heap_[Parent(u)]] > expire[heap_[u]]
      /\ SwapNode(u, Parent(u)) /\ UNCHANGED <<size_, expire, idx, pc>>
  BY DEF SwifUp, AboveParent, Parent
<1>3. u \in 2..size_ /\ Parent(u) \in 1..size_
  <2>1. u # 1
    BY <1>2 DEF Parent
  <2>2. QED
    BY <1>1, <2>1, Parents
<1>4. keys \in [1..size_ -> Int] /\ keys[u] < keys[Parent(u)]
  <2>1. keys[u] = expire[heap_[u]] /\ keys[Parent(u)] = expire[heap_[Parent(u)]]
    BY <1>1, <1>3 DEF keys
  <2>2. keys \in [1..size_ -> Int]
    BY KeysType
  <2>3. QED
    BY <1>2, <1>3, <2>1, <2>2
<1>5. keys' = [keys EXCEPT ![u] = keys[Parent(u)], ![Parent(u)] = keys[u]]
  BY <1>1, <1>2, <1>3, SwapKeys
<1>6. keys' \in [1..size_ -> Int]
  BY <1>1, <1>3, <1>4, <1>5
<1>7. UpOrder(keys, size_, u, idx)
  BY <1>1, OrderInvHeld
<1>8. UpOrder(keys', size_, Parent(u), idx)
  BY <1>1, <1>3, <1>4, <1>5, <1>6, <1>7, UpSwap
<1>9. QED
  BY <1>1, <1>2, <1>8

\* The end of swifup_(): for add_timer() all is in order, for del_timer() all but what
\* is below the slot that was filled.
LEMMA SwifUpEndOrder ==
    ASSUME IInv, OrderInv, SwifUpEnd, ~shortened
    PROVE  IF op = "add" THEN \A j \in 2..size_ : Edge(keys, j)
                         ELSE DownOrder(keys, size_, idx)
<1>1. /\ ~broken /\ pc = "up" /\ u \in 1..size_ /\ size_ \in Nat
      /\ idx \in Nat /\ (op = "add" => idx = 0) /\ (op # "add" => idx \in 1..size_)
  BY UsedSlots DEF SwifUpEnd, IInv, TypeOK, CallInv, Deleting, Sifting, Slots
<1>2. UpOrder(keys, size_, u, idx)
  BY <1>1, OrderInvHeld
<1>3. keys \in [1..size_ -> Int]
  BY KeysType
<1>4. u \in 2..size_ => Edge(keys, u)
  <2>1. SUFFICES ASSUME u \in 2..size_ PROVE Edge(keys, u)
    OBVIOUS
  <2>2. Parent(u) \in 1..size_
    BY <1>1, <2>1, Parents
  <2>3. ~(expire[heap_[Parent(u)]] > expire[heap_[u]])
    BY <2>2 DEF SwifUpEnd, AboveParent, Parent
  <2>4. keys[u] = expire[heap_[u]] /\ keys[Parent(u)] = expire[heap_[Parent(u)]]
    BY <1>1, <2>2 DEF keys
  <2>5. QED
    BY <1>1, <1>3, <2>2, <2>3, <2>4 DEF Edge
<1>5. CASE u = idx
  <2>1. \A j \in 2..size_ : Parent(j) # u => Edge(keys, j)
    BY <1>2, <1>4 DEF UpOrder
  <2>2. QED
    BY <1>1, <1>2, <1>5, <2>1 DEF UpOrder, DownOrder
<1>6. CASE u # idx
  <2>1. \A j \in 2..size_ : Edge(keys, j)
    BY <1>2, <1>4, <1>6 DEF UpOrder
  <2>2. ASSUME NEW j \in 2..size_, Parent(j) = idx, idx > 1
        PROVE  keys[Parent(idx)] <= keys[j]
    <3>1. idx \in 2..size_
      BY <1>1, <2>2, Parents
    <3>2. Parent(idx) \in 1..size_ /\ keys[Parent(idx)] <= keys[idx] /\ keys[idx] <= keys[j]
      BY <1>1, <2>1, <2>2, <3>1, Parents DEF Edge
    <3>3. QED
      BY <1>3, <3>1, <3>2
  <2>3. QED
    BY <2>1, <2>2 DEF DownOrder, Bridged
<1>7. QED
  BY <1>5, <1>6

\* The children of slot v are slots 2v and 2v + 1.
LEMMA Children ==
    ASSUME NEW v \in Nat, NEW j \in Nat
    PROVE  Parent(j) = v <=> j \in {2 * v, 2 * v + 1}
BY DEF Parent

\* What the two tests of swifdown_() find.
LEMMA SmallestChild ==
    ASSUME IInv, ~broken, pc = "down"
    PROVE  /\ Smallest # u => Smallest \in 2..size_ /\ Parent(Smallest) = u
                              /\ keys[Smallest] < keys[u]
           /\ \A j \in 2..size_ : Parent(j) = u => keys[Smallest] <= keys[j]
<1> DEFINE l == 2 * u
           r == 2 * u + 1
<1>1. u \in 1..size_ /\ size_ \in Nat /\ keys \in [1..size_ -> Int]
  BY UsedSlots, KeysType DEF IInv, CallInv, Sifting
<1>2. \A i \in 1..size_ : keys[i] = expire[heap_[i]] /\ keys[i] \in Int
  BY <1>1 DEF keys
<1>3. LeftOrSelf = IF l <= size_ /\ keys[l] < keys[u] THEN l ELSE u
  BY <1>1, <1>2 DEF LeftOrSelf
<1>4. LeftOrSelf \in 1..size_
  BY <1>1, <1>3
<1>5. Smallest = IF r <= size_ /\ keys[r] < keys[LeftOrSelf] THEN r ELSE LeftOrSelf
  BY <1>1, <1>2, <1>4 DEF Smallest
<1>6. Parent(l) = u /\ Parent(r) = u
  BY <1>1, Children
<1>7. Smallest # u => Smallest \in 2..size_ /\ Parent(Smallest) = u /\ keys[Smallest] < keys[u]
  BY <1>1, <1>2, <1>3, <1>4, <1>5, <1>6
<1>8. ASSUME NEW j \in 2..size_, Parent(j) = u
      PROVE  keys[Smallest] <= keys[j]
  <2>1. j \in {l, r}
    BY <1>1, <1>8, Children
  <2>2. QED
    BY <1>1, <1>2, <1>3, <1>4, <1>5, <2>1, SMTT(30)
<1>9. QED
  BY <1>7, <1>8

\* An iteration of swifdown_().
LEMMA SwifDownOrder ==
    ASSUME IInv, OrderInv, SwifDown, ~shortened
    PROVE  DownOrder(keys', size_', u') /\ pc' = "down"
<1>1. /\ ~broken /\ pc = "down" /\ Smallest # u /\ SwapNode(Smallest, u) /\ u' = Smallest
      /\ UNCHANGED <<size_, expire, pc>>
  BY DEF SwifDown
<1>2. /\ u \in 1..size_ /\ size_ \in Nat /\ keys \in [1..size_ -> Int]
      /\ Smallest \in 2..size_ /\ Smallest \in 1..size_ /\ Parent(Smallest) = u
      /\ keys[Smallest] < keys[u]
      /\ \A j \in 2..size_ : Parent(j) = u => keys[Smallest] <= keys[j]
  BY <1>1, SmallestUsed, SmallestChild, KeysType, UsedSlots
<1>3. keys' = [keys EXCEPT ![Smallest] = keys[u], ![u] = keys[Smallest]]
  BY <1>1, <1>2, SwapKeys
<1>4. keys' \in [1..size_ -> Int]
  BY <1>2, <1>3
<1>5. DownOrder(keys, size_, u)
  BY <1>1, OrderInvHeld
<1>6. DownOrder(keys', size_, Smallest)
  BY <1>2, <1>3, <1>4, <1>5, DownSwap
<1>7. QED
  BY <1>1, <1>6

\* When swifdown_() stops all is in order.
LEMMA SwifDownEndOrder ==
    ASSUME IInv, OrderInv, SwifDownEnd, ~shortened
    PROVE  \A j \in 2..size_ : Edge(keys, j)
<1>1. ~broken /\ pc = "down" /\ Smallest = u
  BY DEF SwifDownEnd
<1>2. DownOrder(keys, size_, u) /\ \A j \in 2..size_ : Parent(j) = u => keys[u] <= keys[j]
  BY <1>1, OrderInvHeld, SmallestChild
<1>3. QED
  BY <1>2 DEF DownOrder, Edge

\* Every step keeps the order.
LEMMA OrderStep == IInv /\ OrderInv /\ [Next]_vars => OrderInv'
<1> SUFFICES ASSUME IInv, OrderInv, [Next]_vars, ~shortened', ~broken'
             PROVE  /\ ~Sifting' => \A j \in 2..size_' : Edge(keys', j)
                    /\ pc' = "up" => UpOrder(keys', size_', u', idx')
                    /\ pc' = "down" => DownOrder(keys', size_', u')
  BY DEF OrderInv
<1>1. ASSUME NEW t \in Timers, AddTimer(t) PROVE UpOrder(keys', size_', u', idx') /\ pc' = "up"
  BY <1>1, AddOrder
<1>2. ASSUME NEW t \in Timers, AdjustTimer(t) PROVE DownOrder(keys', size_', u') /\ pc' = "down"
  BY <1>2, AdjustOrder
<1>3. ASSUME NEW t \in InHeap, NEW caller \in {"del", "tick"}, Detach(t, caller), ~broken, ~Sifting
      PROVE  IF pc' = "up" THEN UpOrder(keys', size_', u', idx')
                           ELSE ~Sifting' /\ \A j \in 2..size_' : Edge(keys', j)
  <2>1. ~shortened
    BY <1>3 DEF Detach
  <2>2. QED
    BY <1>3, <2>1, DetachOrder
<1>4. ASSUME NEW t \in Timers, DelTimer(t)
      PROVE  IF pc' = "up" THEN UpOrder(keys', size_', u', idx')
                           ELSE ~Sifting' /\ \A j \in 2..size_' : Edge(keys', j)
  BY <1>3, <1>4 DEF DelTimer, Idle, IInv, CallInv, Sifting
<1>5. CASE TickFire
  <2>1. heap_[1] \in InHeap /\ ~broken /\ ~Sifting
    BY <1>5, UsedSlots DEF TickFire, InHeap, Sifting
  <2>2. QED
    BY <1>3, <1>5, <2>1 DEF TickFire, Sifting
<1>6. CASE SwifUp
  <2>1. ~shortened
    BY <1>6 DEF SwifUp
  <2>2. QED
    BY <1>6, <2>1, SwifUpOrder DEF Sifting
<1>7. CASE SwifUpEnd
  <2>1. ~shortened /\ UNCHANGED <<keys, size_>> /\ (op # "add" => idx' = idx)
    BY <1>7 DEF SwifUpEnd, Return, keys
  <2>2. IF op = "add" THEN pc' = "idle" ELSE pc' = "down" /\ u' = idx
    BY <1>7 DEF SwifUpEnd, Return
  <2>3. QED
    BY <1>7, <2>1, <2>2, SwifUpEndOrder DEF Sifting
<1>8. CASE SwifDown
  <2>1. ~shortened
    BY <1>8 DEF SwifDown
  <2>2. QED
    BY <1>8, <2>1, SwifDownOrder DEF Sifting
<1>9. CASE SwifDownEnd
  <2>1. ~shortened /\ UNCHANGED <<keys, size_>> /\ pc' \in {"idle", "test"}
    BY <1>9 DEF SwifDownEnd, Return, keys
  <2>2. QED
    BY <1>9, <2>1, SwifDownEndOrder DEF Sifting
<1>10. CASE Tick \/ TickEnd \/ Clock
  <2>1. /\ ~shortened /\ ~broken /\ ~Sifting
        /\ UNCHANGED <<keys, size_>> /\ pc' \in {"idle", "test"}
    BY <1>10 DEF Tick, TickEnd, Clock, Idle, node, Return, keys, IInv, CallInv, Sifting
  <2>2. QED
    BY <2>1, OrderInvHeld DEF Sifting
<1>11. CASE UNCHANGED vars
  <2>1. ~shortened /\ ~broken /\ UNCHANGED <<keys, size_, pc, u, idx>>
    BY <1>11 DEF vars, node, keys
  <2>2. QED
    BY <2>1, OrderInvHeld DEF Sifting
<1>12. QED
  BY <1>1, <1>2, <1>4, <1>5, <1>6, <1>7, <1>8, <1>9, <1>10, <1>11 DEF Next, Sifting

\* The empty heap is in order.
LEMMA InitOrder == Init => OrderInv
<1>1. Init => 2..size_ = {} /\ ~Sifting
  BY DEF Init, Sifting
<1>2. QED
  BY <1>1 DEF OrderInv, Sifting

\* Between two operations the array is a min-heap unless a deadline was moved to an
\* earlier time: add_timer(), adjust_timer(), del_timer() and tick() all restore it.
THEOREM HeapOrdered == Spec => []OrderedUnlessShortened
<1>1. Init => OrderInv
  BY InitOrder
<1>2. IInv /\ OrderInv => OrderedUnlessShortened
  <2>1. SUFFICES ASSUME IInv, OrderInv, Idle, ~shortened PROVE Ordered
    BY DEF OrderedUnlessShortened
  <2>2. ~broken /\ ~Sifting /\ size_ \in Nat
    BY <2>1, UsedSlots DEF Idle, IInv, CallInv, Sifting
  <2>3. ASSUME NEW j \in 2..size_ PROVE expire[heap_[j \div 2]] <= expire[heap_[j]]
    <3>1. Edge(keys, j) /\ Parent(j) \in 1..size_ /\ j \in 1..size_
      BY <2>1, <2>2, OrderInvHeld, Parents
    <3>2. QED
      BY <3>1 DEF Edge, keys, Parent
  <2>4. QED
    BY <2>3 DEF Ordered
<1>3. QED
  BY <1>1, <1>2, OrderStep, IInvHolds, PTL DEF Spec

-------------------------------------------------------------------------------
(* the root is the minimum *)

\* A set of numbers that has an element has a least one.
LEMMA LeastNumber ==
    ASSUME NEW T \in SUBSET Nat, T # {}
    PROVE  \E m \in T : \A k \in T : ~(k < m)
<1> DEFINE R == OpToRel(<, Nat)
<1>1. IsWellFoundedOn(R, Nat)
  BY NatLessThanWellFounded
<1>2. \A k, m \in Nat : k < m => <<k, m>> \in R
  BY DEF OpToRel
<1> HIDE DEF R
<1>3. PICK m \in T : \A k \in T : <<k, m>> \notin R
  BY <1>1, WFMin
<1>4. \A k \in T : ~(k < m)
  BY <1>2, <1>3
<1>5. QED
  BY <1>4

\* In an ordered heap no deadline is before the one of the root: the first slot with an
\* earlier one would have a parent with an earlier one.
LEMMA RootMinimum ==
    ASSUME NEW n \in Nat, NEW K \in [1..n -> Int], \A j \in 2..n : Edge(K, j)
    PROVE  \A i \in 1..n : K[1] <= K[i]
<1> DEFINE T == {i \in 1..n : K[i] < K[1]}
<1>1. SUFFICES ASSUME T # {} PROVE FALSE
  <2>1. ASSUME NEW i \in 1..n, T = {} PROVE K[1] <= K[i]
    <3>1. ~(K[i] < K[1]) /\ 1 \in 1..n
      BY <2>1
    <3>2. QED
      BY <3>1
  <2>2. QED
    BY <2>1
<1>2. PICK m \in T : \A k \in T : ~(k < m)
  <2>1. T \in SUBSET Nat
    OBVIOUS
  <2>2. QED
    BY <1>1, <2>1, LeastNumber
<1>3. m \in 2..n /\ K[m] < K[1] /\ 1 \in 1..n
  <2>1. m \in 1..n /\ K[m] < K[1]
    BY <1>2
  <2>2. m # 1
    BY <2>1
  <2>3. QED
    BY <2>1, <2>2
<1>4. Parent(m) \in 1..n /\ Parent(m) < m /\ K[Parent(m)] <= K[m]
  BY <1>3, Parents DEF Edge
<1>5. Parent(m) \in T
  BY <1>3, <1>4
<1>6. QED
  BY <1>2, <1>4, <1>5

\* A tick leaves no expired timer behind unless a deadline was moved to an earlier time.
THEOREM TickComplete == Spec => []NoneOverdueUnlessShortened
<1>1. Init => OrderInv
  BY InitOrder
<1>2. IInv /\ OrderInv => NoneOverdueUnlessShortened
  <2>1. SUFFICES ASSUME IInv, OrderInv, ~shortened, op = "tick", pc = "test",
                        size_ > 0 => now < expire[heap_[1]], NEW t \in InHeap
                 PROVE  now < expire[t]
    BY DEF NoneOverdueUnlessShortened, NoneOverdue
  <2>2. /\ ~broken /\ size_ \in Nat /\ keys \in [1..size_ -> Int] /\ now \in Int
        /\ \A j \in 2..size_ : Edge(keys, j)
    BY <2>1, UsedSlots, KeysType, OrderInvHeld, SizesAssumption
       DEF IInv, TypeOK, CallInv, Sifting
  <2>3. PICK i \in 1..size_ : t = heap_[i]
    BY DEF InHeap
  <2>4. 1 \in 1..size_ /\ size_ > 0
    BY <2>2
  <2>5. keys[1] <= keys[i]
    BY <2>2, RootMinimum
  <2>6. keys[1] = expire[heap_[1]] /\ keys[i] = expire[t] /\ keys[1] \in Int /\ keys[i] \in Int
    BY <2>2, <2>3, <2>4 DEF keys
  <2>7. QED
    BY <2>1, <2>2, <2>4, <2>5, <2>6
<1>3. QED
  BY <1>1, <1>2, OrderStep, IInvHolds, PTL DEF Spec

-------------------------------------------------------------------------------
(* the heap implements the set of timers *)

\* As many timers are set as slots are used.
LEMMA HeapCardinality ==
    ASSUME IInv
    PROVE  IsFiniteSet(InHeap) /\ Cardinality(InHeap) = size_
<1> DEFINE f == [i \in 1..size_ |-> heap_[i]]
<1>1. size_ \in Nat
  BY UsedSlots
<1>2. f \in Bijection(1..size_, InHeap)
  <2>1. f \in [1..size_ -> InHeap] /\ \A t \in InHeap : \E i \in 1..size_ : f[i] = t
    BY DEF InHeap
  <2>2. \A i, j \in 1..size_ : f[i] = f[j] => i = j
    BY UsedSlots
  <2>3. QED
    BY <2>1, <2>2, Fun_IsBij
<1>3. ExistsBijection(1..size_, InHeap)
  BY <1>2, Fun_ExistsBij
<1>4. QED
  BY <1>1, <1>3, FS_CountingElements, FS_NatBijection

\* swapnode_() leaves the set of timers alone.
LEMMA SwapSet ==
    ASSUME IInv, NEW a \in 1..size_, NEW b \in 1..size_, SwapNode(a, b), size_' = size_
    PROVE  InHeap' = InHeap
<1>1. a \in Slots /\ b \in Slots /\ 1..size_ \subseteq Slots
  BY UsedSlots
<1>2. heap_ \in [Slots -> Timers \union {Null}]
  BY DEF IInv, TypeOK
<1>3. heap_' = [heap_ EXCEPT ![a] = heap_[b], ![b] = heap_[a]]
  BY DEF SwapNode
<1>4. /\ heap_'[a] = heap_[b] /\ heap_'[b] = heap_[a]
      /\ \A i \in 1..size_ : i # a /\ i # b => heap_'[i] = heap_[i]
  BY <1>1, <1>2, <1>3
<1>5. ASSUME NEW i \in 1..size_
      PROVE  (\E k \in 1..size_ : heap_'[i] = heap_[k]) /\ \E k \in 1..size_ : heap_[i] = heap_'[k]
  BY <1>4
<1>6. QED
  BY <1>5 DEF InHeap

\* del_timer() takes out the timer it is given and no other.
LEMMA DetachSet ==
    ASSUME IInv, NEW t \in InHeap, NEW caller \in {"del", "tick"}, Detach(t, caller)
    PROVE  /\ InHeap' = InHeap \ {t}
           /\ expire' = [expire EXCEPT ![t] = 0]
           /\ broken' \in {FALSE, InHeap # {t}}
           /\ t = heap_[1] => broken' = FALSE
<1> DEFINE i == ref_[t]
           last == heap_[size_]
<1>1. t \in Timers /\ i \in 1..size_ /\ heap_[i] = t
  BY UsedSlots DEF InHeap, IInv, IndexConsistent
<1>2. /\ size_ \in Nat \ {0} /\ size_ \in Slots /\ i \in Slots /\ 1..size_ \subseteq Slots
      /\ heap_ \in [Slots -> Timers \union {Null}]
  BY <1>1, UsedSlots DEF IInv, TypeOK
<1>3. /\ heap_' = [heap_ EXCEPT ![i] = last, ![size_] = Null]
      /\ expire' = [expire EXCEPT ![t] = 0]
      /\ size_' = size_ - 1
      /\ broken' = (i = size_ /\ size_ > 1)
  BY DEF Detach
<1>4. ASSUME NEW k \in 1..size_'
      PROVE  heap_'[k] \in InHeap \ {t}
  <2>1. k \in 1..size_ /\ k # size_ /\ k \in Slots /\ size_ \in 1..size_
    BY <1>2, <1>3
  <2>2. heap_'[k] = IF k = i THEN last ELSE heap_[k]
    BY <1>2, <1>3, <2>1
  <2>3. QED
    BY <1>1, <2>1, <2>2, UsedSlots DEF InHeap
<1>5. ASSUME NEW x \in InHeap, x # t
      PROVE  \E k \in 1..size_' : heap_'[k] = x
  <2>1. PICK m \in 1..size_ : heap_[m] = x
    BY DEF InHeap
  <2>2. m # i /\ m \in Slots
    BY <1>1, <1>2, <1>5, <2>1
  <2>3. CASE m = size_
    <3>1. i \in 1..size_' /\ heap_'[i] = x
      BY <1>1, <1>2, <1>3, <2>1, <2>2, <2>3
    <3>2. QED
      BY <3>1
  <2>4. CASE m # size_
    <3>1. m \in 1..size_' /\ heap_'[m] = x
      BY <1>2, <1>3, <2>1, <2>2, <2>4
    <3>2. QED
      BY <3>1
  <2>5. QED
    BY <2>3, <2>4
<1>6. InHeap' = InHeap \ {t}
  BY <1>4, <1>5 DEF InHeap
<1>7. size_ > 1 => InHeap # {t}
  <2>1. SUFFICES ASSUME size_ > 1 PROVE InHeap # {t}
    OBVIOUS
  <2>2. 1 \in 1..size_ /\ 2 \in 1..size_
    BY <1>2, <2>1
  <2>3. heap_[1] \in InHeap /\ heap_[2] \in InHeap /\ heap_[1] # heap_[2]
    BY <2>2, UsedSlots DEF InHeap
  <2>4. QED
    BY <2>3
<1>8. t = heap_[1] => i = 1
  <2>1. 1 \in 1..size_
    BY <1>2
  <2>2. QED
    BY <1>1, <2>1, UsedSlots
<1>9. broken' \in {FALSE, InHeap # {t}} /\ (t = heap_[1] => broken' = FALSE)
  <2>1. CASE i = size_ /\ size_ > 1
    <3>1. broken' = TRUE /\ InHeap # {t} /\ t # heap_[1]
      <4>1. broken' = TRUE
        BY <1>3, <2>1
      <4>2. i # 1
        BY <1>2, <2>1
      <4>3. QED
        BY <1>7, <1>8, <2>1, <4>1, <4>2
    <3>2. QED
      BY <3>1
  <2>2. CASE ~(i = size_ /\ size_ > 1)
    BY <1>3, <2>2
  <2>3. QED
    BY <2>1, <2>2
<1>10. QED
  BY <1>3, <1>6, <1>9

\* Each operation of the heap is the step of TimerSet of that name, taken when it
\* begins; the iterations of the sifts are invisible to the caller.
LEMMA SetStep == IInv /\ [Next]_vars => [Set!Next]_Set!vars
<1> SUFFICES ASSUME IInv, [Next]_vars PROVE [Set!Next]_Set!vars
  OBVIOUS
<1> DEFINE Deadlines == 0..(MaxClock + 3 * TIMESLOT)
<1> USE DEF Set!vars
<1>1. ASSUME NEW t \in Timers, AddTimer(t) PROVE Set!Next
  <2>1. now + 3 * TIMESLOT \in Deadlines /\ size_ \in Nat /\ size_ \in Slots \union {0}
    BY SizesAssumption, UsedSlots DEF IInv, TypeOK
  <2>2. ~broken /\ op = "none" /\ op' # "tick" /\ t \notin InHeap /\ now' = now
    BY <1>1 DEF AddTimer, Idle
  <2>3. CASE size_ + 1 \in Slots
    <3>1. /\ size_' = size_ + 1 /\ heap_' = [heap_ EXCEPT ![size_ + 1] = t]
          /\ expire' = [expire EXCEPT ![t] = now + 3 * TIMESLOT] /\ broken' = broken
      BY <1>1, <2>3 DEF AddTimer
    <3>2. Cardinality(InHeap) < MAX_HEAP_SIZE - 1
      BY <2>1, <2>3, HeapCardinality, SizesAssumption DEF Slots
    <3>3. heap_'[size_ + 1] = t /\ \A i \in 1..size_ : heap_'[i] = heap_[i]
      BY <2>1, <2>3, <3>1, UsedSlots DEF IInv, TypeOK
    <3>4. 1..size_' = 1..size_ \union {size_ + 1}
      BY <2>1, <3>1
    <3>5. InHeap' = InHeap \union {t}
      BY <3>3, <3>4 DEF InHeap
    <3>6. Set!Add(t, now + 3 * TIMESLOT)
      BY <2>2, <3>1, <3>2, <3>5 DEF Set!Add, Set!Cardinality, Cardinality
    <3>7. QED
      BY <2>1, <3>6 DEF Set!Next
  <2>4. CASE size_ + 1 \notin Slots
    <3>1. broken' = TRUE /\ UNCHANGED <<size_, heap_, expire, op>>
      BY <1>1, <2>4 DEF AddTimer
    <3>2. ~(Cardinality(InHeap) < MAX_HEAP_SIZE - 1)
      BY <2>1, <2>4, HeapCardinality, SizesAssumption DEF Slots
    <3>3. Set!Add(t, now + 3 * TIMESLOT)
      BY <2>2, <3>1, <3>2 DEF Set!Add, InHeap, Set!Cardinality, Cardinality
    <3>4. QED
      BY <2>1, <3>3 DEF Set!Next
  <2>5. QED
    BY <2>3, <2>4
<1>2. ASSUME NEW t \in Timers, AdjustTimer(t) PROVE Set!Next
  <2>1. now + 2 * TIMESLOT \in Deadlines
    BY SizesAssumption DEF IInv, TypeOK
  <2>2. Set!Adjust(t, now + 2 * TIMESLOT)
    BY <1>2 DEF AdjustTimer, Idle, Set!Adjust, InHeap
  <2>3. QED
    BY <2>1, <2>2 DEF Set!Next
<1>3. ASSUME NEW t \in Timers, DelTimer(t) PROVE Set!Next
  <2>1. /\ t \in InHeap /\ ~broken /\ op = "none" /\ Detach(t, "del")
        /\ op' # "tick" /\ now' = now
    BY <1>3 DEF DelTimer, Idle, Detach, Return
  <2>2. Set!Del(t)
    BY <2>1, DetachSet DEF Set!Del, Set!Remove
  <2>3. QED
    BY <1>3, <2>2 DEF Set!Next
<1>4. CASE Tick
  <2>1. Set!BeginTick
    BY <1>4 DEF Tick, Idle, Set!BeginTick, InHeap
  <2>2. QED
    BY <2>1 DEF Set!Next
<1>5. CASE TickFire
  <2>1. /\ heap_[1] \in InHeap /\ heap_[1] \in Timers /\ Detach(heap_[1], "tick")
        /\ expire[heap_[1]] <= now /\ ~broken /\ op = "tick" /\ op' = "tick" /\ now' = now
    BY <1>5, UsedSlots DEF TickFire, InHeap, Detach
  <2>2. Set!Fire(heap_[1])
    <3>1. InHeap' = InHeap \ {heap_[1]} /\ expire' = [expire EXCEPT ![heap_[1]] = 0]
      BY <2>1, DetachSet
    <3>2. broken' = FALSE /\ broken = FALSE
      BY <2>1, DetachSet DEF IInv, TypeOK
    <3>3. (op' = "tick") = (op = "tick")
      BY <2>1
    <3>4. QED
      BY <2>1, <3>1, <3>2, <3>3 DEF Set!Fire, Set!Remove, Set!Expired
  <2>3. QED
    BY <2>1, <2>2 DEF Set!Next
<1>6. CASE TickEnd
  <2>1. ~broken /\ op = "tick" /\ op' # "tick" /\ UNCHANGED <<InHeap, expire, now, broken>>
    BY <1>6 DEF TickEnd, Return, InHeap
  <2>2. InHeap = {} \/ \E t \in InHeap : ~Set!Expired(t)
    <3>1. CASE size_ = 0
      BY <3>1 DEF InHeap
    <3>2. CASE size_ # 0
      <4>1. heap_[1] \in InHeap /\ heap_[1] \in Timers
        BY <3>2, UsedSlots DEF InHeap
      <4>2. now < expire[heap_[1]] /\ now \in Int /\ expire[heap_[1]] \in Int
        BY <1>6, <3>2, <4>1, UsedSlots, SizesAssumption DEF TickEnd, IInv, TypeOK
      <4>3. QED
        BY <4>1, <4>2 DEF Set!Expired
    <3>3. QED
      BY <3>1, <3>2
  <2>3. QED
    BY <2>1, <2>2 DEF Set!Next, Set!EndTick
<1>7. CASE SwifUp
  <2>1. u \in 1..size_ /\ u \div 2 \in 1..size_
    <3>1. u \in 1..size_ /\ size_ \in Nat
      BY <1>7, UsedSlots DEF SwifUp, IInv, CallInv, Sifting
    <3>2. QED
      BY <1>7, <3>1, ParentSlot DEF SwifUp, AboveParent
  <2>2. QED
    BY <1>7, <2>1, SwapSet DEF SwifUp
<1>8. CASE SwifDown
  <2>1. u \in 1..size_ /\ Smallest \in 1..size_
    BY <1>8, SmallestUsed DEF SwifDown
  <2>2. QED
    BY <1>8, <2>1, SwapSet DEF SwifDown
<1>9. CASE SwifUpEnd
  <2>1. (op' = "tick") = (op = "tick")
    BY <1>9 DEF SwifUpEnd, Return
  <2>2. QED
    BY <1>9, <2>1 DEF SwifUpEnd, InHeap
<1>10. CASE SwifDownEnd
  <2>1. (op' = "tick") = (op = "tick")
    BY <1>10 DEF SwifDownEnd, Return
  <2>2. QED
    BY <1>10, <2>1 DEF SwifDownEnd, InHeap
<1>11. CASE Clock
  <2>1. Set!Clock
    BY <1>11 DEF Clock, Idle, node, Set!Clock, InHeap
  <2>2. QED
    BY <2>1 DEF Set!Next
<1>12. CASE UNCHANGED vars
  BY <1>12 DEF vars, node, InHeap
<1>13. QED
  BY <1>1, <1>2, <1>3, <1>4, <1>5, <1>6, <1>7, <1>8, <1>9, <1>10, <1>11, <1>12 DEF Next

\* The heap implements the abstract set of timers: a tick fires expired timers only,
\* and no other step but del_timer() removes one.
THEOREM HeapImplementsTimerSet == Spec => ImplementsTimerSet
<1>1. Init => Set!Init
  <2>1. SUFFICES ASSUME Init PROVE Set!Init
    OBVIOUS
  <2>2. InHeap = {}
    <3>1. 1..size_ = {}
      BY <2>1 DEF Init
    <3>2. QED
      BY <3>1 DEF InHeap
  <2>3. (op = "tick") = FALSE
    <3>1. op # "tick"
      BY <2>1 DEF Init
    <3>2. QED
      BY <3>1
  <2>4. QED
    BY <2>1, <2>2, <2>3 DEF Init, Set!Init
<1>2. QED
  BY <1>1, SetStep, IInvHolds, PTL DEF Spec, ImplementsTimerSet, Set!Spec
===============================================================================
