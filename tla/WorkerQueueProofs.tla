-------------------------- MODULE WorkerQueueProofs --------------------------
(***************************************************************************)
(* What holds of WorkerQueue for every number of threads and payments and  *)
(* every capacity.                                                         *)
(***************************************************************************)
EXTENDS WorkerQueue, FiniteSetTheorems, TLAPS

(***************************************************************************)
(* The ring: positions that are less than Capacity apart share no slot.    *)
(***************************************************************************)

\* pos % q.queue.size() is an index of the ring (enqueue, fetch_next).
LEMMA SlotOfIndex ==
  ASSUME NEW p \in Nat
  PROVE  SlotOf(p) \in 0..Capacity-1
BY QueueAssumption, SMT, SMTT(20) DEF SlotOf

\* Two positions less than a full ring apart never meet in a slot.
LEMMA SlotOfInjective ==
  ASSUME NEW p \in Nat, NEW q \in Nat,
         p - q < Capacity, q - p < Capacity,
         SlotOf(p) = SlotOf(q)
  PROVE  p = q
<1>1. Capacity \in Nat \ {0}
  BY QueueAssumption
<1>2. PICK i \in Int, r \in 0..Capacity-1 : p = Capacity * i + r /\ r = p % Capacity
  BY <1>1, SMT, SMTT(20)
<1>3. PICK j \in Int, s \in 0..Capacity-1 : q = Capacity * j + s /\ s = q % Capacity
  BY <1>1, SMT, SMTT(20)
<1>4. r = s
  BY <1>2, <1>3 DEF SlotOf
<1>5. p - q = Capacity * (i - j)
  <2> DEFINE x == Capacity * i
             y == Capacity * j
  <2>3. x \in Int /\ y \in Int /\ p = x + r /\ q = y + r
    BY <1>1, <1>2, <1>3, <1>4, SMT, SMTT(20)
  <2>1. p - q = x - y
    <3> HIDE DEF x, y
    <3> QED
      BY <1>1, <2>3, SMT, SMTT(20)
  <2>2. ASSUME NEW c \in Int, NEW a \in Int, NEW b \in Int
        PROVE  c * (a - b) = c * a - c * b
    BY SMT, SMTT(20)
  <2> QED
    BY <1>1, <2>1, <2>2, SMT, SMTT(20)
<1>6. i = j
  BY <1>1, <1>5, SMT, SMTT(20)
<1> QED
  BY <1>2, <1>3, <1>4, <1>6

(***************************************************************************)
(* Type correctness.                                                       *)
(***************************************************************************)

\* Every step of the queue keeps every variable in its type.
LEMMA TypeStep == TypeOK /\ [Next]_vars => TypeOK'
<1> SUFFICES ASSUME TypeOK, [Next]_vars
             PROVE  TypeOK'
  OBVIOUS
<1> USE DEF TypeOK, memory, locals, history
<1>1. ASSUME NEW t \in RestThreads, NEW p \in Payments, Post(t, p)
      PROVE  TypeOK'
  <2>1. pushed' \in Seq(Raw)
    BY <1>1, SMT, SMTT(20) DEF Post, EnqueueClaim, Raw
  <2>2. hazard' \subseteq Hazards
    BY <1>1, Zenon DEF Post, EnqueueClaim, Hazards
  <2>3. /\ pos' \in [Threads -> Nat]
        /\ val' \in [Threads -> Raw]
        /\ pending' \in [Threads -> SUBSET {"tail", "slot"}]
    BY <1>1, Zenon DEF Post, EnqueueClaim, Raw
  <2> QED
    BY <1>1, <2>1, <2>2, <2>3 DEF Post
<1>2. ASSUME NEW t \in Threads, StoreTail(t)
      PROVE  TypeOK'
  BY <1>2, SMT, SMTT(20) DEF StoreTail
<1>3. ASSUME NEW t \in Threads, StoreSlot(t)
      PROVE  TypeOK'
  <2>1. PICK v \in Raw : slots' = [slots EXCEPT ![SlotOf(pos[t])] = v]
    BY <1>3, Zenon DEF StoreSlot, Raw
  <2> QED
    BY <1>3, <2>1, Zenon DEF StoreSlot
<1>4. CASE FetchNext
  BY <1>4, SMT, SMTT(20) DEF FetchNext
<1>5. CASE CopySlot
  <2>1. SlotOf(head - 1) \in 0..Capacity-1
    BY <1>5, SlotOfIndex, SMT, SMTT(20) DEF CopySlot
  <2>2. /\ slots[SlotOf(head - 1)] \in Raw
        /\ \A t \in Storing(SlotOf(head - 1)) : val[t] \in Raw
        /\ Torn \in Raw
    BY <2>1 DEF Storing, Raw
  <2>3. PICK r \in Raw : /\ cur' = [cur EXCEPT ![Worker] = r]
                         /\ popped' = Append(popped, r)
    BY <1>5, <2>2, Zenon DEF CopySlot
  <2>4. cur' \in [Consumers -> Raw \cup {None}]
    BY <2>3, Zenon
  <2>6. popped' \in Seq(Raw)
    BY <2>3, SMT, SMTT(20)
  <2>5. hazard' \subseteq Hazards
    BY <1>5 DEF CopySlot, Hazards
  <2> QED
    BY <1>5, <2>4, <2>5, <2>6, Zenon DEF CopySlot
<1>6. ASSUME NEW c \in Pools, HandOff(c)
      PROVE  TypeOK'
  BY <1>6 DEF HandOff, Consumers
<1>7. ASSUME NEW c \in Consumers, Finish(c)
      PROVE  TypeOK'
  BY <1>7 DEF Finish
<1>8. ASSUME NEW c \in Consumers, TryAgain(c)
      PROVE  TypeOK'
  <2> USE DEF TryAgain
  <2>1. cur[c] \in Raw
    BY <1>8
  <2>2. pushed' \in Seq(Raw)
    BY <1>8, <2>1, SMT, SMTT(20) DEF EnqueueClaim
  <2>3. hazard' \subseteq Hazards
    BY <1>8, Zenon DEF EnqueueClaim, Hazards
  <2>4. /\ pos' \in [Threads -> Nat]
        /\ val' \in [Threads -> Raw]
        /\ pending' \in [Threads -> SUBSET {"tail", "slot"}]
    BY <1>8, <2>1, Zenon DEF EnqueueClaim
  <2>5. cur' \in [Consumers -> Raw \cup {None}]
    BY <1>8
  <2> QED
    BY <1>8, <2>2, <2>3, <2>4, <2>5
<1>9. CASE UNCHANGED vars
  BY <1>9 DEF vars
<1> QED
  BY <1>1, <1>2, <1>3, <1>4, <1>5, <1>6, <1>7, <1>8, <1>9 DEF Next

\* A newly constructed queue is type correct.
LEMMA TypeInit == Init => TypeOK
<1> SUFFICES ASSUME Init
             PROVE  TypeOK
  OBVIOUS
<1> USE DEF Init
<1>1. head \in Nat /\ tail \in Nat
  OBVIOUS
<1>2. slots \in [0..Capacity-1 -> Raw] /\ val \in [Threads -> Raw]
  BY DEF Raw
<1>3. pending \in [Threads -> SUBSET {"tail", "slot"}] /\ pos \in [Threads -> Nat]
  OBVIOUS
<1>4. copying \in BOOLEAN /\ (copying => head > 0)
  BY Zenon
<1>5. cur \in [Consumers -> Raw \cup {None}]
  OBVIOUS
<1>6. pushed \in Seq(Raw) /\ popped \in Seq(Raw)
  BY SMT, SMTT(20)
<1>7. done \subseteq Raw /\ hazard \subseteq Hazards
  OBVIOUS
<1> QED
  BY <1>1, <1>2, <1>3, <1>4, <1>5, <1>6, <1>7 DEF TypeOK

\* WorkerQueue is type correct: no enqueue or fetch_next leaves the ring.
THEOREM TypeCorrect == Spec => []TypeOK
  BY TypeInit, TypeStep, PTL DEF Spec


(***************************************************************************)
(* The inductive invariant.  CountInv holds whatever the threads do.       *)
(* TailInv says how tail counts the calls of enqueue while no two of them  *)
(* overlap.  RingInv says what the ring holds while no unsynchronised      *)
(* access has happened at all: the positions from ReadPos on are at most   *)
(* Capacity many, and each is in its slot unless its store is outstanding. *)
(***************************************************************************)

CountInv ==
  /\ head <= Len(pushed)
  /\ tail <= Len(pushed)
  /\ \A t \in Threads : "tail" \in pending[t] => pos[t] < Len(pushed)
  /\ Len(popped) = ReadPos

TailShape ==
  /\ head <= tail
  /\ \A t \in Threads :
       "tail" \in pending[t] => pos[t] = tail /\ Len(pushed) = tail + 1
  /\ \A t, u \in Threads :
       "tail" \in pending[t] /\ "tail" \in pending[u] => t = u
  /\ (\A t \in Threads : "tail" \notin pending[t]) => tail = Len(pushed)
  /\ \A t \in Threads : "slot" \in pending[t] => pos[t] < Len(pushed)
  /\ \A t, u \in Threads :
       "slot" \in pending[t] /\ "slot" \in pending[u] /\ t # u => pos[t] # pos[u]

TailInv == "overlap" \notin hazard => TailShape

RingShape ==
  /\ Len(pushed) - ReadPos <= Capacity
  /\ \A t \in Threads :
       "slot" \in pending[t] => pos[t] >= ReadPos /\ val[t] = pushed[pos[t] + 1]
  /\ \A i \in ReadPos..Len(pushed)-1 :
       (\A t \in Threads : "slot" \in pending[t] => pos[t] # i)
         => slots[SlotOf(i)] = pushed[i + 1]
  /\ \A i \in 1..ReadPos : popped[i] = pushed[i]

RingInv == hazard = {} => RingShape

BusyInv ==
  /\ copying => pending[Worker] = {} /\ cur[Worker] = None
  /\ \A c \in Consumers : cur[c] # None => pending[c] = {}

IInv == TypeOK /\ CountInv /\ TailInv /\ RingInv /\ BusyInv

\* The claim of an enqueue (`q.tail++`) keeps the inductive invariant.
LEMMA ClaimStep ==
  ASSUME IInv, TypeOK', NEW t \in Threads, NEW v \in Raw, EnqueueClaim(t, v),
         pending[t] = {}, UNCHANGED <<memory, copying, popped>>
  PROVE  CountInv' /\ TailInv' /\ RingInv'
<1> USE DEF IInv, TypeOK, memory, EnqueueClaim
<1>1. Len(pushed') = Len(pushed) + 1 /\ pushed'[Len(pushed) + 1] = v
  BY SMT, SMTT(20)
<1>2. \A i \in 1..Len(pushed) : pushed'[i] = pushed[i]
  BY SMT, SMTT(20)
<1>3. ReadPos' = ReadPos /\ ReadPos \in Nat
  BY SMT, SMTT(20) DEF ReadPos
<1>4. \A u \in Threads : u # t => /\ pending'[u] = pending[u]
                                 /\ pos'[u] = pos[u]
                                 /\ val'[u] = val[u]
  OBVIOUS
<1>5. pending'[t] = {"tail", "slot"} /\ pos'[t] = tail /\ val'[t] = v
  OBVIOUS
<1>6. CountInv'
  BY <1>1, <1>3, <1>4, <1>5, SMT, SMTT(20) DEF CountInv
<1>7. TailInv'
  <2> SUFFICES ASSUME "overlap" \notin hazard'
               PROVE  TailShape'
    BY DEF TailInv, TailShape
  <2>1. "overlap" \notin hazard /\ \A u \in Threads : "tail" \notin pending[u]
    OBVIOUS
  <2>2. tail = Len(pushed) /\ head <= tail
    BY <2>1 DEF TailInv, TailShape
  <2> QED
    BY <1>1, <1>4, <1>5, <2>1, <2>2, SMT, SMTT(20) DEF TailInv, TailShape
<1>8. RingInv'
  <2> SUFFICES ASSUME hazard' = {}
               PROVE  RingShape'
    BY Zenon DEF RingInv, RingShape
  <2>1. /\ hazard = {}
        /\ \A u \in Threads : "tail" \notin pending[u]
        /\ tail - ReadPos < Capacity
    <3>1. hazard = {}
      OBVIOUS
    <3>2. \A u \in Threads : "tail" \notin pending[u]
      BY Zenon
    <3>3. ~(tail - ReadPos >= Capacity)
      BY Zenon
    <3> QED
      BY <3>1, <3>2, <3>3, <1>3, QueueAssumption, SMT, SMTT(20)
  <2>2. tail = Len(pushed) /\ head <= tail
    BY <2>1 DEF TailInv, TailShape
  <2>3. ReadPos <= tail
    BY <2>2, <1>3, SMT, SMTT(20) DEF ReadPos
  <2>4. Len(pushed') - ReadPos' <= Capacity
    BY <1>1, <1>3, <2>1, <2>2, QueueAssumption, SMT, SMTT(20)
  <2>5. ASSUME NEW u \in Threads, "slot" \in pending'[u]
        PROVE  pos'[u] >= ReadPos' /\ val'[u] = pushed'[pos'[u] + 1]
    <3>1. CASE u = t
      BY <3>1, <1>1, <1>3, <1>5, <2>2, <2>3
    <3>2. CASE u # t
      BY <3>2, <1>2, <1>3, <1>4, <2>1, <2>5, SMT, SMTT(20)
         DEF RingInv, RingShape, TailInv, TailShape
    <3> QED
      BY <3>1, <3>2, Zenon
  <2>6. ASSUME NEW i \in ReadPos'..Len(pushed')-1,
               \A u \in Threads : "slot" \in pending'[u] => pos'[u] # i
        PROVE  slots'[SlotOf(i)] = pushed'[i + 1]
    <3>1. i # tail
      BY <1>5, <2>6
    <3>2. i \in ReadPos..Len(pushed)-1
      BY <3>1, <1>1, <1>3, <2>2, SMT, SMTT(20)
    <3>3. \A u \in Threads : "slot" \in pending[u] => pos[u] # i
      BY <1>4, <2>6
    <3>4. slots[SlotOf(i)] = pushed[i + 1]
      BY <3>2, <3>3, <2>1 DEF RingInv, RingShape
    <3> QED
      BY <3>2, <3>4, <1>2, <1>3, SMT, SMTT(20)
  <2>7. \A i \in 1..ReadPos' : popped'[i] = pushed'[i]
    BY <1>2, <1>3, <2>1, <2>2, <2>3, SMT, SMTT(20) DEF RingInv, RingShape
  <2> QED
    BY <2>4, <2>5, <2>6, <2>7, Zenon DEF RingShape
<1> QED
  BY <1>6, <1>7, <1>8

\* The store of tail + 1 keeps the inductive invariant.
LEMMA StoreTailStep ==
  ASSUME IInv, TypeOK', NEW t \in Threads, StoreTail(t)
  PROVE  CountInv' /\ TailInv' /\ RingInv'
<1> USE DEF IInv, TypeOK, StoreTail, history
<1>1. ReadPos' = ReadPos
  BY DEF ReadPos
<1>2. \A u \in Threads : u # t => pending'[u] = pending[u]
  OBVIOUS
<1>3. pending'[t] = pending[t] \ {"tail"}
  OBVIOUS
<1>4. CountInv'
  BY <1>1, <1>2, <1>3, SMT, SMTT(20) DEF CountInv
<1>5. TailInv'
  <2> SUFFICES ASSUME "overlap" \notin hazard
               PROVE  TailShape'
    BY DEF TailInv, TailShape
  <2>1. pos[t] = tail /\ Len(pushed) = tail + 1
    BY DEF TailInv, TailShape
  <2>2. \A u \in Threads : "tail" \notin pending'[u]
    BY <1>2, <1>3 DEF TailInv, TailShape
  <2> QED
    BY <1>2, <1>3, <2>1, <2>2, SMT, SMTT(20) DEF TailInv, TailShape
<1>6. RingInv'
  BY <1>1, <1>2, <1>3 DEF RingInv, RingShape
<1> QED
  BY <1>4, <1>5, <1>6

\* The store of the slot keeps the inductive invariant: without a hazard no
\* other outstanding or unread position shares the slot.
LEMMA StoreSlotStep ==
  ASSUME IInv, TypeOK', NEW t \in Threads, StoreSlot(t)
  PROVE  CountInv' /\ TailInv' /\ RingInv'
<1> USE DEF IInv, TypeOK, StoreSlot, history
<1>1. ReadPos' = ReadPos /\ ReadPos \in Nat
  BY SMT, SMTT(20) DEF ReadPos
<1>2. \A u \in Threads : u # t => pending'[u] = pending[u]
  OBVIOUS
<1>3. pending'[t] = pending[t] \ {"slot"}
  OBVIOUS
<1>4. CountInv'
  BY <1>1, <1>2, <1>3 DEF CountInv
<1>5. TailInv'
  BY <1>2, <1>3 DEF TailInv, TailShape
<1>6. RingInv'
  <2> SUFFICES ASSUME hazard = {}
               PROVE  RingShape'
    BY DEF RingInv
  <2>1. TailShape /\ RingShape
    BY DEF TailInv, RingInv
  <2>2. /\ pos[t] \in ReadPos..Len(pushed)-1
        /\ pos[t] \in Nat
        /\ val[t] = pushed[pos[t] + 1]
    BY <1>1, <2>1, SMT, SMTT(20) DEF TailShape, RingShape
  <2>3. ASSUME NEW i \in ReadPos..Len(pushed)-1, i # pos[t]
        PROVE  SlotOf(i) # SlotOf(pos[t])
    <3>1. i \in Nat /\ i - pos[t] < Capacity /\ pos[t] - i < Capacity
      BY <1>1, <2>1, <2>2, QueueAssumption, SMT, SMTT(20) DEF RingShape
    <3> QED
      BY <3>1, <2>2, <2>3, SlotOfInjective
  <2>4. Storing(SlotOf(pos[t])) = {t}
    <3>1. ASSUME NEW u \in Threads, u # t, "slot" \in pending[u]
          PROVE  SlotOf(pos[u]) # SlotOf(pos[t])
      <4>1. pos[u] \in ReadPos..Len(pushed)-1 /\ pos[u] # pos[t]
        BY <1>1, <2>1, <3>1, SMT, SMTT(20) DEF TailShape, RingShape
      <4> QED
        BY <4>1, <2>3
    <3> QED
      BY <3>1 DEF Storing
  <2>5. slots' = [slots EXCEPT ![SlotOf(pos[t])] = val[t]]
    BY <2>4
  <2>6. ASSUME NEW i \in ReadPos'..Len(pushed')-1,
               \A u \in Threads : "slot" \in pending'[u] => pos'[u] # i
        PROVE  slots'[SlotOf(i)] = pushed'[i + 1]
    <3>0. i \in Nat /\ SlotOf(i) \in DOMAIN slots
      <4>1. i \in ReadPos..Len(pushed)-1
        BY <1>1
      <4>2. i \in Nat
        BY <4>1, <1>1, SMT, SMTT(20)
      <4> QED
        BY <4>2, SlotOfIndex
    <3>1. CASE i = pos[t]
      BY <3>0, <3>1, <2>2, <2>5
    <3>2. CASE i # pos[t]
      <4>1. SlotOf(i) # SlotOf(pos[t])
        BY <1>1, <3>2, <2>3
      <4>2. \A u \in Threads : "slot" \in pending[u] => pos[u] # i
        BY <1>2, <2>6, <3>2
      <4>3. slots[SlotOf(i)] = pushed[i + 1]
        BY <1>1, <2>1, <4>2 DEF RingShape
      <4> QED
        BY <3>0, <4>1, <4>3, <2>5
    <3> QED
      BY <3>1, <3>2
  <2>7. \A u \in Threads : "slot" \in pending'[u] =>
          pos'[u] >= ReadPos' /\ val'[u] = pushed'[pos'[u] + 1]
    BY <1>1, <1>2, <1>3, <2>1 DEF RingShape
  <2> QED
    BY <1>1, <2>1, <2>6, <2>7 DEF RingShape
<1> QED
  BY <1>4, <1>5, <1>6

\* Advancing head keeps the inductive invariant: the position moves from
\* "not fetched" to "being copied" and ReadPos stays.
LEMMA FetchNextStep ==
  ASSUME IInv, TypeOK', FetchNext
  PROVE  CountInv' /\ TailInv' /\ RingInv'
<1> USE DEF IInv, TypeOK, FetchNext, history, Idle
<1>1. ReadPos' = ReadPos
  BY SMT, SMTT(20) DEF ReadPos
<1>2. CountInv'
  BY <1>1, SMT, SMTT(20) DEF CountInv
<1>3. TailInv'
  BY SMT, SMTT(20) DEF TailInv, TailShape
<1>4. RingInv'
  BY <1>1 DEF RingInv, RingShape
<1> QED
  BY <1>2, <1>3, <1>4

\* Copying the slot out keeps the inductive invariant: without a hazard the
\* slot holds what was enqueued at that position.
LEMMA CopySlotStep ==
  ASSUME IInv, TypeOK', CopySlot
  PROVE  CountInv' /\ TailInv' /\ RingInv'
<1> USE DEF IInv, TypeOK
<1>a. /\ copying /\ ~copying'
      /\ hazard' = hazard \cup {h \in {"early"} : Storing(SlotOf(head - 1)) # {}}
      /\ UNCHANGED <<head, tail, slots, pending, pos, val, pushed>>
  BY DEF CopySlot, memory
<1>1. ReadPos = head - 1 /\ ReadPos' = head /\ head \in Nat \ {0}
  BY <1>a, SMT, SMTT(20) DEF ReadPos
<1>2. PICK r : popped' = Append(popped, r)
  BY DEF CopySlot
<1>3. /\ Len(popped') = Len(popped) + 1
      /\ popped'[Len(popped) + 1] = r
      /\ \A i \in 1..Len(popped) : popped'[i] = popped[i]
  BY <1>2, SMT, SMTT(20)
<1>4. CountInv'
  BY <1>a, <1>1, <1>3, SMT, SMTT(20) DEF CountInv
<1>5. TailInv'
  BY <1>a DEF TailInv, TailShape
<1>6. RingInv'
  <2> SUFFICES ASSUME hazard' = {}
               PROVE  RingShape'
    BY DEF RingInv
  <2>1. hazard = {} /\ Storing(SlotOf(head - 1)) = {}
    BY <1>a, Zenon
  <2>2. TailShape /\ RingShape
    BY <2>1 DEF TailInv, RingInv
  <2>3. \A u \in Threads : "slot" \in pending[u] => pos[u] # head - 1
    BY <2>1 DEF Storing
  <2>4. slots[SlotOf(head - 1)] = pushed[head]
    <3>1. head - 1 \in ReadPos..Len(pushed)-1
      BY <1>1, SMT, SMTT(20) DEF CountInv
    <3>2. slots[SlotOf(head - 1)] = pushed[(head - 1) + 1]
      BY <2>2, <2>3, <3>1 DEF RingShape
    <3> QED
      BY <1>1, <3>2, SMT, SMTT(20)
  <2>5. popped' = Append(popped, slots[SlotOf(head - 1)])
    BY <2>1 DEF CopySlot
  <2>6. \A i \in 1..ReadPos' : popped'[i] = pushed'[i]
    BY <1>a, <1>1, <2>2, <2>4, <2>5, SMT, SMTT(20) DEF RingShape, CountInv
  <2>7. \A u \in Threads : "slot" \in pending'[u] =>
          pos'[u] >= ReadPos' /\ val'[u] = pushed'[pos'[u] + 1]
    BY <1>a, <1>1, <2>2, <2>3, SMT, SMTT(20) DEF RingShape
  <2>8. Len(pushed') - ReadPos' <= Capacity
    BY <1>a, <1>1, <2>2, QueueAssumption, SMT, SMTT(20) DEF RingShape
  <2>9. ASSUME NEW i \in ReadPos'..Len(pushed')-1,
               \A u \in Threads : "slot" \in pending'[u] => pos'[u] # i
        PROVE  slots'[SlotOf(i)] = pushed'[i + 1]
    <3>1. i \in ReadPos..Len(pushed)-1
      BY <1>a, <1>1, SMT, SMTT(20)
    <3>2. \A u \in Threads : "slot" \in pending[u] => pos[u] # i
      BY <1>a, <2>9
    <3>3. slots[SlotOf(i)] = pushed[i + 1]
      BY <3>1, <3>2, <2>2 DEF RingShape
    <3> QED
      BY <1>a, <3>3
  <2> QED
    BY <2>6, <2>7, <2>8, <2>9 DEF RingShape
<1> QED
  BY <1>4, <1>5, <1>6

\* The steps of worker_loop and process that leave the queue alone keep the
\* inductive invariant.
LEMMA QueueUntouched ==
  ASSUME IInv, UNCHANGED <<memory, pending, pos, val, copying, pushed, popped, hazard>>
  PROVE  CountInv' /\ TailInv' /\ RingInv'
<1> USE DEF IInv, memory
<1>1. ReadPos' = ReadPos
  BY DEF ReadPos
<1>2. CountInv'
  BY <1>1 DEF CountInv
<1>3. TailInv'
  BY DEF TailInv, TailShape
<1>4. RingInv'
  BY <1>1, Zenon DEF RingInv, RingShape
<1> QED
  BY <1>2, <1>3, <1>4

\* A thread that copies a slot out or processes a payment has no enqueue
\* under way, and every step keeps it so.
LEMMA BusyStep == TypeOK /\ BusyInv /\ [Next]_vars => BusyInv'
<1> SUFFICES ASSUME TypeOK, BusyInv, [Next]_vars
             PROVE  BusyInv'
  BY Zenon
<1> USE DEF TypeOK, BusyInv, Threads
<1>1. ASSUME NEW t \in RestThreads, NEW p \in Payments, Post(t, p)
      PROVE  BusyInv'
  <2>1. t \notin Consumers
    BY QueueAssumption DEF Consumers
  <2> QED
    BY <1>1, <2>1 DEF Post, EnqueueClaim, Consumers
<1>2. ASSUME NEW t \in Threads, StoreTail(t)
      PROVE  BusyInv'
  BY <1>2 DEF StoreTail, Consumers
<1>3. ASSUME NEW t \in Threads, StoreSlot(t)
      PROVE  BusyInv'
  BY <1>3 DEF StoreSlot, Consumers
<1>4. CASE FetchNext
  BY <1>4 DEF FetchNext, Idle, Consumers
<1>5. CASE CopySlot
  <2>1. PICK r : cur' = [cur EXCEPT ![Worker] = r]
    BY <1>5, Zenon DEF CopySlot
  <2> QED
    BY <1>5, <2>1 DEF CopySlot
<1>6. ASSUME NEW c \in Pools, HandOff(c)
      PROVE  BusyInv'
  BY <1>6, QueueAssumption DEF HandOff, Idle, Consumers
<1>7. ASSUME NEW c \in Consumers, Finish(c)
      PROVE  BusyInv'
  BY <1>7, SMT, SMTT(20) DEF Finish
<1>8. ASSUME NEW c \in Consumers, TryAgain(c)
      PROVE  BusyInv'
  BY <1>8, SMT, SMTT(20) DEF TryAgain, EnqueueClaim
<1>9. CASE UNCHANGED vars
  BY <1>9 DEF vars, locals
<1> QED
  BY <1>1, <1>2, <1>3, <1>4, <1>5, <1>6, <1>7, <1>8, <1>9 DEF Next

\* Every step of the specification keeps the inductive invariant.
LEMMA IInvStep == IInv /\ [Next]_vars => IInv'
<1> SUFFICES ASSUME IInv, [Next]_vars
             PROVE  IInv'
  OBVIOUS
<1>0. TypeOK /\ TypeOK' /\ BusyInv'
  BY TypeStep, BusyStep DEF IInv
<1>1. ASSUME NEW t \in RestThreads, NEW p \in Payments, Post(t, p)
      PROVE  IInv'
  BY <1>0, <1>1, ClaimStep DEF IInv, Post, Threads, Raw, Idle, memory
<1>2. ASSUME NEW t \in Threads, StoreTail(t)
      PROVE  IInv'
  BY <1>0, <1>2, StoreTailStep DEF IInv
<1>3. ASSUME NEW t \in Threads, StoreSlot(t)
      PROVE  IInv'
  BY <1>0, <1>3, StoreSlotStep DEF IInv
<1>4. CASE FetchNext
  BY <1>0, <1>4, FetchNextStep DEF IInv
<1>5. CASE CopySlot
  BY <1>0, <1>5, CopySlotStep DEF IInv
<1>6. ASSUME NEW c \in Pools, HandOff(c)
      PROVE  IInv'
  BY <1>0, <1>6, QueueUntouched DEF IInv, HandOff, history
<1>7. ASSUME NEW c \in Consumers, Finish(c)
      PROVE  IInv'
  BY <1>0, <1>7, QueueUntouched DEF IInv, Finish
<1>8. ASSUME NEW c \in Consumers, TryAgain(c)
      PROVE  IInv'
  <2>1. c \in Threads /\ cur[c] \in Raw /\ pending[c] = {}
    BY <1>0, <1>8 DEF TryAgain, Threads, TypeOK, IInv, BusyInv
  <2> QED
    BY <1>0, <1>8, <2>1, ClaimStep DEF IInv, TryAgain, memory
<1>9. CASE UNCHANGED vars
  BY <1>0, <1>9, QueueUntouched DEF IInv, vars, locals, history
<1> QED
  BY <1>1, <1>2, <1>3, <1>4, <1>5, <1>6, <1>7, <1>8, <1>9 DEF Next
\* The inductive invariant holds when the service is constructed.
LEMMA IInvInit == Init => IInv
<1> SUFFICES ASSUME Init
             PROVE  IInv
  OBVIOUS
<1>1. TypeOK
  BY TypeInit
<1>2. ReadPos = 0
  BY DEF Init, ReadPos
<1>3. CountInv
  BY <1>2, SMT, SMTT(20) DEF Init, CountInv
<1>4. BusyInv
  BY DEF Init, BusyInv, Threads, Consumers
<1>5. TailShape
  BY SMT, SMTT(20) DEF Init, TailShape
<1>6. RingShape
  BY <1>2, QueueAssumption, SMT, SMTT(20) DEF Init, RingShape
<1> QED
  BY <1>1, <1>3, <1>4, <1>5, <1>6 DEF IInv, TailInv, RingInv

\* The inductive invariant holds in every reachable state of the queue.
THEOREM QueueInvariant == Spec => []IInv
  BY IInvInit, IInvStep, PTL DEF Spec

\* For every number of threads and every capacity: head and tail never pass
\* the number of calls of enqueue, whatever the unsynchronised threads do.
THEOREM FetchesBounded == Spec => []NeverFetchesMoreThanPushed
<1>1. IInv => NeverFetchesMoreThanPushed
  BY DEF IInv, CountInv, NeverFetchesMoreThanPushed
<1> QED
  BY <1>1, QueueInvariant, PTL

\* For every number of threads and every capacity: while no two increments
\* of tail overlapped, enqueue loses no position and head stays behind tail.
THEOREM PositionsKept == Spec => []NoPositionLost
<1>1. IInv => NoPositionLost
  BY DEF IInv, TailInv, TailShape, NoPositionLost
<1> QED
  BY <1>1, QueueInvariant, PTL

\* For every number of threads and every capacity: while no unsynchronised
\* access happened, fetch_next returns what enqueue was given, in order.
THEOREM QueueIsFifo == Spec => []FifoUntilHazard
<1>1. IInv => FifoUntilHazard
  <2> SUFFICES ASSUME IInv, hazard = {}
               PROVE  popped = SubSeq(pushed, 1, ReadPos)
    BY DEF FifoUntilHazard
  <2> USE DEF IInv, TypeOK
  <2>1. ReadPos \in Nat /\ ReadPos <= Len(pushed) /\ Len(popped) = ReadPos
    BY SMT, SMTT(20) DEF ReadPos, CountInv
  <2>2. \A i \in 1..ReadPos : popped[i] = pushed[i]
    BY DEF RingInv, RingShape
  <2>3. /\ SubSeq(pushed, 1, ReadPos) \in Seq(Raw)
        /\ Len(SubSeq(pushed, 1, ReadPos)) = ReadPos
        /\ \A i \in 1..ReadPos : SubSeq(pushed, 1, ReadPos)[i] = pushed[i]
    BY <2>1, SMT, SMTT(20)
  <2> QED
    BY <2>1, <2>2, <2>3, SMT, SMTT(20)
<1> QED
  BY <1>1, QueueInvariant, PTL

(***************************************************************************)
(* Where the payments are.  PlaceInv says, while no unsynchronised access  *)
(* has happened, that only posted payments are in the queue, in a          *)
(* consumer's hands or done, that no two of these places hold the same     *)
(* payment, and that every payment ever pushed is in one of them.          *)
(***************************************************************************)

Waiting == ReadPos+1..Len(pushed)

PlaceShape ==
  /\ \A i \in 1..Len(pushed) : pushed[i] \in Payments
  /\ \A c \in Consumers : cur[c] # None => \E i \in 1..Len(pushed) : pushed[i] = cur[c]
  /\ \A x \in done : \E i \in 1..Len(pushed) : pushed[i] = x
  /\ \A i, j \in Waiting : pushed[i] = pushed[j] => i = j
  /\ \A i \in Waiting, c \in Consumers : cur[c] # pushed[i]
  /\ \A i \in Waiting : pushed[i] \notin done
  /\ \A c, d \in Consumers : cur[c] # None /\ cur[c] = cur[d] => c = d
  /\ \A c \in Consumers : cur[c] \notin done
  /\ \A i \in 1..Len(pushed) :
       \/ \E j \in Waiting : pushed[j] = pushed[i]
       \/ \E c \in Consumers : cur[c] = pushed[i]
       \/ pushed[i] \in done

PlaceInv == hazard = {} => PlaceShape

\* post_payment_handler: a new payment is in the queue and nowhere else.
LEMMA PostPlace ==
  ASSUME IInv, PlaceInv, NEW t \in RestThreads, NEW p \in Payments, Post(t, p)
  PROVE  PlaceInv'
<1> SUFFICES ASSUME hazard' = {}
             PROVE  PlaceShape'
  BY DEF PlaceInv
<1> DEFINE n == Len(pushed)
<1>1. PlaceShape
  BY Zenon DEF Post, EnqueueClaim, PlaceInv
<1>2. /\ Len(pushed') = n + 1 /\ pushed'[n + 1] = p /\ n \in Nat
      /\ \A i \in 1..n : pushed'[i] = pushed[i]
  BY SMT, SMTT(20) DEF Post, EnqueueClaim, IInv, TypeOK
<1>3. \A i \in 1..n : pushed[i] # p
  BY SMT, SMTT(20) DEF Post, IInv, TypeOK
<1>4. /\ ReadPos' = ReadPos /\ cur' = cur /\ done' = done
      /\ ReadPos \in Nat /\ ReadPos <= n
  BY SMT, SMTT(20) DEF Post, memory, ReadPos, IInv, TypeOK, CountInv
<1>5. \A c \in Consumers : cur[c] # p
  BY <1>1, <1>3, QueueAssumption DEF PlaceShape
<1>6. p \notin done
  BY <1>1, <1>3 DEF PlaceShape
<1>7. Waiting' = Waiting \cup {n + 1} /\ Waiting \subseteq 1..n
  BY <1>2, <1>4, SMT, SMTT(20) DEF Waiting
<1> HIDE DEF n
<1>8. /\ \A i \in 1..Len(pushed') : pushed'[i] \in Payments
      /\ \A i, j \in Waiting' : pushed'[i] = pushed'[j] => i = j
      /\ \A i \in Waiting', c \in Consumers : cur'[c] # pushed'[i]
      /\ \A i \in Waiting' : pushed'[i] \notin done'
  BY <1>1, <1>2, <1>3, <1>4, <1>5, <1>6, <1>7, SMT, SMTT(20) DEF PlaceShape, n
<1>9. /\ \A c \in Consumers : cur'[c] # None => \E i \in 1..Len(pushed') : pushed'[i] = cur'[c]
      /\ \A x \in done' : \E i \in 1..Len(pushed') : pushed'[i] = x
  BY <1>1, <1>2, <1>4, SMT, SMTT(20) DEF PlaceShape, n
<1>10. \A i \in 1..Len(pushed') :
         \/ \E j \in Waiting' : pushed'[j] = pushed'[i]
         \/ \E c \in Consumers : cur'[c] = pushed'[i]
         \/ pushed'[i] \in done'
  BY <1>1, <1>2, <1>4, <1>7, SMT, SMTT(20) DEF PlaceShape, n
<1> QED
  BY <1>1, <1>4, <1>8, <1>9, <1>10 DEF PlaceShape

\* process: a payment to be tried again moves from its thread to the queue.
LEMMA TryAgainPlace ==
  ASSUME IInv, PlaceInv, NEW c \in Consumers, TryAgain(c)
  PROVE  PlaceInv'
<1> SUFFICES ASSUME hazard' = {}
             PROVE  PlaceShape'
  BY DEF PlaceInv
<1> DEFINE n == Len(pushed)
           p == cur[c]
<1>1. PlaceShape
  BY DEF TryAgain, EnqueueClaim, PlaceInv
<1>2. /\ Len(pushed') = n + 1 /\ pushed'[n + 1] = p /\ n \in Nat
      /\ \A i \in 1..n : pushed'[i] = pushed[i]
  BY SMT, SMTT(20) DEF TryAgain, EnqueueClaim, IInv, TypeOK
<1>3. /\ \A i \in Waiting : pushed[i] # p
      /\ p # None /\ p \in Payments /\ p \notin done
  BY <1>1 DEF PlaceShape, TryAgain
<1>4. /\ ReadPos' = ReadPos /\ done' = done
      /\ ReadPos \in Nat /\ ReadPos <= n
  BY SMT, SMTT(20) DEF TryAgain, memory, ReadPos, IInv, TypeOK, CountInv
<1>5. cur'[c] = None /\ \A d \in Consumers \ {c} : cur'[d] = cur[d] /\ cur[d] # p
  BY <1>1, <1>3, Zenon DEF PlaceShape, TryAgain, IInv, TypeOK
<1>6. None \notin Payments /\ None \notin done
  BY QueueAssumption DEF IInv, TypeOK, Raw
<1>7. Waiting' = Waiting \cup {n + 1} /\ Waiting \subseteq 1..n
  BY <1>2, <1>4, SMT, SMTT(20) DEF Waiting
<1> HIDE DEF n, p
<1>8. /\ \A i \in 1..Len(pushed') : pushed'[i] \in Payments
      /\ \A i, j \in Waiting' : pushed'[i] = pushed'[j] => i = j
      /\ \A i \in Waiting' : pushed'[i] \notin done'
  BY <1>1, <1>2, <1>3, <1>4, <1>7, SMT, SMTT(20) DEF PlaceShape, n
<1>9. \A i \in Waiting', d \in Consumers : cur'[d] # pushed'[i]
  <2> SUFFICES ASSUME NEW i \in Waiting', NEW d \in Consumers
               PROVE  cur'[d] # pushed'[i]
    BY Zenon
  <2>1. CASE d = c
    BY <1>2, <1>5, <1>6, <1>7, <1>8, <2>1, SMT, SMTT(20)
  <2>2. CASE d # c
    BY <1>1, <1>2, <1>5, <1>7, <2>2, ZenonT(40) DEF PlaceShape
  <2> QED
    BY <2>1, <2>2
<1>10. /\ \A d \in Consumers : cur'[d] # None => \E i \in 1..Len(pushed') : pushed'[i] = cur'[d]
       /\ \A x \in done' : \E i \in 1..Len(pushed') : pushed'[i] = x
  BY <1>1, <1>2, <1>4, <1>5, SMT, SMTT(20) DEF PlaceShape, n
<1>11. \A i \in 1..Len(pushed') :
         \/ \E j \in Waiting' : pushed'[j] = pushed'[i]
         \/ \E d \in Consumers : cur'[d] = pushed'[i]
         \/ pushed'[i] \in done'
  <2> SUFFICES ASSUME NEW i \in 1..Len(pushed'), pushed'[i] # p, i \in 1..n
               PROVE  \/ \E j \in Waiting' : pushed'[j] = pushed'[i]
                      \/ \E d \in Consumers : cur'[d] = pushed'[i]
                      \/ pushed'[i] \in done'
    BY <1>2, <1>7, SMT, SMTT(20)
  <2>1. \/ \E j \in Waiting : pushed[j] = pushed[i]
        \/ \E d \in Consumers : cur[d] = pushed[i]
        \/ pushed[i] \in done
    BY <1>1, Zenon DEF PlaceShape, n
  <2> QED
    BY <1>2, <1>4, <1>5, <1>7, <2>1, Zenon DEF p
<1>12. /\ \A d, e \in Consumers : cur'[d] # None /\ cur'[d] = cur'[e] => d = e
       /\ \A d \in Consumers : cur'[d] \notin done'
  BY <1>1, <1>4, <1>5, <1>6, SMT, SMTT(20) DEF PlaceShape
<1> QED
  BY <1>8, <1>9, <1>10, <1>11, <1>12 DEF PlaceShape

\* fetch_next: the oldest waiting payment moves from the queue to the worker.
LEMMA CopyPlace ==
  ASSUME IInv, IInv', PlaceInv, CopySlot
  PROVE  PlaceInv'
<1> SUFFICES ASSUME hazard' = {}
             PROVE  PlaceShape'
  BY Zenon DEF PlaceInv
<1> DEFINE p == pushed[head]
<1>1. PlaceShape
  BY Zenon DEF CopySlot, PlaceInv
<1>2. /\ pushed' = pushed /\ done' = done /\ head' = head
      /\ ReadPos = head - 1 /\ ReadPos' = head /\ head \in Nat \ {0}
      /\ cur[Worker] = None /\ head <= Len(pushed)
  BY SMT, SMTT(20) DEF CopySlot, memory, ReadPos, IInv, TypeOK, BusyInv, CountInv
<1>3. cur' = [cur EXCEPT ![Worker] = p]
  <2>1. PICK r : cur' = [cur EXCEPT ![Worker] = r] /\ popped' = Append(popped, r)
    BY Zenon DEF CopySlot
  <2>2. Len(popped) = head - 1 /\ popped \in Seq(Raw)
    BY <1>2 DEF IInv, TypeOK, CountInv
  <2>3. popped'[head] = r
    BY <1>2, <2>1, <2>2, SMT, SMTT(20)
  <2>4. popped'[head] = pushed'[head]
    BY <1>2, SMT, SMTT(20) DEF IInv, RingInv, RingShape
  <2> QED
    BY <1>2, <2>1, <2>3, <2>4
<1>4. cur'[Worker] = p /\ \A d \in Consumers \ {Worker} : cur'[d] = cur[d]
  BY <1>3 DEF IInv, TypeOK, Consumers
<1>5. /\ Waiting = Waiting' \cup {head} /\ head \notin Waiting'
      /\ Waiting \subseteq 1..Len(pushed)
  BY <1>2, SMT, SMTT(20) DEF Waiting, IInv, TypeOK
<1>6. /\ \A d \in Consumers : cur[d] # p
      /\ p \notin done /\ p \in Payments
      /\ \A i \in Waiting' : pushed[i] # p
  BY <1>1, <1>5, Zenon DEF PlaceShape
<1> HIDE DEF p
<1>7. \A i \in Waiting', d \in Consumers : cur'[d] # pushed'[i]
  BY <1>1, <1>2, <1>4, <1>5, <1>6, SMT, SMTT(20) DEF PlaceShape
<1>8. /\ \A d, e \in Consumers : cur'[d] # None /\ cur'[d] = cur'[e] => d = e
      /\ \A d \in Consumers : cur'[d] \notin done'
  BY <1>1, <1>2, <1>4, <1>6, SMT, SMTT(20) DEF PlaceShape
<1>9. \A d \in Consumers : cur'[d] # None => \E i \in 1..Len(pushed') : pushed'[i] = cur'[d]
  BY <1>1, <1>2, <1>4, <1>5, SMT, SMTT(20) DEF PlaceShape, p
<1>10. \A i \in 1..Len(pushed') :
         \/ \E j \in Waiting' : pushed'[j] = pushed'[i]
         \/ \E d \in Consumers : cur'[d] = pushed'[i]
         \/ pushed'[i] \in done'
  <2> SUFFICES ASSUME NEW i \in 1..Len(pushed)
               PROVE  \/ \E j \in Waiting' : pushed[j] = pushed[i]
                      \/ \E d \in Consumers : cur'[d] = pushed[i]
                      \/ pushed[i] \in done
    BY <1>2
  <2>0. Worker \in Consumers
    BY DEF Consumers
  <2>1. CASE \E j \in Waiting : pushed[j] = pushed[i]
    BY <1>4, <1>5, <2>0, <2>1 DEF p
  <2>2. CASE \E d \in Consumers : cur[d] = pushed[i]
    <3>1. PICK d \in Consumers : cur[d] = pushed[i]
      BY <2>2, Zenon
    <3>2. pushed[i] # None
      BY <1>1, QueueAssumption DEF PlaceShape
    <3>3. d # Worker
      BY <1>2, <3>1, <3>2, Zenon
    <3> QED
      BY <1>4, <3>1, <3>3
  <2> QED
    BY <1>1, <2>1, <2>2, Zenon DEF PlaceShape
<1> QED
  BY <1>1, <1>2, <1>5, <1>7, <1>8, <1>9, <1>10 DEF PlaceShape

\* worker_loop: the payment moves from the worker to a fallback-pool thread.
LEMMA HandOffPlace ==
  ASSUME IInv, PlaceInv, NEW c \in Pools, HandOff(c)
  PROVE  PlaceInv'
<1> SUFFICES ASSUME hazard' = {}
             PROVE  PlaceShape'
  BY DEF PlaceInv
<1>1. /\ PlaceShape /\ pushed' = pushed /\ done' = done /\ Waiting' = Waiting
  BY DEF HandOff, history, memory, PlaceInv, Waiting, ReadPos
<1>2. /\ c \in Consumers /\ Worker \in Consumers /\ c # Worker
      /\ cur[c] = None /\ cur[Worker] # None
      /\ cur'[c] = cur[Worker] /\ cur'[Worker] = None
      /\ \A d \in Consumers \ {c, Worker} : cur'[d] = cur[d]
  BY QueueAssumption, ZenonT(40) DEF HandOff, Idle, Consumers, IInv, TypeOK
<1>3. None \notin done /\ \A i \in 1..Len(pushed) : pushed[i] # None
  BY <1>1, QueueAssumption DEF IInv, TypeOK, Raw, PlaceShape
<1>4. \A i \in Waiting : i \in 1..Len(pushed)
  BY SMT, SMTT(20) DEF Waiting, ReadPos, IInv, TypeOK
<1>5. ASSUME NEW i \in Waiting, NEW d \in Consumers
      PROVE  cur'[d] # pushed[i]
  <2>1. pushed[i] # None /\ \A e \in Consumers : cur[e] # pushed[i]
    BY <1>1, <1>3, <1>4 DEF PlaceShape
  <2> QED
    BY <1>2, <2>1, ZenonT(40)
<1>6. /\ \A d, e \in Consumers : cur'[d] # None /\ cur'[d] = cur'[e] => d = e
      /\ \A d \in Consumers : cur'[d] \notin done
  <2>1. /\ \A d, e \in Consumers : cur[d] # None /\ cur[d] = cur[e] => d = e
        /\ \A d \in Consumers : cur[d] \notin done
    BY <1>1, Zenon DEF PlaceShape
  <2>2. ASSUME NEW d \in Consumers, NEW e \in Consumers, cur'[d] # None, cur'[d] = cur'[e]
        PROVE  d = e
    BY <1>2, <2>1, <2>2, Zenon
  <2>3. ASSUME NEW d \in Consumers
        PROVE  cur'[d] \notin done
    BY <1>2, <1>3, <2>1, ZenonT(40)
  <2> QED
    BY <2>2, <2>3
<1>7. \A d \in Consumers : cur'[d] # None => \E i \in 1..Len(pushed) : pushed[i] = cur'[d]
  BY <1>1, <1>2, SMT, SMTT(20) DEF PlaceShape
<1>8. \A i \in 1..Len(pushed), d \in Consumers :
         cur[d] = pushed[i] => \E e \in Consumers : cur'[e] = pushed[i]
  BY <1>2, <1>3, Zenon
<1> QED
  BY <1>1, <1>5, <1>6, <1>7, <1>8, SMT, SMTT(20) DEF PlaceShape

\* process: the payment moves from its thread to the finished ones.
LEMMA FinishPlace ==
  ASSUME IInv, PlaceInv, NEW c \in Consumers, Finish(c)
  PROVE  PlaceInv'
<1> SUFFICES ASSUME hazard' = {}
             PROVE  PlaceShape'
  BY DEF PlaceInv
<1> DEFINE p == cur[c]
<1>1. /\ PlaceShape /\ pushed' = pushed /\ done' = done \cup {p} /\ Waiting' = Waiting
  BY Zenon DEF Finish, memory, PlaceInv, Waiting, ReadPos
<1>2. /\ p # None /\ cur'[c] = None
      /\ \A d \in Consumers \ {c} : cur'[d] = cur[d] /\ cur[d] # p
      /\ \E i \in 1..Len(pushed) : pushed[i] = p
      /\ \A i \in Waiting : pushed[i] # p
  BY <1>1, Zenon DEF Finish, IInv, TypeOK, PlaceShape
<1>3. None \notin done /\ \A i \in 1..Len(pushed) : pushed[i] # None
  BY <1>1, QueueAssumption, Zenon DEF IInv, TypeOK, Raw, PlaceShape
<1>4. \A i \in Waiting : i \in 1..Len(pushed)
  BY SMT, SMTT(20) DEF Waiting, ReadPos, IInv, TypeOK
<1>5. \A i \in 1..Len(pushed), d \in Consumers :
         cur[d] = pushed[i] => pushed[i] \in done' \/ \E e \in Consumers : cur'[e] = pushed[i]
  BY <1>1, <1>2
<1> HIDE DEF p
<1>6. ASSUME NEW i \in Waiting, NEW d \in Consumers
      PROVE  cur'[d] # pushed[i]
  <2>1. pushed[i] # None /\ cur[d] # pushed[i]
    BY <1>1, <1>3, <1>4, Zenon DEF PlaceShape
  <2> QED
    BY <1>2, <2>1, Zenon
<1>7. /\ \A d, e \in Consumers : cur'[d] # None /\ cur'[d] = cur'[e] => d = e
      /\ \A d \in Consumers : cur'[d] \notin done'
  BY <1>1, <1>2, <1>3, SMT, SMTT(20) DEF PlaceShape
<1>8. \A d \in Consumers : cur'[d] # None => \E i \in 1..Len(pushed) : pushed[i] = cur'[d]
  BY <1>1, <1>2, SMT, SMTT(20) DEF PlaceShape
<1>9. /\ \A i \in Waiting : pushed[i] \notin done'
      /\ \A x \in done' : \E i \in 1..Len(pushed) : pushed[i] = x
  BY <1>1, <1>2, Zenon DEF PlaceShape
<1>10. \A i \in 1..Len(pushed) :
         \/ \E j \in Waiting : pushed[j] = pushed[i]
         \/ \E d \in Consumers : cur'[d] = pushed[i]
         \/ pushed[i] \in done'
  BY <1>1, <1>5 DEF PlaceShape
<1> QED
  BY <1>1, <1>6, <1>7, <1>8, <1>9, <1>10, SMT, SMTT(20) DEF PlaceShape

\* Every step keeps every payment in one place.
LEMMA PlaceStep == IInv /\ PlaceInv /\ [Next]_vars => PlaceInv'
<1> SUFFICES ASSUME IInv, PlaceInv, [Next]_vars
             PROVE  PlaceInv'
  OBVIOUS
<1>1. IInv'
  BY IInvStep, Zenon
<1>2. ASSUME UNCHANGED <<pushed, cur, done, hazard>>, ReadPos' = ReadPos
      PROVE  PlaceInv'
  BY <1>2, SMT, SMTT(20) DEF PlaceInv, PlaceShape, Waiting
<1>3. ASSUME NEW t \in Threads, StoreTail(t) \/ StoreSlot(t)
      PROVE  PlaceInv'
  BY <1>2, <1>3, SMT, SMTT(20) DEF StoreTail, StoreSlot, history, ReadPos
<1>4. CASE FetchNext
  <2>1. ReadPos' = ReadPos
    BY <1>4, SMT, SMTT(20) DEF FetchNext, ReadPos, Idle, IInv, TypeOK
  <2> QED
    BY <1>2, <1>4, <2>1 DEF FetchNext, history
<1>5. CASE UNCHANGED vars
  BY <1>2, <1>5 DEF vars, memory, locals, history, ReadPos
<1> QED
  BY <1>1, <1>3, <1>4, <1>5, PostPlace, CopyPlace, HandOffPlace, FinishPlace,
     TryAgainPlace DEF Next

\* For every number of threads and every capacity: while no unsynchronised
\* access happened, a posted payment is waiting in the queue once, or in one
\* thread's hands, or finished, and never in two of these.
THEOREM PaymentInOnePlace == Spec => []ExactlyOnePlace
<1>1. Init => PlaceInv
  <2> SUFFICES ASSUME Init
               PROVE  PlaceShape
    BY DEF PlaceInv
  <2>1. /\ Len(pushed) = 0 /\ done = {} /\ \A c \in Consumers : cur[c] = None
        /\ Waiting = {}
    BY SMT, SMTT(20) DEF Init, Waiting, ReadPos
  <2> QED
    BY <2>1, SMT, SMTT(20) DEF PlaceShape
<1>2. IInv /\ PlaceInv => ExactlyOnePlace
  <2> SUFFICES ASSUME IInv, PlaceShape, NEW i \in DOMAIN pushed
               PROVE  Cardinality(Places(pushed[i])) = 1
    BY DEF PlaceInv, ExactlyOnePlace
  <2> DEFINE p == pushed[i]
  <2>1. i \in 1..Len(pushed)
    BY SMT, SMTT(20) DEF IInv, TypeOK
  <2>2. \A x : x \in Places(p) <=>
          \/ \E j \in Waiting : pushed[j] = p /\ x = <<"queue", j>>
          \/ \E c \in Consumers : cur[c] = p /\ x = <<"held", c>>
          \/ p \in done /\ x = <<"done", p>>
    BY Zenon DEF Places, Waiting
  <2>3. /\ p # None
        /\ \/ \E j \in Waiting : pushed[j] = p
           \/ \E c \in Consumers : cur[c] = p
           \/ p \in done
    BY <2>1, QueueAssumption DEF PlaceShape
  <2> HIDE DEF p
  <2>4. \E x : Places(p) = {x}
    <3>1. ASSUME NEW j \in Waiting, pushed[j] = p
          PROVE  Places(p) = {<<"queue", j>>}
      <4>1. \A k \in Waiting : pushed[k] = p => k = j
        BY <3>1 DEF PlaceShape
      <4>2. p \notin done /\ \A c \in Consumers : cur[c] # p
        BY <3>1 DEF PlaceShape
      <4>3. \A x : x \in Places(p) <=> x = <<"queue", j>>
        BY <2>2, <3>1, <4>1, <4>2
      <4> QED
        BY <4>3, Zenon
    <3>2. ASSUME NEW c \in Consumers, cur[c] = p
          PROVE  Places(p) = {<<"held", c>>}
      <4>1. \A d \in Consumers : cur[d] = p => d = c
        BY <2>3, <3>2 DEF PlaceShape
      <4>2. p \notin done /\ \A j \in Waiting : pushed[j] # p
        BY <3>2 DEF PlaceShape
      <4>3. \A x : x \in Places(p) <=> x = <<"held", c>>
        BY <2>2, <3>2, <4>1, <4>2
      <4> QED
        BY <4>3, Zenon
    <3>3. ASSUME p \in done
          PROVE  Places(p) = {<<"done", p>>}
      <4>1. /\ \A j \in Waiting : pushed[j] # p
            /\ \A c \in Consumers : cur[c] # p
        BY <3>3 DEF PlaceShape
      <4>2. \A x : x \in Places(p) <=> x = <<"done", p>>
        BY <2>2, <3>3, <4>1
      <4> QED
        BY <4>2, Zenon
    <3> QED
      BY <2>3, <3>1, <3>2, <3>3, Zenon
  <2> QED
    BY <2>4, FS_Singleton, Zenon DEF p
<1> QED
  BY <1>1, <1>2, PlaceStep, QueueInvariant, PTL DEF Spec
==============================================================================
