---------------------------- MODULE DispatchProofs ----------------------------
(***************************************************************************)
(* What holds of Dispatch for every number of REST threads, workers, pool  *)
(* threads and payments.                                                   *)
(***************************************************************************)
EXTENDS Dispatch, FiniteSetTheorems, TLAPS

(***************************************************************************)
(* queue_index % queue_size                                                *)
(***************************************************************************)

\* The index that post_payment_handler computes is that of a worker.
LEMMA IndexIsWorker ==
  ASSUME NEW n \in Nat
  PROVE  n % WorkerCount \in Workers
BY DispatchAssumption, SMT, SMTT(20) DEF Workers

\* Quotient and remainder.
LEMMA Quotient ==
  ASSUME NEW n \in Nat
  PROVE  \E i \in Int, r \in 0..WorkerCount-1 :
           n = WorkerCount * i + r /\ r = n % WorkerCount
<1>1. WorkerCount \in Nat \ {0}
  BY DispatchAssumption
<1> QED
  BY <1>1, SMT, SMTT(20)

\* The next number deals to the next worker, and after the last to the first.
LEMMA NextIndex ==
  ASSUME NEW n \in Nat
  PROVE  (n + 1) % WorkerCount =
           IF (n % WorkerCount) + 1 = WorkerCount THEN 0 ELSE (n % WorkerCount) + 1
<1> DEFINE W == WorkerCount
<1>1. W \in Nat \ {0}
  BY DispatchAssumption
<1> HIDE DEF W
<1>2. PICK i \in Int, r \in 0..W-1 : n = W * i + r /\ r = n % W
  BY Quotient DEF W
<1>3. PICK j \in Int, s \in 0..W-1 : n + 1 = W * j + s /\ s = (n + 1) % W
  <2>1. n + 1 \in Nat
    BY SMT, SMTT(20)
  <2> QED
    BY <2>1, Quotient DEF W
<1>4. W * (j - i) = r + 1 - s
  <2>1. W * (j - i) = W * j - W * i
    <3>1. ASSUME NEW c \in Int, NEW a \in Int, NEW b \in Int
          PROVE  c * (a - b) = c * a - c * b
      BY SMT, SMTT(20)
    <3> QED
      BY <1>1, <3>1, SMT, SMTT(20)
  <2> DEFINE x == W * i
             y == W * j
  <2>2. x \in Int /\ y \in Int /\ n = x + r /\ n + 1 = y + s
    BY <1>1, <1>2, <1>3, SMT, SMTT(20)
  <2>3. y - x = r + 1 - s
    <3> HIDE DEF x, y
    <3> QED
      BY <1>1, <2>2, SMT, SMTT(20)
  <2> QED
    BY <2>1, <2>3
<1> DEFINE d == W * (j - i)
<1>8. d \in Int
  BY <1>1, SMT, SMTT(20)
<1>5. CASE j - i = 0
  <2>1. d = 0
    BY <1>1, <1>5, SMT, SMTT(20)
  <2>3. d = r + 1 - s
    BY <1>4
  <2>2. s = r + 1
    <3> HIDE DEF d
    <3> QED
      BY <1>1, <1>8, <2>1, <2>3, SMT, SMTT(20)
  <2> QED
    BY <1>1, <1>2, <1>3, <2>2, SMT, SMTT(20) DEF W
<1>6. CASE j - i >= 1
  <2>1. d >= W
    BY <1>1, <1>6, SMT, SMTT(20)
  <2>2. d = r + 1 - s
    BY <1>4
  <2>3. s = 0 /\ r + 1 = W
    <3> HIDE DEF d
    <3> QED
      BY <1>1, <1>8, <2>1, <2>2, SMT, SMTT(20)
  <2> QED
    BY <1>1, <1>2, <1>3, <2>3 DEF W
<1>7. CASE j - i <= -1
  <2>1. W * (j - i) <= -W
    BY <1>1, <1>7, SMT, SMTT(20)
  <2> QED
    BY <1>1, <1>2, <1>3, <1>4, <2>1, SMT, SMTT(20)
<1> QED
  BY <1>5, <1>6, <1>7, SMT, SMTT(20)

\* Pool threads are not workers, and each is a thread.
LEMMA ThreadKinds ==
  /\ Pools \subseteq Threads /\ Workers \subseteq Threads
  /\ \A c \in Pools : c \notin Workers
  /\ 0 \in Workers
BY DispatchAssumption, SMT, SMTT(20) DEF Threads, Workers

(***************************************************************************)
(* Type correctness.                                                       *)
(***************************************************************************)

\* A thread holds a payment exactly while it is at work on one.
BusyInv ==
  /\ \A r \in RestThreads : step[r] = "idle" <=> body[r] = None
  /\ \A t \in Threads : pc[t] \in {"test", "claim", "process"} <=> cur[t] # None

TypeInv == TypeOK /\ BusyInv

\* The states in which post_payment_handler and the workers start are typed.
LEMMA TypeInit == Init => TypeInv
BY DispatchAssumption, ThreadKinds, SMT, SMTT(20)
   DEF Init, TypeInv, TypeOK, BusyInv, Payments, None

\* Every step keeps every variable in its type, and nobody takes up or lets
\* go a payment in between.
LEMMA TypeStep == TypeInv /\ [Next]_vars => TypeInv'
<1> SUFFICES ASSUME TypeInv, [Next]_vars
             PROVE  TypeInv'
  OBVIOUS
<1> USE DispatchAssumption, ThreadKinds
        DEF TypeInv, TypeOK, BusyInv, rest, flags, threads, ledger, history
<1>1. ASSUME NEW r \in RestThreads, Load(r)
      PROVE  TypeInv'
  <2>1. queue_index % WorkerCount \in Workers
    BY IndexIsWorker, Zenon
  <2>2. posted + 1 \in Payments /\ posted + 1 # None
    BY <1>1, SMT, SMTT(20) DEF Load, Payments, None
  <2>3. given' \in [Workers -> Nat]
    BY <1>1, <2>1, SMT, SMTT(20) DEF Load
  <2>4. body' \in [RestThreads -> Payments \cup {None}]
    BY <1>1, <2>2 DEF Load
  <2>5. \A s \in RestThreads : step'[s] = "idle" <=> body'[s] = None
    BY <1>1, <2>2 DEF Load
  <2> QED
    <3>1. posted' \in 0..MaxPayments
      BY <1>1, SMT, SMTT(20) DEF Load
    <3>2. step' \in [RestThreads -> {"idle", "store", "enqueue"}]
      BY <1>1 DEF Load
    <3>3. pos' \in [RestThreads -> Nat]
      BY <1>1 DEF Load
    <3>4. clashed' \in BOOLEAN
      BY <1>1, Zenon DEF Load
    <3> QED
      BY <1>1, <2>3, <2>4, <2>5, <3>1, <3>2, <3>3, <3>4, Zenon DEF Load
<1>2. ASSUME NEW r \in RestThreads, Store(r)
      PROVE  TypeInv'
  BY <1>2, SMT, SMTT(20) DEF Store
<1>3. ASSUME NEW r \in RestThreads, Enqueue(r)
      PROVE  TypeInv'
  <2>1. pos[r] % WorkerCount \in Workers
    BY IndexIsWorker
  <2>2. body[r] \in Payments
    BY <1>3 DEF Enqueue
  <2>3. queue' \in [Workers -> Seq(Payments)]
    BY <1>3, <2>1, <2>2, SMT, SMTT(20) DEF Enqueue
  <2> QED
    BY <1>3, <2>2, <2>3, Zenon DEF Enqueue
<1>4. ASSUME NEW w \in Workers, Fetch(w)
      PROVE  TypeInv'
  <2>1. Head(queue[w]) \in Payments /\ Tail(queue[w]) \in Seq(Payments)
    BY <1>4, SMT, SMTT(20) DEF Fetch
  <2>2. Head(queue[w]) # None
    BY <2>1, SMT, SMTT(20) DEF Payments, None
  <2>3. queue' \in [Workers -> Seq(Payments)]
    BY <1>4, <2>1 DEF Fetch
  <2>4. cur' \in [Threads -> Payments \cup {None}]
    BY <1>4, <2>1 DEF Fetch
  <2>5. \A t \in Threads : pc'[t] \in {"test", "claim", "process"} <=> cur'[t] # None
    BY <1>4, <2>2 DEF Fetch
  <2> QED
    BY <1>4, <2>3, <2>4, <2>5 DEF Fetch
<1>5. ASSUME NEW w \in Workers, Test(w)
      PROVE  TypeInv'
  <2>1. overlaps' \in 0..MaxOverlaps
    BY <1>5, SMT, SMTT(20) DEF Test
  <2>2. pc' \in [Threads -> {"idle", "test", "claim", "process", "release", "stamp"}]
    BY <1>5 DEF Test
  <2>3. \A t \in Threads : pc'[t] \in {"test", "claim", "process"} <=> cur'[t] # None
    BY <1>5 DEF Test
  <2> QED
    BY <1>5, <2>1, <2>2, <2>3 DEF Test
<1>6. ASSUME NEW w \in Workers, NEW c \in Pools, Claim(w, c)
      PROVE  TypeInv'
  <2>1. cur' \in [Threads -> Payments \cup {None}]
    BY <1>6, Zenon DEF Claim
  <2>2. pc' \in [Threads -> {"idle", "test", "claim", "process", "release", "stamp"}]
    BY <1>6, Zenon DEF Claim
  <2>3. home' \in [Pools -> Workers]
    BY <1>6 DEF Claim
  <2>4. w # c /\ cur[w] # None
    BY <1>6 DEF Claim
  <2>5. \A t \in Threads : pc'[t] \in {"test", "claim", "process"} <=> cur'[t] # None
    BY <1>6, <2>4, Zenon DEF Claim
  <2> QED
    BY <1>6, <2>1, <2>2, <2>3, <2>5, Zenon DEF Claim
<1>7. ASSUME NEW t \in Threads, Settle(t)
      PROVE  TypeInv'
  BY <1>7 DEF Settle, After
<1>8. ASSUME NEW t \in Threads, TryAgain(t)
      PROVE  TypeInv'
  <2>1. Worker(t) \in Workers
    <3>1. t \in Workers \/ t \in Pools
      BY DEF Threads
    <3> QED
      BY <3>1 DEF Worker
  <2>2. cur[t] \in Payments
    BY <1>8 DEF TryAgain
  <2>3. queue' \in [Workers -> Seq(Payments)]
    BY <1>8, <2>1, <2>2, SMT, SMTT(20) DEF TryAgain
  <2>4. pc' \in [Threads -> {"idle", "test", "claim", "process", "release", "stamp"}]
    BY <1>8 DEF TryAgain, After
  <2>5. \A u \in Threads : pc'[u] \in {"test", "claim", "process"} <=> cur'[u] # None
    BY <1>8 DEF TryAgain, After
  <2> QED
    BY <1>8, <2>3, <2>4, <2>5 DEF TryAgain
<1>9. ASSUME NEW c \in Pools, Release(c)
      PROVE  TypeInv'
  <2>1. overlaps' \in 0..MaxOverlaps
    BY <1>9, SMT, SMTT(20) DEF Release
  <2>2. pc' \in [Threads -> {"idle", "test", "claim", "process", "release", "stamp"}]
    BY <1>9 DEF Release
  <2>3. \A t \in Threads : pc'[t] \in {"test", "claim", "process"} <=> cur'[t] # None
    BY <1>9 DEF Release
  <2> QED
    BY <1>9, <2>1, <2>2, <2>3, Zenon DEF Release
<1>10. ASSUME NEW c \in Pools, Stamp(c)
       PROVE  TypeInv'
  BY <1>10, Zenon DEF Stamp
<1>11. CASE IntervalElapses
  BY <1>11 DEF IntervalElapses
<1>12. CASE Crash
  <2>1. vanished' \subseteq Payments
    BY <1>12, SMT, SMTT(20) DEF Crash, Payments
  <2>2. crashes' \in 0..MaxCrashes /\ overlaps' \in 0..MaxOverlaps
    BY <1>12, SMT, SMTT(20) DEF Crash, Fresh
  <2>5. /\ queue_index' \in Nat
        /\ step' \in [RestThreads -> {"idle", "store", "enqueue"}]
        /\ body' \in [RestThreads -> Payments \cup {None}]
        /\ pos' \in [RestThreads -> Nat]
        /\ queue' \in [Workers -> Seq(Payments)]
    BY <1>12, SMT, SMTT(20) DEF Crash, Fresh
  <2>6. /\ pc' \in [Threads -> {"idle", "test", "claim", "process", "release", "stamp"}]
        /\ cur' \in [Threads -> Payments \cup {None}]
        /\ home' \in [Pools -> Workers]
        /\ saw_due' \in [Workers -> BOOLEAN]
        /\ given' \in [Workers -> Nat]
    BY <1>12 DEF Crash, Fresh
  <2>7. /\ up' \in BOOLEAN /\ clashed' \in BOOLEAN
        /\ fallback_is_running' \in BOOLEAN /\ due' \in BOOLEAN
        /\ posted' \in 0..MaxPayments /\ acked' \subseteq Payments
        /\ settled' \subseteq Payments
    BY <1>12, Zenon DEF Crash, Fresh
  <2>3. TypeOK'
    BY <2>1, <2>2, <2>5, <2>6, <2>7
  <2>4. BusyInv'
    BY <1>12 DEF Crash, Fresh
  <2> QED
    BY <2>3, <2>4
<1>13. CASE Restart
  BY <1>13 DEF Restart
<1>14. CASE UNCHANGED vars
  BY <1>14 DEF vars
<1> QED
  BY <1>1, <1>2, <1>3, <1>4, <1>5, <1>6, <1>7, <1>8, <1>9, <1>10, <1>11,
     <1>12, <1>13, <1>14, Zenon
     DEF Next, RestStep, WorkerStep, PoolStep

\* Every index, counter and payment of post_payment_handler, worker_loop and
\* process is in its range: TypeOK holds in every reachable state.
THEOREM TypeCorrect == Spec => []TypeOK
<1>1. TypeInv => TypeOK
  BY DEF TypeInv
<1> QED
  BY <1>1, TypeInit, TypeStep, PTL DEF Spec

(***************************************************************************)
(* The flag of the fallback pool.                                          *)
(***************************************************************************)

\* A set flag, and the workers that have found it clear, stand for one thread
\* of the pool; each overlap adds one.
PoolInv ==
  overlaps < MaxOverlaps =>
    Cardinality(Active) + Cardinality(Claiming)
      <= overlaps + IF fallback_is_running \/ Claiming # {} THEN 1 ELSE 0

\* Both sets are finite.
LEMMA PoolFinite ==
  /\ IsFiniteSet(Active) /\ Cardinality(Active) \in Nat
  /\ IsFiniteSet(Claiming) /\ Cardinality(Claiming) \in Nat
  /\ Claiming = {} <=> Cardinality(Claiming) = 0
<1>1. IsFiniteSet(Active)
  BY DispatchAssumption, FS_Subset DEF Active
<1>2. IsFiniteSet(Workers)
  BY DispatchAssumption, FS_Interval, SMT, SMTT(20) DEF Workers
<1>3. IsFiniteSet(Claiming)
  BY <1>2, FS_Subset DEF Claiming
<1> QED
  BY <1>1, <1>3, FS_CardinalityType, FS_EmptySet

\* Only Test, Claim and Release touch what the bound is about.
LEMMA PoolFrame ==
  ASSUME Active' = Active, Claiming' = Claiming, PoolInv,
         UNCHANGED <<overlaps, fallback_is_running>>
  PROVE  PoolInv'
BY DEF PoolInv

\* Every step keeps the pool within its bound.
LEMMA PoolStepInv == TypeInv /\ PoolInv /\ [Next]_vars => PoolInv'
<1> SUFFICES ASSUME TypeInv, PoolInv, [Next]_vars
             PROVE  PoolInv'
  OBVIOUS
<1> USE ThreadKinds
<1>t. /\ pc \in [Threads -> {"idle", "test", "claim", "process", "release", "stamp"}]
      /\ overlaps \in 0..MaxOverlaps /\ MaxOverlaps \in Nat
      /\ fallback_is_running \in BOOLEAN
  BY DispatchAssumption DEF TypeInv, TypeOK
<1>1. CASE UNCHANGED <<pc, overlaps, fallback_is_running>>
  BY <1>1, PoolFrame DEF Active, Claiming
<1>2. ASSUME NEW w \in Workers, Fetch(w)
      PROVE  PoolInv'
  <2>1. Active' = Active /\ Claiming' = Claiming
    BY <1>2, <1>t DEF Fetch, Active, Claiming
  <2> QED
    BY <1>2, <2>1, PoolFrame DEF Fetch, history
<1>3. ASSUME NEW w \in Workers, Test(w)
      PROVE  PoolInv'
  <2>1. Active' = Active /\ w \notin Claiming
    BY <1>3, <1>t DEF Test, Active, Claiming
  <2>2. CASE ~fallback_is_running /\ saw_due[w]
    <3>1. Claiming' = Claiming \cup {w}
      BY <1>3, <1>t, <2>2 DEF Test, Claiming
    <3>2. Cardinality(Claiming') = Cardinality(Claiming) + 1 /\ Claiming' # {}
      BY <2>1, <3>1, PoolFinite, FS_AddElement, Zenon
    <3>3. /\ ~fallback_is_running'
          /\ overlaps' = IF Claiming # {} /\ overlaps < MaxOverlaps
                           THEN overlaps + 1 ELSE overlaps
      BY <1>3, <2>2 DEF Test
    <3> QED
      BY <1>t, <2>1, <2>2, <3>2, <3>3, PoolFinite, SMT, SMTT(20) DEF PoolInv
  <2>3. CASE ~(~fallback_is_running /\ saw_due[w])
    <3>1. Claiming' = Claiming
      BY <1>3, <1>t, <2>3 DEF Test, Claiming
    <3> QED
      BY <1>3, <2>1, <2>3, <3>1, PoolFrame DEF Test
  <2> QED
    BY <2>2, <2>3
<1>4. ASSUME NEW w \in Workers, NEW c \in Pools, Claim(w, c)
      PROVE  PoolInv'
  <2>1. /\ Active' = Active \cup {c} /\ c \notin Active
        /\ Claiming' = Claiming \ {w} /\ w \in Claiming
    BY <1>4, <1>t DEF Claim, Active, Claiming
  <2>2. /\ Cardinality(Active') = Cardinality(Active) + 1
        /\ Cardinality(Claiming') = Cardinality(Claiming) - 1
    BY <2>1, PoolFinite, FS_AddElement, FS_RemoveElement, Zenon
  <2>3. fallback_is_running' /\ overlaps' = overlaps
    BY <1>4 DEF Claim, history
  <2> QED
    BY <1>t, <2>1, <2>2, <2>3, PoolFinite, SMT, SMTT(20) DEF PoolInv
<1>5. ASSUME NEW t \in Threads, Settle(t) \/ TryAgain(t)
      PROVE  PoolInv'
  <2>1. pc[t] = "process" /\ pc' = [pc EXCEPT ![t] = After(t)]
    BY <1>5 DEF Settle, TryAgain
  <2>2. Active' = Active /\ Claiming' = Claiming
    BY <1>t, <2>1 DEF Active, Claiming, After
  <2> QED
    BY <1>5, <2>2, PoolFrame DEF Settle, TryAgain, history, flags
<1>6. ASSUME NEW c \in Pools, Release(c)
      PROVE  PoolInv'
  <2>1. /\ Active' = Active \ {c} /\ c \in Active
        /\ Claiming' = Claiming
    BY <1>6, <1>t DEF Release, Active, Claiming
  <2>2. Cardinality(Active') = Cardinality(Active) - 1
    BY <2>1, PoolFinite, FS_RemoveElement, Zenon
  <2>3. CASE Claiming = {} /\ Active = {c}
    <3>1. Active' = {}
      BY <2>1, <2>3
    <3>2. Cardinality(Active') = 0 /\ Cardinality(Claiming') = 0
      BY <2>1, <2>3, <3>1, FS_EmptySet
    <3>3. overlaps' = 0
      BY <1>6, <2>3 DEF Release
    <3> QED
      BY <3>2, <3>3, SMT, SMTT(20) DEF PoolInv
  <2>4. CASE ~(Claiming = {} /\ Active = {c})
    <3>1. overlaps' = overlaps /\ ~fallback_is_running'
      BY <1>6, <2>4 DEF Release
    <3> QED
      BY <1>t, <2>1, <2>2, <3>1, PoolFinite, SMT, SMTT(20) DEF PoolInv
  <2> QED
    BY <2>3, <2>4
<1>7. ASSUME NEW c \in Pools, Stamp(c)
      PROVE  PoolInv'
  <2>1. Active' = Active /\ Claiming' = Claiming
    BY <1>7, <1>t DEF Stamp, Active, Claiming
  <2> QED
    BY <1>7, <2>1, PoolFrame DEF Stamp, history
<1>8. CASE Crash
  <2>1. Active' = {} /\ Claiming' = {}
    BY <1>8 DEF Crash, Fresh, Active, Claiming
  <2>2. Cardinality(Active') = 0 /\ Cardinality(Claiming') = 0
    BY <2>1, FS_EmptySet
  <2>3. overlaps' = 0
    BY <1>8, Zenon DEF Crash, Fresh
  <2> QED
    BY <2>2, <2>3, SMT, SMTT(20) DEF PoolInv
<1>9. ASSUME NEW r \in RestThreads, RestStep(r)
      PROVE  PoolInv'
  BY <1>1, <1>9 DEF RestStep, Load, Store, Enqueue, flags, threads, history
<1>10. CASE IntervalElapses \/ Restart \/ UNCHANGED vars
  BY <1>1, <1>10 DEF IntervalElapses, Restart, vars, flags, threads, history
<1> QED
  BY <1>2, <1>3, <1>4, <1>5, <1>6, <1>7, <1>8, <1>9, <1>10
     DEF Next, WorkerStep, PoolStep

\* However many workers test fallback_is_running, no more pool threads run
\* process than the tests that overlapped, and one.
THEOREM PoolIsBounded == Spec => []PoolBounded
<1>1. Init => PoolInv
  <2> SUFFICES ASSUME Init PROVE PoolInv
    OBVIOUS
  <2>1. Active = {} /\ Claiming = {}
    BY ThreadKinds DEF Init, Active, Claiming
  <2>2. Cardinality(Active) = 0 /\ Cardinality(Claiming) = 0
    BY <2>1, FS_EmptySet
  <2> QED
    BY <2>2, SMT, SMTT(20) DEF PoolInv, Init
<1>2. TypeInv /\ PoolInv => PoolBounded
  BY PoolFinite, DispatchAssumption, SMT, SMTT(20) DEF PoolInv, PoolBounded, TypeInv, TypeOK
<1> QED
  BY <1>1, <1>2, TypeInit, TypeStep, PoolStepInv, PTL DEF Spec

\* A set flag has a pool thread that is to clear it.
FlagHeld == fallback_is_running => Active # {}

\* worker_loop never finds fallback_is_running set with no pool thread left to
\* clear it, which would shut the fallback for good: a thread that clears the
\* flag of another leaves it clear, never set.  It is the safety half of
\* FlagIsCleared, for every number of workers and pool threads and any overlap.
THEOREM FlagHasHolder == Spec => []FlagHeld
<1>1. Init => FlagHeld
  BY DEF Init, FlagHeld
<1>2. TypeInv /\ FlagHeld /\ [Next]_vars => FlagHeld'
  <2> SUFFICES ASSUME TypeInv, FlagHeld, [Next]_vars
               PROVE  FlagHeld'
    OBVIOUS
  <2> USE ThreadKinds
  <2>t. pc \in [Threads -> {"idle", "test", "claim", "process", "release", "stamp"}]
    BY DEF TypeInv, TypeOK
  <2>0. ASSUME fallback_is_running' = fallback_is_running, Active \subseteq Active'
        PROVE  FlagHeld'
    BY <2>0 DEF FlagHeld
  <2>1. CASE UNCHANGED <<pc, fallback_is_running>>
    BY <2>0, <2>1 DEF Active
  <2>2. ASSUME NEW w \in Workers, Fetch(w) \/ Test(w)
        PROVE  FlagHeld'
    <3>1. Active \subseteq Active'
      BY <2>2, <2>t DEF Fetch, Test, Active
    <3> QED
      BY <2>0, <2>2, <3>1 DEF Fetch, Test
  <2>3. ASSUME NEW w \in Workers, NEW c \in Pools, Claim(w, c)
        PROVE  FlagHeld'
    <3>1. c \in Active'
      BY <2>3, <2>t DEF Claim, Active
    <3> QED
      BY <3>1 DEF FlagHeld
  <2>4. ASSUME NEW t \in Threads, Settle(t) \/ TryAgain(t)
        PROVE  FlagHeld'
    <3>1. pc[t] = "process" /\ pc' = [pc EXCEPT ![t] = After(t)]
      BY <2>4 DEF Settle, TryAgain
    <3>2. Active \subseteq Active'
      BY <2>t, <3>1 DEF Active, After
    <3> QED
      BY <2>0, <2>4, <3>2 DEF Settle, TryAgain, flags
  <2>5. ASSUME NEW c \in Pools, Release(c)
        PROVE  FlagHeld'
    BY <2>5 DEF Release, FlagHeld
  <2>6. ASSUME NEW c \in Pools, Stamp(c)
        PROVE  FlagHeld'
    <3>1. Active \subseteq Active'
      BY <2>6, <2>t DEF Stamp, Active
    <3> QED
      BY <2>0, <2>6, <3>1 DEF Stamp
  <2>7. CASE Crash
    BY <2>7, Zenon DEF Crash, Fresh, FlagHeld
  <2>8. ASSUME NEW r \in RestThreads, RestStep(r)
        PROVE  FlagHeld'
    BY <2>1, <2>8 DEF RestStep, Load, Store, Enqueue, flags, threads
  <2>9. CASE IntervalElapses \/ Restart \/ UNCHANGED vars
    BY <2>1, <2>9 DEF IntervalElapses, Restart, vars, flags, threads
  <2> QED
    BY <2>2, <2>3, <2>4, <2>5, <2>6, <2>7, <2>8, <2>9
       DEF Next, WorkerStep, PoolStep
<1> QED
  BY <1>1, <1>2, TypeInit, TypeStep, PTL DEF Spec

(***************************************************************************)
(* Payments are dealt out in turn.                                         *)
(***************************************************************************)

Storing == {r \in RestThreads : step[r] = "store"}

\* Payments that have been dealt: the increment of queue_index may be pending.
Dealt == IF Storing = {} THEN queue_index ELSE queue_index + 1

\* The workers before the next one in turn have had one payment more.
InTurn(b) ==
  \A w \in Workers : given[w] = IF w < Dealt % WorkerCount THEN b + 1 ELSE b

BalanceInv ==
  ~clashed => /\ \A r, s \in Storing : r = s
              /\ \A r \in Storing : pos[r] = queue_index
              /\ \E b \in Nat : InTurn(b)

\* Zero deals to the first worker.
LEMMA ZeroIndex == 0 % WorkerCount = 0
<1>1. WorkerCount \in Nat \ {0}
  BY DispatchAssumption
<1> QED
  BY <1>1, SMT, SMTT(20)

\* Every step keeps the turn.
LEMMA BalanceStep == TypeInv /\ BalanceInv /\ [Next]_vars => BalanceInv'
<1> SUFFICES ASSUME TypeInv, BalanceInv, [Next]_vars, ~clashed'
             PROVE  /\ \A r, s \in Storing' : r = s
                    /\ \A r \in Storing' : pos'[r] = queue_index'
                    /\ \E b \in Nat : InTurn(b)'
  BY DEF BalanceInv
<1> DEFINE Goal == /\ \A r, s \in Storing' : r = s
                   /\ \A r \in Storing' : pos'[r] = queue_index'
                   /\ \E b \in Nat : InTurn(b)'
<1>t. /\ queue_index \in Nat
      /\ step \in [RestThreads -> {"idle", "store", "enqueue"}]
      /\ pos \in [RestThreads -> Nat]
      /\ given \in [Workers -> Nat]
      /\ WorkerCount \in Nat \ {0}
  BY DispatchAssumption DEF TypeInv, TypeOK
<1>1. CASE UNCHANGED <<queue_index, step, pos, given, clashed>>
  BY <1>1 DEF BalanceInv, Storing, InTurn, Dealt
<1>2. ASSUME NEW r \in RestThreads, Load(r)
      PROVE  Goal
  <2>1. Storing = {} /\ ~clashed
    BY <1>2, Zenon DEF Load, Storing
  <2>2. Storing' = {r} /\ queue_index' = queue_index
    BY <1>2, <1>t, <2>1 DEF Load, Storing
  <2>3. pos'[r] = queue_index'
    BY <1>2, <1>t DEF Load
  <2> DEFINE k == queue_index % WorkerCount
  <2>4. k \in Workers /\ k \in 0..WorkerCount-1
    BY <1>t, IndexIsWorker, Zenon DEF Workers
  <2>5. /\ Dealt = queue_index
        /\ Dealt' = queue_index + 1
    BY <2>1, <2>2 DEF Dealt
  <2>6. given' = [given EXCEPT ![k] = @ + 1]
    BY <1>2 DEF Load
  <2>7. (queue_index + 1) % WorkerCount = IF k + 1 = WorkerCount THEN 0 ELSE k + 1
    BY <1>t, NextIndex, Zenon
  <2>8. PICK b \in Nat : \A w \in Workers : given[w] = IF w < k THEN b + 1 ELSE b
    BY <2>1, <2>5 DEF BalanceInv, InTurn
  <2> HIDE DEF k
  <2>9. given' \in [Workers -> Nat] /\ \A w \in Workers : w \in 0..WorkerCount-1
    BY <1>t, <2>4, <2>6, SMT, SMTT(20) DEF Workers
  <2>10. CASE k + 1 = WorkerCount
    <3>1. \A w \in Workers : given'[w] = b + 1
      BY <1>t, <2>4, <2>6, <2>8, <2>9, <2>10, SMT, SMTT(20)
    <3>2. InTurn(b + 1)'
      BY <1>t, <2>5, <2>7, <2>9, <2>10, <3>1, SMT, SMTT(20) DEF InTurn
    <3> QED
      BY <2>2, <2>3, <3>2, SMT, SMTT(20)
  <2>11. CASE k + 1 # WorkerCount
    <3>1. \A w \in Workers : given'[w] = IF w < k + 1 THEN b + 1 ELSE b
      BY <1>t, <2>4, <2>6, <2>8, <2>9, SMT, SMTT(20)
    <3>2. InTurn(b)'
      BY <2>5, <2>7, <2>11, <3>1 DEF InTurn
    <3> QED
      BY <2>2, <2>3, <3>2
  <2> QED
    BY <2>10, <2>11
<1>3. ASSUME NEW r \in RestThreads, Store(r)
      PROVE  Goal
  <2>1. ~clashed /\ given' = given
    BY <1>3 DEF Store, history
  <2>2. r \in Storing
    BY <1>3 DEF Store, Storing
  <2>3. Storing = {r} /\ pos[r] = queue_index
    BY <2>1, <2>2 DEF BalanceInv
  <2>4. Storing' = {}
    BY <1>3, <1>t, <2>3 DEF Store, Storing
  <2>5. Dealt' = Dealt
    BY <1>3, <1>t, <2>3, <2>4, Zenon DEF Store, Dealt
  <2> QED
    BY <2>1, <2>4, <2>5 DEF BalanceInv, InTurn
<1>4. ASSUME NEW r \in RestThreads, Enqueue(r)
      PROVE  Goal
  <2>1. Storing' = Storing /\ r \notin Storing
    BY <1>4, <1>t DEF Enqueue, Storing
  <2>2. \A s \in Storing : pos'[s] = pos[s]
    BY <1>4, <1>t, <2>1 DEF Enqueue, Storing
  <2>3. UNCHANGED <<queue_index, given, clashed>>
    BY <1>4 DEF Enqueue, history
  <2> QED
    BY <2>1, <2>2, <2>3 DEF BalanceInv, InTurn, Dealt
<1>5. CASE Crash
  <2>1. Storing' = {} /\ queue_index' = 0
    BY <1>5 DEF Crash, Fresh, Storing
  <2>2. Dealt' = 0
    BY <2>1 DEF Dealt
  <2>3. \A w \in Workers : given'[w] = 0 /\ ~(w < 0)
    BY <1>5, <1>t, SMT, SMTT(20) DEF Crash, Fresh, Workers
  <2>4. InTurn(0)'
    BY <2>2, <2>3, ZeroIndex, Zenon DEF InTurn
  <2> QED
    BY <2>1, <2>4
<1>6. ASSUME NEW w \in Workers, WorkerStep(w)
      PROVE  Goal
  BY <1>1, <1>6, Zenon DEF WorkerStep, Fetch, Test, Claim, Settle, TryAgain, rest, history
<1>7. ASSUME NEW c \in Pools, PoolStep(c)
      PROVE  Goal
  BY <1>1, <1>7 DEF PoolStep, Settle, TryAgain, Release, Stamp, rest, history
<1>8. CASE IntervalElapses \/ Restart \/ UNCHANGED vars
  BY <1>1, <1>8 DEF IntervalElapses, Restart, vars, rest, history
<1> QED
  BY <1>2, <1>3, <1>4, <1>5, <1>6, <1>7, <1>8 DEF Next, RestStep

\* Unless two increments of queue_index overlapped, no worker of any number
\* has been given two payments more than another.
THEOREM PaymentsBalanced == Spec => []Balanced
<1>1. Init => BalanceInv
  <2> SUFFICES ASSUME Init PROVE BalanceInv
    OBVIOUS
  <2>1. Storing = {} /\ queue_index = 0
    BY DEF Init, Storing
  <2>2. Dealt = 0
    BY <2>1 DEF Dealt
  <2>3. \A w \in Workers : given[w] = 0 /\ ~(w < 0)
    BY DispatchAssumption, SMT, SMTT(20) DEF Init, Workers
  <2>4. InTurn(0)
    BY <2>2, <2>3, ZeroIndex DEF InTurn
  <2> QED
    BY <2>1, <2>4 DEF BalanceInv
<1>2. BalanceInv => Balanced
  BY SMT, SMTT(20) DEF BalanceInv, Balanced, InTurn
<1> QED
  BY <1>1, <1>2, TypeInit, TypeStep, BalanceStep, PTL DEF Spec

(***************************************************************************)
(* A payment is in one place.                                              *)
(***************************************************************************)

\* Payments that were posted are in one place, the others nowhere.
PlaceInv ==
  \A p \in Payments : IF p <= posted THEN \E x : Places(p) = {x}
                                     ELSE Places(p) = {}

\* Places, of given values of the variables.
InRest(b, p)      == {<<"rest", r>> : r \in {o \in RestThreads : b[o] = p}}
InHands(c, p)     == {<<"held", t>> : t \in {u \in Threads : c[u] = p}}
InQueue(q, w, p)  == {<<"queued", w, i>> : i \in {j \in DOMAIN q[w] : q[w][j] = p}}
InSettled(s, p)   == {<<"settled", x>> : x \in {p} \cap s}
InVanished(v, p)  == {<<"vanished", x>> : x \in {p} \cap v}

PlacesOf(b, c, q, s, v, p) ==
  InRest(b, p) \cup InHands(c, p) \cup (UNION {InQueue(q, w, p) : w \in Workers})
    \cup InSettled(s, p) \cup InVanished(v, p)

\* What it means to be in a place.
IsPlace(b, c, q, s, v, p, x) ==
  \/ \E r \in RestThreads : b[r] = p /\ x = <<"rest", r>>
  \/ \E t \in Threads : c[t] = p /\ x = <<"held", t>>
  \/ \E w \in Workers : \E i \in DOMAIN q[w] : q[w][i] = p /\ x = <<"queued", w, i>>
  \/ p \in s /\ x = <<"settled", p>>
  \/ p \in v /\ x = <<"vanished", p>>

LEMMA PlaceKinds ==
  ASSUME NEW b, NEW c, NEW q, NEW s, NEW v, NEW p, NEW x
  PROVE  x \in PlacesOf(b, c, q, s, v, p) <=> IsPlace(b, c, q, s, v, p, x)
<1>1. x \in InRest(b, p) <=> \E r \in RestThreads : b[r] = p /\ x = <<"rest", r>>
  BY DEF InRest
<1>2. x \in InHands(c, p) <=> \E t \in Threads : c[t] = p /\ x = <<"held", t>>
  BY DEF InHands
<1>3. x \in UNION {InQueue(q, w, p) : w \in Workers} <=>
        \E w \in Workers : \E i \in DOMAIN q[w] : q[w][i] = p /\ x = <<"queued", w, i>>
  <2>1. \A w \in Workers : x \in InQueue(q, w, p) <=>
          \E i \in DOMAIN q[w] : q[w][i] = p /\ x = <<"queued", w, i>>
    BY DEF InQueue
  <2>2. x \in UNION {InQueue(q, w, p) : w \in Workers}
          <=> \E w \in Workers : x \in InQueue(q, w, p)
    OBVIOUS
  <2> QED
    BY <2>1, <2>2, Zenon
<1>4. x \in InSettled(s, p) <=> p \in s /\ x = <<"settled", p>>
  BY DEF InSettled
<1>5. x \in InVanished(v, p) <=> p \in v /\ x = <<"vanished", p>>
  BY DEF InVanished
<1> QED
  BY <1>1, <1>2, <1>3, <1>4, <1>5 DEF PlacesOf, IsPlace

\* Places before and after a step.
LEMMA PlacesNow ==
  ASSUME NEW p, NEW x
  PROVE  /\ x \in Places(p) <=> IsPlace(body, cur, queue, settled, vanished, p, x)
         /\ x \in Places(p)' <=>
              IsPlace(body', cur', queue', settled', vanished', p, x)
<1>1. /\ Places(p) = PlacesOf(body, cur, queue, settled, vanished, p)
      /\ Places(p)' = PlacesOf(body', cur', queue', settled', vanished', p)
  BY DEF Places, PlacesOf, InRest, InHands, InQueue, InSettled, InVanished
<1> QED
  BY <1>1, PlaceKinds, Zenon

\* The places are distinct.
LEMMA KindsDiffer ==
  ASSUME NEW a, NEW b, NEW c
  PROVE  /\ <<"rest", a>> # <<"held", b>>
         /\ <<"rest", a>> # <<"queued", b, c>>
         /\ <<"rest", a>> # <<"settled", b>>
         /\ <<"rest", a>> # <<"vanished", b>>
         /\ <<"held", a>> # <<"queued", b, c>>
         /\ <<"held", a>> # <<"settled", b>>
         /\ <<"held", a>> # <<"vanished", b>>
         /\ <<"queued", b, c>> # <<"settled", a>>
         /\ <<"queued", b, c>> # <<"vanished", a>>
         /\ <<"settled", a>> # <<"vanished", b>>
OBVIOUS

\* If one payment moves from its place to another and no other one does,
\* every payment is still in one place.
LEMMA OneMoves ==
  ASSUME TypeInv, PlaceInv, posted' = posted,
         NEW q \in Payments, NEW x, x \in Places(q),
         NEW y, y \in Places(q)',
         \A z \in Places(q)' : z = y \/ (z \in Places(q) /\ z # x),
         \A p \in Payments \ {q} : \/ Places(p)' = Places(p)
                                   \/ \E z : Places(p) = {z} /\ \E u : Places(p)' = {u}
  PROVE  PlaceInv'
<1> SUFFICES ASSUME NEW p \in Payments
             PROVE  IF p <= posted THEN \E u : Places(p)' = {u} ELSE Places(p)' = {}
  BY Zenon DEF PlaceInv
<1>1. CASE p = q
  <2>1. q <= posted /\ Places(q) = {x}
    BY DEF PlaceInv
  <2>2. Places(q)' = {y}
    BY <2>1
  <2> QED
    BY <1>1, <2>1, <2>2, Zenon
<1>2. CASE p # q
  BY <1>2, Zenon DEF PlaceInv
<1> QED
  BY <1>1, <1>2, Zenon

\* A payment that no variable treats differently is where it was.
LEMMA SamePlaces ==
  ASSUME NEW p,
         \A r \in RestThreads : body'[r] = p <=> body[r] = p,
         \A t \in Threads : cur'[t] = p <=> cur[t] = p,
         \A w \in Workers : \A i : (i \in DOMAIN queue'[w] /\ queue'[w][i] = p)
                                     <=> (i \in DOMAIN queue[w] /\ queue[w][i] = p),
         p \in settled' <=> p \in settled,
         p \in vanished' <=> p \in vanished
  PROVE  Places(p)' = Places(p)
<1> SUFFICES ASSUME NEW x
             PROVE  x \in Places(p)' <=> x \in Places(p)
  OBVIOUS
<1> QED
  BY PlacesNow, SMT, SMTT(20) DEF IsPlace

\* enqueue adds one position.
LEMMA AppendPosition ==
  ASSUME NEW q \in Seq(Payments), NEW e \in Payments, NEW p, NEW i
  PROVE  (i \in DOMAIN Append(q, e) /\ Append(q, e)[i] = p)
           <=> \/ i \in DOMAIN q /\ q[i] = p
               \/ i = Len(q) + 1 /\ e = p
BY SMT, SMTT(20)

\* fetch_next moves every position.
LEMMA TailPosition ==
  ASSUME NEW q \in Seq(Payments), q # <<>>, NEW p, NEW i \in Int
  PROVE  (i \in DOMAIN Tail(q) /\ Tail(q)[i] = p)
           <=> i # 0 /\ i + 1 \in DOMAIN q /\ q[i + 1] = p
BY SMT, SMTT(20)

\* Nothing moves in a step that leaves the containers of payments alone.
LEMMA NobodyMoves ==
  ASSUME PlaceInv, UNCHANGED <<body, cur, queue, settled, vanished, posted>>
  PROVE  PlaceInv'
<1>1. \A p \in Payments : Places(p)' = Places(p)
  BY PlacesNow, SMT, SMTT(20)
<1> QED
  BY <1>1, Zenon DEF PlaceInv

\* post_payment_handler takes a new payment.
LEMMA PlaceLoad ==
  ASSUME TypeInv, PlaceInv, NEW r \in RestThreads, Load(r)
  PROVE  PlaceInv'
<1>0. PICK q : q = posted + 1
  OBVIOUS
<1>1. /\ q \in Payments /\ ~(q <= posted)
      /\ posted' = q
      /\ \A p \in Payments : p <= q <=> p = q \/ p <= posted
  BY <1>0, DispatchAssumption, SMT, SMTT(20) DEF TypeInv, TypeOK, Load, Payments
<1>2. /\ body' = [body EXCEPT ![r] = q]
      /\ body \in [RestThreads -> Payments \cup {None}]
      /\ body[r] = None
      /\ UNCHANGED <<cur, queue, settled, vanished>>
  BY <1>0 DEF TypeInv, TypeOK, BusyInv, Load, threads
<1>n. \A p \in Payments : p # None
  BY SMT, SMTT(20) DEF Payments, None
<1>3. ASSUME NEW p \in Payments, p # q
      PROVE  Places(p)' = Places(p)
  <2>1. \A o \in RestThreads : body'[o] = p <=> body[o] = p
    BY <1>2, <1>3, <1>n
  <2> QED
    BY <1>2, <2>1, SamePlaces
<1>4. Places(q) = {}
  BY <1>1 DEF PlaceInv
<1>5. \A z : ~IsPlace(body, cur, queue, settled, vanished, q, z)
  BY <1>4, PlacesNow, Zenon
<1>6. \A z : IsPlace(body', cur', queue', settled', vanished', q, z)
               <=> z = <<"rest", r>>
  BY <1>2, <1>5 DEF IsPlace
<1>7. Places(q)' = {<<"rest", r>>}
  BY <1>6, PlacesNow
<1>8. \A p \in Payments : IF p <= posted' THEN \E x : Places(p)' = {x}
                                          ELSE Places(p)' = {}
  BY <1>1, <1>3, <1>7, Zenon DEF PlaceInv
<1> QED
  BY <1>8, Zenon DEF PlaceInv

\* A payment that a REST thread or a thread in process holds goes to the end
\* of a queue.
LEMMA PlaceAppend ==
  ASSUME TypeInv, PlaceInv, posted' = posted,
         NEW q \in Payments, NEW x, x \in Places(q),
         NEW v \in Workers,
         queue' = [queue EXCEPT ![v] = Append(@, q)],
         \A p \in Payments : \A r \in RestThreads :
           body'[r] = p <=> body[r] = p /\ x # <<"rest", r>>,
         \A p \in Payments : \A t \in Threads :
           cur'[t] = p <=> cur[t] = p /\ x # <<"held", t>>,
         \A w, i : x # <<"queued", w, i>>,
         x # <<"settled", q>>, x # <<"vanished", q>>,
         UNCHANGED <<settled, vanished>>
  PROVE  PlaceInv'
<1>0. PICK n : n = Len(queue[v]) + 1
  OBVIOUS
<1>1. queue \in [Workers -> Seq(Payments)]
  BY Zenon DEF TypeInv, TypeOK
<1>2. \A w \in Workers : \A i, p :
        (i \in DOMAIN queue'[w] /\ queue'[w][i] = p)
          <=> \/ i \in DOMAIN queue[w] /\ queue[w][i] = p
              \/ w = v /\ i = n /\ q = p
  BY <1>0, <1>1, AppendPosition, SMT, SMTT(20)
<1>3. <<"queued", v, n>> \in Places(q)'
  <2>1. n \in DOMAIN queue'[v] /\ queue'[v][n] = q
    BY <1>2, SMT, SMTT(20)
  <2>2. IsPlace(body', cur', queue', settled', vanished', q, <<"queued", v, n>>)
    BY <2>1, Zenon DEF IsPlace
  <2> QED
    BY <2>2, PlacesNow, Zenon
<1>4. \A z \in Places(q)' : z = <<"queued", v, n>> \/ (z \in Places(q) /\ z # x)
  <2> SUFFICES ASSUME NEW z, IsPlace(body', cur', queue', settled', vanished', q, z),
                      z # <<"queued", v, n>>
               PROVE  IsPlace(body, cur, queue, settled, vanished, q, z) /\ z # x
    BY PlacesNow, Zenon
  <2> QED
    BY <1>2, SMT, SMTT(20) DEF IsPlace
<1>5. ASSUME NEW p \in Payments \ {q}
      PROVE  Places(p)' = Places(p)
  <2>1. IsPlace(body, cur, queue, settled, vanished, q, x) /\ p # q
    BY PlacesNow, Zenon
  <2>2. \A r \in RestThreads : body[r] = p => x # <<"rest", r>>
    BY <2>1, SMT, SMTT(20) DEF IsPlace
  <2>3. \A t \in Threads : cur[t] = p => x # <<"held", t>>
    BY <2>1, SMT, SMTT(20) DEF IsPlace
  <2>4. \A w \in Workers : \A i : (i \in DOMAIN queue'[w] /\ queue'[w][i] = p)
                                    <=> (i \in DOMAIN queue[w] /\ queue[w][i] = p)
    BY <1>2, <2>1, SMT, SMTT(20)
  <2>5. \A r \in RestThreads : body'[r] = p <=> body[r] = p
    BY <2>2
  <2>6. \A t \in Threads : cur'[t] = p <=> cur[t] = p
    BY <2>3
  <2> QED
    BY <2>4, <2>5, <2>6, SamePlaces, Zenon
<1> QED
  BY <1>3, <1>4, <1>5, OneMoves, SMT, SMTT(20)

\* post_payment_handler enqueues.
LEMMA PlaceEnqueue ==
  ASSUME TypeInv, PlaceInv, NEW r \in RestThreads, Enqueue(r)
  PROVE  PlaceInv'
<1>0. PICK q, v : q = body[r] /\ v = pos[r] % WorkerCount
  BY Zenon
<1>1. q \in Payments /\ v \in Workers
  BY <1>0, IndexIsWorker, Zenon DEF TypeInv, TypeOK, BusyInv, Enqueue
<1>2. <<"rest", r>> \in Places(q)
  <2>1. IsPlace(body, cur, queue, settled, vanished, q, <<"rest", r>>)
    BY <1>0 DEF IsPlace
  <2> QED
    BY <2>1, PlacesNow
<1>3. \A p \in Payments : \A o \in RestThreads :
        body'[o] = p <=> body[o] = p /\ <<"rest", r>> # <<"rest", o>>
  BY SMT, SMTT(20) DEF Enqueue, TypeInv, TypeOK, Payments, None
<1>4. /\ queue' = [queue EXCEPT ![v] = Append(@, q)]
      /\ UNCHANGED <<posted, cur, settled, vanished>>
  BY <1>0 DEF Enqueue, threads
<1>5. /\ \A w, i : <<"rest", r>> # <<"queued", w, i>>
      /\ \A t : <<"rest", r>> # <<"held", t>>
      /\ <<"rest", r>> # <<"settled", q>> /\ <<"rest", r>> # <<"vanished", q>>
  BY KindsDiffer
<1>6. \A p \in Payments : \A t \in Threads :
        cur'[t] = p <=> cur[t] = p /\ <<"rest", r>> # <<"held", t>>
  BY <1>4, <1>5
<1> QED
  BY <1>1, <1>2, <1>3, <1>4, <1>5, <1>6, PlaceAppend, Zenon

\* process enqueues again.
LEMMA PlaceTryAgain ==
  ASSUME TypeInv, PlaceInv, NEW u \in Threads, TryAgain(u)
  PROVE  PlaceInv'
<1>0. PICK q, v : q = cur[u] /\ v = Worker(u)
  OBVIOUS
<1>1. q \in Payments /\ v \in Workers
  <2>1. q \in Payments
    BY <1>0 DEF TypeInv, TypeOK, BusyInv, TryAgain
  <2>2. u \in Workers \/ u \in Pools
    BY DEF Threads
  <2> QED
    BY <1>0, <2>1, <2>2 DEF TypeInv, TypeOK, Worker
<1>2. <<"held", u>> \in Places(q)
  <2>1. IsPlace(body, cur, queue, settled, vanished, q, <<"held", u>>)
    BY <1>0 DEF IsPlace
  <2> QED
    BY <2>1, PlacesNow
<1>3. \A p \in Payments : \A t \in Threads :
        cur'[t] = p <=> cur[t] = p /\ <<"held", u>> # <<"held", t>>
  BY SMT, SMTT(20) DEF TryAgain, TypeInv, TypeOK, Payments, None
<1>4. /\ queue' = [queue EXCEPT ![v] = Append(@, q)]
      /\ UNCHANGED <<posted, body, settled, vanished>>
  BY <1>0 DEF TryAgain, rest, ledger
<1>5. /\ \A w, i : <<"held", u>> # <<"queued", w, i>>
      /\ \A t : <<"held", u>> # <<"rest", t>>
      /\ <<"held", u>> # <<"settled", q>> /\ <<"held", u>> # <<"vanished", q>>
  BY KindsDiffer
<1>6. \A p \in Payments : \A r \in RestThreads :
        body'[r] = p <=> body[r] = p /\ <<"held", u>> # <<"rest", r>>
  BY <1>4, <1>5
<1> QED
  BY <1>1, <1>2, <1>3, <1>4, <1>5, <1>6, PlaceAppend, Zenon

\* A worker starts a pool thread with its payment.
LEMMA PlaceClaim ==
  ASSUME TypeInv, PlaceInv, NEW w \in Workers, NEW c \in Pools, Claim(w, c)
  PROVE  PlaceInv'
<1>0. PICK q : q = cur[w]
  OBVIOUS
<1>1. /\ q \in Payments /\ cur[c] = None /\ w # c
      /\ cur \in [Threads -> Payments \cup {None}]
      /\ \A p \in Payments : p # None
  <2>1. \A p \in Payments : p # None
    BY SMT, SMTT(20) DEF Payments, None
  <2> QED
    BY <1>0, <2>1, ThreadKinds, Zenon DEF TypeInv, TypeOK, BusyInv, Claim
<1>2. /\ cur' = [cur EXCEPT ![w] = None, ![c] = q]
      /\ UNCHANGED <<posted, body, queue, settled, vanished>>
  BY <1>0 DEF Claim, rest, ledger
<1>3. \A t \in Threads : cur'[t] = IF t = w THEN None ELSE IF t = c THEN q ELSE cur[t]
  BY <1>1, <1>2, ThreadKinds
<1>4. <<"held", w>> \in Places(q) /\ <<"held", c>> \in Places(q)'
  <2>1. /\ IsPlace(body, cur, queue, settled, vanished, q, <<"held", w>>)
        /\ IsPlace(body', cur', queue', settled', vanished', q, <<"held", c>>)
    BY <1>0, <1>1, <1>3, ThreadKinds, Zenon DEF IsPlace
  <2> QED
    BY <2>1, PlacesNow
<1>5. \A z \in Places(q)' : z = <<"held", c>> \/ (z \in Places(q) /\ z # <<"held", w>>)
  <2> SUFFICES ASSUME NEW z, IsPlace(body', cur', queue', settled', vanished', q, z),
                      z # <<"held", c>>
               PROVE  /\ IsPlace(body, cur, queue, settled, vanished, q, z)
                      /\ z # <<"held", w>>
    BY PlacesNow
  <2> QED
    BY <1>1, <1>2, <1>3, KindsDiffer, SMT, SMTT(20) DEF IsPlace
<1>6. ASSUME NEW p \in Payments \ {q}
      PROVE  Places(p)' = Places(p)
  <2>1. \A t \in Threads : cur'[t] = p <=> cur[t] = p
    BY <1>0, <1>1, <1>3, Zenon
  <2> QED
    BY <1>2, <2>1, SamePlaces, Zenon
<1> QED
  BY <1>1, <1>2, <1>4, <1>5, <1>6, OneMoves, SMT, SMTT(20)

\* A payment is stored or discarded.
LEMMA PlaceSettle ==
  ASSUME TypeInv, PlaceInv, NEW u \in Threads, Settle(u)
  PROVE  PlaceInv'
<1>0. PICK q : q = cur[u]
  OBVIOUS
<1>1. /\ q \in Payments
      /\ cur \in [Threads -> Payments \cup {None}]
      /\ \A p \in Payments : p # None
  BY <1>0, SMT, SMTT(20) DEF TypeInv, TypeOK, BusyInv, Settle, Payments, None
<1>2. /\ cur' = [cur EXCEPT ![u] = None]
      /\ settled' = settled \cup {q}
      /\ UNCHANGED <<posted, body, queue, vanished>>
  BY <1>0 DEF Settle, rest
<1>3. \A t \in Threads : cur'[t] = IF t = u THEN None ELSE cur[t]
  BY <1>1, <1>2
<1>4. <<"held", u>> \in Places(q) /\ <<"settled", q>> \in Places(q)'
  <2>1. /\ IsPlace(body, cur, queue, settled, vanished, q, <<"held", u>>)
        /\ IsPlace(body', cur', queue', settled', vanished', q, <<"settled", q>>)
    BY <1>0, <1>2, Zenon DEF IsPlace
  <2> QED
    BY <2>1, PlacesNow, Zenon
<1>5. \A z \in Places(q)' : z = <<"settled", q>> \/ (z \in Places(q) /\ z # <<"held", u>>)
  <2> SUFFICES ASSUME NEW z, IsPlace(body', cur', queue', settled', vanished', q, z),
                      z # <<"settled", q>>
               PROVE  /\ IsPlace(body, cur, queue, settled, vanished, q, z)
                      /\ z # <<"held", u>>
    BY PlacesNow, Zenon
  <2> QED
    BY <1>1, <1>2, <1>3, KindsDiffer, SMT, SMTT(20) DEF IsPlace
<1>6. ASSUME NEW p \in Payments \ {q}
      PROVE  Places(p)' = Places(p)
  <2>1. \A t \in Threads : cur'[t] = p <=> cur[t] = p
    BY <1>0, <1>1, <1>3
  <2> QED
    BY <1>2, <2>1, SamePlaces
<1> QED
  BY <1>1, <1>2, <1>4, <1>5, <1>6, OneMoves, SMT, SMTT(20)

\* A worker fetches: the payments behind the first one move up.
LEMMA PlaceFetch ==
  ASSUME TypeInv, PlaceInv, NEW w \in Workers, Fetch(w)
  PROVE  PlaceInv'
<1>0. PICK q : q = Head(queue[w])
  OBVIOUS
<1>1. /\ queue \in [Workers -> Seq(Payments)] /\ queue[w] # <<>>
      /\ cur \in [Threads -> Payments \cup {None}]
      /\ cur[w] = None
      /\ \A p \in Payments : p # None
  <2>1. \A p \in Payments : p # None
    BY SMT, SMTT(20) DEF Payments, None
  <2>2. cur[w] = None
    BY ThreadKinds DEF TypeInv, BusyInv, Fetch
  <2> QED
    BY <2>1, <2>2 DEF TypeInv, TypeOK, Fetch
<1>2. /\ q \in Payments /\ 1 \in DOMAIN queue[w] /\ queue[w][1] = q
      /\ \A v \in Workers : \A i \in DOMAIN queue[v] : i \in Int /\ i # 0
  BY <1>0, <1>1, SMT, SMTT(20)
<1>3. /\ cur' = [cur EXCEPT ![w] = q]
      /\ queue' = [queue EXCEPT ![w] = Tail(@)]
      /\ UNCHANGED <<posted, body, settled, vanished>>
  BY <1>0 DEF Fetch, rest, ledger
<1>4. \A t \in Threads : cur'[t] = IF t = w THEN q ELSE cur[t]
  BY <1>1, <1>3, ThreadKinds, Zenon
<1>5. /\ \A v \in Workers \ {w} : queue'[v] = queue[v]
      /\ \A i \in Int : \A p : (i \in DOMAIN queue'[w] /\ queue'[w][i] = p)
           <=> i # 0 /\ i + 1 \in DOMAIN queue[w] /\ queue[w][i + 1] = p
      /\ \A i \in DOMAIN queue'[w] : i \in Int
  <2>1. queue'[w] = Tail(queue[w]) /\ \A v \in Workers \ {w} : queue'[v] = queue[v]
    BY <1>1, <1>3
  <2>2. Tail(queue[w]) \in Seq(Payments)
    BY <1>1, SMT, SMTT(20)
  <2> QED
    BY <1>1, <2>1, <2>2, TailPosition, SMT, SMTT(20)
<1>6. <<"queued", w, 1>> \in Places(q) /\ <<"held", w>> \in Places(q)'
  <2>1. /\ IsPlace(body, cur, queue, settled, vanished, q, <<"queued", w, 1>>)
        /\ IsPlace(body', cur', queue', settled', vanished', q, <<"held", w>>)
    BY <1>2, <1>4, ThreadKinds DEF IsPlace
  <2> QED
    BY <2>1, PlacesNow, Zenon
<1>7. Places(q) = {<<"queued", w, 1>>}
  BY <1>2, <1>6, Zenon DEF PlaceInv
<1>8. \A z \in Places(q)' : z = <<"held", w>>
  <2> SUFFICES ASSUME NEW z, IsPlace(body', cur', queue', settled', vanished', q, z)
               PROVE  z = <<"held", w>>
    BY PlacesNow
  <2>1. \A x : IsPlace(body, cur, queue, settled, vanished, q, x) => x = <<"queued", w, 1>>
    BY <1>7, PlacesNow, Zenon
  <2>2. /\ \A r \in RestThreads : body[r] # q
        /\ \A t \in Threads : cur[t] # q
        /\ q \notin settled /\ q \notin vanished
    BY <2>1, KindsDiffer, Zenon DEF IsPlace
  <2>3. \A v \in Workers : \A i \in DOMAIN queue[v] : queue[v][i] = q => v = w /\ i = 1
    BY <2>1, Zenon DEF IsPlace
  <2>4. \A v \in Workers : \A i \in DOMAIN queue'[v] : queue'[v][i] # q
    <3> SUFFICES ASSUME NEW v \in Workers, NEW i \in DOMAIN queue'[v], queue'[v][i] = q
                 PROVE  FALSE
      BY Zenon
    <3>1. CASE v = w
      <4>1. i \in Int /\ i # 0 /\ i + 1 \in DOMAIN queue[w] /\ queue[w][i + 1] = q
        BY <1>5, <3>1, Zenon
      <4> QED
        BY <2>3, <4>1, SMT, SMTT(20)
    <3>2. CASE v # w
      BY <1>5, <2>3, <3>2
    <3> QED
      BY <3>1, <3>2
  <2> QED
    BY <1>3, <1>4, <2>2, <2>4 DEF IsPlace
<1>9. ASSUME NEW p \in Payments \ {q}
      PROVE  \/ Places(p)' = Places(p)
             \/ \E z : Places(p) = {z} /\ \E u : Places(p)' = {u}
  <2>1. \A t \in Threads : cur'[t] = p <=> cur[t] = p
    BY <1>1, <1>4, Zenon
  <2>2. CASE \A i \in DOMAIN queue[w] : queue[w][i] # p
    <3>1. \A v \in Workers : \A i : (i \in DOMAIN queue'[v] /\ queue'[v][i] = p)
                                      <=> (i \in DOMAIN queue[v] /\ queue[v][i] = p)
      BY <1>5, <2>2, SMT, SMTT(20)
    <3> QED
      BY <1>3, <2>1, <3>1, SamePlaces, Zenon
  <2>3. ASSUME NEW i \in DOMAIN queue[w], queue[w][i] = p
        PROVE  \E z : Places(p) = {z} /\ \E u : Places(p)' = {u}
    <3>1. i \in Int /\ i # 0 /\ i # 1 /\ (i - 1) + 1 = i /\ i - 1 \in Int /\ i - 1 # 0
      BY <1>2, <2>3, SMT, SMTT(20)
    <3>2. IsPlace(body, cur, queue, settled, vanished, p, <<"queued", w, i>>)
      BY <2>3, Zenon DEF IsPlace
    <3>3. Places(p) = {<<"queued", w, i>>}
      BY <3>2, PlacesNow DEF PlaceInv
    <3>4. \A x : IsPlace(body, cur, queue, settled, vanished, p, x) => x = <<"queued", w, i>>
      BY <3>3, PlacesNow
    <3>5. /\ \A r \in RestThreads : body[r] # p
          /\ \A t \in Threads : cur[t] # p
          /\ p \notin settled /\ p \notin vanished
      BY <3>4, KindsDiffer, Zenon DEF IsPlace
    <3>6. \A v \in Workers : \A j \in DOMAIN queue[v] : queue[v][j] = p => v = w /\ j = i
      BY <3>4, Zenon DEF IsPlace
    <3>7. \A v \in Workers : \A j \in DOMAIN queue'[v] :
            queue'[v][j] = p => v = w /\ j = i - 1
      <4> SUFFICES ASSUME NEW v \in Workers, NEW j \in DOMAIN queue'[v],
                          queue'[v][j] = p
                   PROVE  v = w /\ j = i - 1
        BY Zenon
      <4>1. v = w
        BY <1>5, <3>6, Zenon
      <4>2. j \in Int /\ j + 1 \in DOMAIN queue[w] /\ queue[w][j + 1] = p
        BY <1>5, <4>1
      <4> QED
        BY <3>1, <3>6, <4>1, <4>2, SMT, SMTT(20)
    <3>8. i - 1 \in DOMAIN queue'[w] /\ queue'[w][i - 1] = p
      BY <1>5, <2>3, <3>1, SMT, SMTT(20)
    <3>9. \A x : IsPlace(body', cur', queue', settled', vanished', p, x)
                   <=> x = <<"queued", w, i - 1>>
      BY <1>3, <2>1, <3>5, <3>7, <3>8, Zenon DEF IsPlace
    <3>10. Places(p)' = {<<"queued", w, i - 1>>}
      BY <3>9, PlacesNow, Zenon
    <3> QED
      BY <3>3, <3>10, Zenon
  <2> QED
    BY <2>2, <2>3, Zenon
<1> QED
  BY <1>2, <1>3, <1>6, <1>8, <1>9, OneMoves, Zenon

\* A crash takes what is in memory, and leaves what is settled.
LEMMA PlaceCrash ==
  ASSUME TypeInv, PlaceInv, Crash
  PROVE  PlaceInv'
<1>1. /\ \A r \in RestThreads : body'[r] = None
      /\ \A t \in Threads : cur'[t] = None
      /\ \A w \in Workers : queue'[w] = <<>>
      /\ posted' = posted /\ settled' = settled
      /\ vanished' = vanished \cup ((1..posted) \ settled)
  BY DEF Crash, Fresh
<1>2. ASSUME NEW p \in Payments
      PROVE  IF p <= posted THEN \E x : Places(p)' = {x} ELSE Places(p)' = {}
  <2>1. p # None /\ (p \in 1..posted <=> p <= posted)
    BY SMT, SMTT(20) DEF Payments, None, TypeInv, TypeOK
  <2>2. \A x : IsPlace(body', cur', queue', settled', vanished', p, x) <=>
                 \/ p \in settled /\ x = <<"settled", p>>
                 \/ p \in vanished' /\ x = <<"vanished", p>>
    BY <1>1, <2>1, SMT, SMTT(20) DEF IsPlace
  <2>3. ASSUME p \in settled
        PROVE  IsPlace(body, cur, queue, settled, vanished, p, <<"settled", p>>)
    BY <2>3 DEF IsPlace
  <2>4. ASSUME p \in vanished
        PROVE  IsPlace(body, cur, queue, settled, vanished, p, <<"vanished", p>>)
    BY <2>4 DEF IsPlace
  <2>5. CASE ~(p <= posted)
    <3>1. Places(p) = {}
      BY <2>5 DEF PlaceInv
    <3>2. p \notin settled /\ p \notin vanished
      BY <2>3, <2>4, <3>1, PlacesNow
    <3>3. Places(p)' = {}
      BY <1>1, <2>1, <2>2, <2>5, <3>2, PlacesNow, Zenon
    <3> QED
      BY <2>5, <3>3
  <2>6. CASE p <= posted /\ p \in settled
    <3>1. p \notin vanished
      BY <2>3, <2>4, <2>6, PlacesNow, KindsDiffer, SMT, SMTT(20) DEF PlaceInv
    <3>2. Places(p)' = {<<"settled", p>>}
      BY <1>1, <2>2, <2>6, <3>1, PlacesNow, Zenon
    <3> QED
      BY <2>6, <3>2, Zenon
  <2>7. CASE p <= posted /\ p \notin settled
    <3>1. Places(p)' = {<<"vanished", p>>}
      BY <1>1, <2>1, <2>2, <2>7, PlacesNow
    <3> QED
      BY <2>7, <3>1, Zenon
  <2> QED
    BY <2>5, <2>6, <2>7, Zenon
<1> QED
  BY <1>1, <1>2, Zenon DEF PlaceInv

\* Every step moves payments one at a time.
LEMMA PlaceStep == TypeInv /\ PlaceInv /\ [Next]_vars => PlaceInv'
<1> SUFFICES ASSUME TypeInv, PlaceInv, [Next]_vars
             PROVE  PlaceInv'
  OBVIOUS
<1>1. CASE UNCHANGED <<body, cur, queue, settled, vanished, posted>>
  BY <1>1, NobodyMoves
<1>2. ASSUME NEW r \in RestThreads, RestStep(r)
      PROVE  PlaceInv'
  BY <1>1, <1>2, PlaceLoad, PlaceEnqueue, Zenon DEF RestStep, Store, threads, ledger
<1>3. ASSUME NEW w \in Workers, WorkerStep(w)
      PROVE  PlaceInv'
  BY <1>1, <1>3, ThreadKinds, PlaceFetch, PlaceSettle, PlaceTryAgain, PlaceClaim, Zenon
     DEF WorkerStep, Test, rest, ledger
<1>4. ASSUME NEW c \in Pools, PoolStep(c)
      PROVE  PlaceInv'
  BY <1>1, <1>4, ThreadKinds, PlaceSettle, PlaceTryAgain
     DEF PoolStep, Release, Stamp, rest, ledger
<1>5. CASE Crash
  BY <1>5, PlaceCrash, Zenon
<1>6. CASE IntervalElapses \/ Restart \/ UNCHANGED vars
  BY <1>1, <1>6 DEF IntervalElapses, Restart, vars, rest, threads, ledger
<1> QED
  BY <1>2, <1>3, <1>4, <1>5, <1>6 DEF Next

\* Whatever REST threads, workers and pool threads do, a payment is in one
\* place until it is settled, and it disappears only in a crash.
THEOREM PaymentsKept == Spec => []AckedIsSomewhere
<1>1. Init => PlaceInv
  <2> SUFFICES ASSUME Init, NEW p \in Payments
               PROVE  ~(p <= posted) /\ Places(p) = {}
    BY DEF PlaceInv
  <2>1. p # None /\ ~(p <= posted)
    BY SMT, SMTT(20) DEF Init, Payments, None
  <2>2. \A x : ~IsPlace(body, cur, queue, settled, vanished, p, x)
    BY <2>1, SMT, SMTT(20) DEF Init, IsPlace
  <2> QED
    BY <2>1, <2>2, PlacesNow
<1>2. TypeInv /\ PlaceInv => AckedIsSomewhere
  <2> SUFFICES ASSUME TypeInv, PlaceInv, NEW p \in 1..posted
               PROVE  Cardinality(Places(p)) = 1
    BY DEF AckedIsSomewhere
  <2>1. p \in Payments /\ p <= posted
    BY DispatchAssumption, SMT, SMTT(20) DEF TypeInv, TypeOK, Payments
  <2>2. PICK x : Places(p) = {x}
    BY <2>1, Zenon DEF PlaceInv
  <2> QED
    BY <2>2, FS_Singleton
<1> QED
  BY <1>1, <1>2, TypeInit, TypeStep, PlaceStep, PTL DEF Spec
==============================================================================
