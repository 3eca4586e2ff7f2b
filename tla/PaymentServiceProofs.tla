------------------------- MODULE PaymentServiceProofs -------------------------
(***************************************************************************)
(* What holds of PaymentService for every set of payments and every number *)
(* of pool threads.                                                        *)
(***************************************************************************)
EXTENDS PaymentService, FiniteSetTheorems, TLAPS

Steps == {"idle", "choose", "payload", "perform", "wait", "info", "release", "stamp"}

\* A thread holds a payment exactly from fetch_next to the end of process, and
\* only the worker runs worker_loop.
BusyInv ==
  /\ \A t \in Threads :
       pc[t] \in {"choose", "payload", "perform", "wait", "info"} <=> cur[t] # None
  /\ \A c \in Pools : pc[c] # "choose"
  /\ pc[Worker] \notin {"release", "stamp"}

TypeInv == TypeOK /\ BusyInv

(***************************************************************************)
(* Type correctness.                                                       *)
(***************************************************************************)

\* The worker and its pool threads are all the threads.
LEMMA ThreadKinds ==
  /\ Worker \in Threads /\ Pools \subseteq Threads
  /\ \A c \in Pools : c # Worker
  /\ \A t \in Threads : t # None /\ (t \in Pools \/ t = Worker)
BY ServiceAssumption DEF Threads

\* The processor that is called is one of the two.
LEMMA CalledType ==
  ASSUME TypeOK, NEW t \in Threads
  PROVE  Called(t) \in Processors
BY DEF TypeOK, Called

\* process_payment reads two labels.
LEMMA StartCallsType ==
  ASSUME TypeOK, NEW t \in Threads, StartCalls(t)
  PROVE  /\ first' \in [Threads -> Processors] /\ second' \in [Threads -> Processors]
         /\ leg' = [leg EXCEPT ![t] = 1] /\ leg' \in [Threads -> {1, 2}]
         /\ UNCHANGED <<sent, res>>
BY SMT, SMTT(20) DEF StartCalls, TypeOK

\* A finished call leaves its handle well-typed.
LEMMA LetGoType ==
  ASSUME TypeOK, NEW t \in Threads, LetGo(t)
  PROVE  /\ payload' \in [Processors -> Payments \cup {None}]
         /\ info' \in [Processors -> Codes]
         /\ res' \in [Threads -> BOOLEAN]
         /\ UNCHANGED <<busy, sent>>
<1>1. PICK q \in Processors : q = Called(t)
  BY CalledType, Zenon
<1>2. /\ payload \in [Processors -> Payments \cup {None}]
      /\ info \in [Processors -> Codes] /\ res \in [Threads -> BOOLEAN]
  BY DEF TypeOK
<1>3. /\ \/ UNCHANGED <<payload, info>>
         \/ payload' = [payload EXCEPT ![q] = None] /\ info' = [info EXCEPT ![q] = 0]
      /\ res' = [res EXCEPT ![t] = FALSE] /\ UNCHANGED <<busy, sent>>
  BY <1>1 DEF LetGo
<1>4. 0 \in Codes
  BY DEF Codes
<1> QED
  BY <1>2, <1>3, <1>4, SMT, SMTT(20)

\* The end of process leaves the thread without a payment.
LEMMA DoneType ==
  ASSUME TypeInv, NEW t \in Threads, Done(t), pc[t] = "info"
  PROVE  /\ cur' = [cur EXCEPT ![t] = None]
         /\ \/ t \in Pools /\ pc' = [pc EXCEPT ![t] = "release"]
            \/ t = Worker /\ pc' = [pc EXCEPT ![t] = "idle"]
         /\ cur' \in [Threads -> Payments \cup {None}]
         /\ pc' \in [Threads -> Steps]
         /\ BusyInv'
         /\ first' \in [Threads -> Processors] /\ second' \in [Threads -> Processors]
         /\ leg' \in [Threads -> {1, 2}]
         /\ sent' \in [Threads -> Payments \cup {None}]
         /\ res' \in [Threads -> BOOLEAN]
         /\ payload' \in [Processors -> Payments \cup {None}]
         /\ busy' \in [Processors -> Threads \cup {None}]
         /\ info' \in [Processors -> Codes]
<1>1. /\ cur \in [Threads -> Payments \cup {None}] /\ pc \in [Threads -> Steps]
      /\ first \in [Threads -> Processors] /\ second \in [Threads -> Processors]
      /\ leg \in [Threads -> {1, 2}]
      /\ sent \in [Threads -> Payments \cup {None}]
      /\ busy \in [Processors -> Threads \cup {None}]
  BY DEF TypeInv, TypeOK, Steps
<1>2. cur' = [cur EXCEPT ![t] = None] /\ cur' \in [Threads -> Payments \cup {None}]
  BY <1>1 DEF Done
<1>3. /\ \/ t \in Pools /\ pc' = [pc EXCEPT ![t] = "release"]
         \/ t = Worker /\ pc' = [pc EXCEPT ![t] = "idle"]
      /\ pc' \in [Threads -> Steps]
  BY <1>1, ThreadKinds, Zenon DEF Done, Steps
<1>4. /\ first' \in [Threads -> Processors] /\ second' \in [Threads -> Processors]
      /\ leg' \in [Threads -> {1, 2}]
  BY <1>1 DEF Done, Processors
<1>5. LetGo(t)
  BY DEF Done
<1>6. BusyInv'
  BY <1>1, <1>2, <1>3, ThreadKinds, SMT, SMTT(20) DEF TypeInv, BusyInv
<1> QED
  BY <1>1, <1>2, <1>3, <1>4, <1>5, <1>6, LetGoType DEF TypeInv

\* The end of a transfer.
LEMMA AnsweredType ==
  ASSUME TypeInv, NEW t \in Threads, NEW c \in Codes, Answered(t, c)
  PROVE  /\ pc' = [pc EXCEPT ![t] = "info"] /\ pc[t] = "wait"
         /\ pc' \in [Threads -> Steps]
         /\ busy' \in [Processors -> Threads \cup {None}]
         /\ info' \in [Processors -> Codes]
         /\ sent' \in [Threads -> Payments \cup {None}]
         /\ res' \in [Threads -> BOOLEAN]
         /\ BusyInv'
         /\ UNCHANGED <<queue, pool, cur, first, second, leg, payload, books,
                        posted, fallback_enabled, shared>>
<1>1. pc' = [pc EXCEPT ![t] = "info"] /\ pc[t] = "wait" /\ pc' \in [Threads -> Steps]
  BY DEF Answered, TypeInv, TypeOK, Steps
<1>2. cur' = cur /\ pc \in [Threads -> Steps]
  BY DEF Answered, TypeInv, TypeOK, Steps
<1>3. BusyInv'
  BY <1>1, <1>2, ThreadKinds DEF TypeInv, BusyInv
<1>4. /\ busy' \in [Processors -> Threads \cup {None}]
      /\ info' \in [Processors -> Codes]
      /\ sent' \in [Threads -> Payments \cup {None}]
      /\ res' \in [Threads -> BOOLEAN]
  BY CalledType DEF Answered, TypeInv, TypeOK
<1> QED
  BY <1>1, <1>3, <1>4 DEF Answered

\* TypeOK in parts, so that a step can name the part it changes.
TypeParts ==
  /\ queue \in Seq(Payments) /\ posted \subseteq Payments
  /\ fallback_enabled \in BOOLEAN
  /\ fallback_is_running \in BOOLEAN /\ due \in BOOLEAN /\ saw_due \in BOOLEAN

ThreadParts ==
  /\ pc \in [Threads -> Steps]
  /\ cur \in [Threads -> Payments \cup {None}]
  /\ first \in [Threads -> Processors] /\ second \in [Threads -> Processors]
  /\ leg \in [Threads -> {1, 2}]
  /\ sent \in [Threads -> Payments \cup {None}]
  /\ res \in [Threads -> BOOLEAN]

HandleParts ==
  /\ payload \in [Processors -> Payments \cup {None}]
  /\ busy \in [Processors -> Threads \cup {None}]
  /\ info \in [Processors -> Codes]

BookParts ==
  /\ stored \in [Processors -> SUBSET Payments]
  /\ discarded \subseteq Payments
  /\ charged \in [Processors -> SUBSET Payments]
  /\ lost \subseteq Payments
  /\ shared \in BOOLEAN

\* The parts make up TypeOK ...
LEMMA TypeOKParts ==
  TypeOK <=> TypeParts /\ ThreadParts /\ HandleParts /\ BookParts
BY DEF TypeOK, TypeParts, ThreadParts, HandleParts, BookParts, Steps

\* ... before and after a step.
LEMMA TypeOKPartsNext ==
  TypeOK' <=> TypeParts' /\ ThreadParts' /\ HandleParts' /\ BookParts'
BY DEF TypeOK, TypeParts, ThreadParts, HandleParts, BookParts, Steps

\* The thread at work holds a payment.
LEMMA AtWork ==
  ASSUME TypeInv, NEW t \in Threads,
         pc[t] \in {"choose", "payload", "perform", "wait", "info"}
  PROVE  cur[t] \in Payments
BY DEF TypeInv, TypeOK, BusyInv

\* worker_loop, with the payment it fetches or hands over.
LEMMA TypeLoop ==
  ASSUME TypeInv, Fetch \/ ProcessHere \/ \E c \in Pools : HandOff(c)
  PROVE  TypeInv'
<1> USE ThreadKinds, TypeOKParts DEF TypeInv
<1>1. CASE Fetch
  <2>1. Head(queue) \in Payments /\ Tail(queue) \in Seq(Payments)
    BY <1>1, SMT, SMTT(20) DEF Fetch, TypeParts
  <2>2. TypeParts'
    BY <1>1, <2>1 DEF Fetch, TypeParts, world
  <2>3. ThreadParts'
    BY <1>1, <2>1 DEF Fetch, ThreadParts, calls, Steps
  <2>4. HandleParts' /\ BookParts'
    BY <1>1 DEF Fetch, HandleParts, BookParts, handles, books, world
  <2>5. Head(queue) # None
    BY <2>1, ServiceAssumption
  <2>6. BusyInv'
    BY <1>1, <2>5 DEF Fetch, BusyInv, ThreadParts
  <2> QED
    BY <2>2, <2>3, <2>4, <2>6, TypeOKPartsNext
<1>2. CASE ProcessHere
  <2>1. StartCalls(Worker)
    BY <1>2 DEF ProcessHere
  <2>2. TypeParts' /\ HandleParts' /\ BookParts'
    BY <1>2, Zenon DEF ProcessHere, TypeParts, HandleParts, BookParts, handles, books, world
  <2>3. ThreadParts'
    BY <1>2, <2>1, StartCallsType DEF ProcessHere, ThreadParts, Steps
  <2>4. BusyInv'
    BY <1>2 DEF ProcessHere, BusyInv, ThreadParts
  <2> QED
    BY <2>2, <2>3, <2>4, TypeOKPartsNext
<1>3. ASSUME NEW c \in Pools, HandOff(c)
      PROVE  TypeInv'
  <2>1. StartCalls(c) /\ c \in Threads /\ cur[Worker] \in Payments
    BY <1>3, AtWork DEF HandOff
  <2>2. TypeParts' /\ HandleParts' /\ BookParts'
    BY <1>3, Zenon DEF HandOff, TypeParts, HandleParts, BookParts, handles, books, world
  <2>3. pc' \in [Threads -> Steps] /\ cur' \in [Threads -> Payments \cup {None}]
    BY <1>3, <2>1 DEF HandOff, ThreadParts, Steps
  <2>4. ThreadParts'
    BY <2>1, <2>3, StartCallsType DEF ThreadParts
  <2>5. cur[Worker] # None /\ c # Worker
    BY <2>1, ServiceAssumption
  <2>6. BusyInv'
    BY <1>3, <2>1, <2>5 DEF HandOff, BusyInv, ThreadParts
  <2> QED
    BY <2>2, <2>4, <2>6, TypeOKPartsNext
<1> QED
  BY <1>1, <1>2, <1>3

\* The steps of a call.
LEMMA TypeCall ==
  ASSUME TypeInv, NEW t \in Threads, Call(t)
  PROVE  TypeInv'
<1> USE ThreadKinds, TypeOKParts, CalledType DEF TypeInv
<1>1. CASE SetPayload(t)
  <2>1. cur[t] \in Payments
    BY <1>1, AtWork DEF SetPayload
  <2>2. TypeParts' /\ BookParts'
    BY <1>1 DEF SetPayload, TypeParts, BookParts, pool, books, world
  <2>3. ThreadParts' /\ HandleParts'
    BY <1>1, <2>1 DEF SetPayload, ThreadParts, HandleParts, calls, Steps
  <2>4. BusyInv'
    BY <1>1 DEF SetPayload, BusyInv, ThreadParts
  <2> QED
    BY <2>2, <2>3, <2>4, TypeOKPartsNext
<1>2. CASE Perform(t)
  <2>1. PICK b \in Payments \cup {None} : sent' = [sent EXCEPT ![t] = b]
    BY <1>2, Zenon DEF Perform, HandleParts
  <2>2. TypeParts' /\ BookParts'
    BY <1>2 DEF Perform, TypeParts, BookParts, pool, books, world
  <2>3. ThreadParts'
    BY <1>2, <2>1 DEF Perform, ThreadParts, Steps
  <2>4. HandleParts'
    BY <1>2, SMT, SMTT(20) DEF Perform, HandleParts, Codes
  <2>5. BusyInv'
    BY <1>2 DEF Perform, BusyInv, ThreadParts
  <2> QED
    BY <2>2, <2>3, <2>4, <2>5, TypeOKPartsNext
<1>3. CASE PerformRefused(t)
  <2>1. TypeParts' /\ HandleParts' /\ BookParts'
    BY <1>3 DEF PerformRefused, TypeParts, HandleParts, BookParts, pool, handles,
                books, world
  <2>2. ThreadParts'
    BY <1>3 DEF PerformRefused, ThreadParts, Steps
  <2>3. BusyInv'
    BY <1>3 DEF PerformRefused, BusyInv, ThreadParts
  <2> QED
    BY <2>1, <2>2, <2>3, TypeOKPartsNext
<1> QED
  BY <1>1, <1>2, <1>3 DEF Call

\* The processors' answers.
LEMMA TypeAnswer ==
  ASSUME TypeInv, NEW t \in Threads, Answer(t)
  PROVE  TypeInv'
<1> USE TypeOKParts DEF TypeInv
<1>1. PICK c \in Codes : Answered(t, c)
  BY SMT, SMTT(20) DEF Answer, Accept, Duplicate, Refuse, LoseResponse, Codes
<1>2. TypeParts' /\ ThreadParts' /\ HandleParts' /\ BusyInv'
  BY <1>1, AnsweredType DEF TypeParts, ThreadParts, HandleParts, pool
<1>3. stored' = stored /\ discarded' = discarded /\ shared' = shared
  BY <1>1 DEF Answered, books
<1>4. /\ charged' \in [Processors -> SUBSET Payments]
      /\ lost' \subseteq Payments
  <2>1. CASE UNCHANGED <<charged, lost>>
    BY <2>1 DEF BookParts
  <2>2. CASE Accept(t) \/ LoseResponse(t)
    <3>1. sent[t] \in Payments
      BY <2>2 DEF Accept, LoseResponse, ThreadParts
    <3> QED
      BY <2>2, <3>1, CalledType, SMT, SMTT(20) DEF Accept, LoseResponse, BookParts
  <2> QED
    BY <2>1, <2>2 DEF Answer, Duplicate, Refuse
<1>5. BookParts'
  BY <1>3, <1>4 DEF BookParts
<1> QED
  BY <1>2, <1>5, TypeOKPartsNext

\* The conclusions of process_payment.
LEMMA TypeConclude ==
  ASSUME TypeInv, NEW t \in Threads, Conclude(t)
  PROVE  TypeInv'
<1> USE ThreadKinds, TypeOKParts, CalledType DEF TypeInv
<1>0. cur[t] \in Payments /\ pc[t] = "info"
  BY AtWork DEF Conclude, Store, Discard, SecondCall, TryAgain
<1>1. ASSUME Done(t), TypeParts', BookParts'
      PROVE  TypeInv'
  <2>1. ThreadParts' /\ HandleParts' /\ BusyInv'
    BY <1>0, <1>1, DoneType, Zenon DEF ThreadParts, HandleParts
  <2> QED
    BY <1>1, <2>1, TypeOKPartsNext
<1>2. CASE Store(t)
  <2>1. TypeParts'
    BY <1>2 DEF Store, TypeParts, pool, world
  <2>2. BookParts'
    BY <1>0, <1>2 DEF Store, BookParts, world
  <2> QED
    BY <1>1, <1>2, <2>1, <2>2 DEF Store
<1>3. CASE Discard(t)
  <2>1. TypeParts'
    BY <1>3 DEF Discard, TypeParts, pool, world
  <2>2. BookParts'
    BY <1>0, <1>3, SMT, SMTT(20) DEF Discard, BookParts, world
  <2> QED
    BY <1>1, <1>3, <2>1, <2>2 DEF Discard
<1>4. CASE TryAgain(t)
  <2>1. TypeParts'
    BY <1>0, <1>4, SMT, SMTT(20) DEF TryAgain, TypeParts, pool, world
  <2>2. BookParts'
    BY <1>4 DEF TryAgain, BookParts, books, world
  <2> QED
    BY <1>1, <1>4, <2>1, <2>2, ZenonT(40) DEF TryAgain
<1>5. CASE SecondCall(t)
  <2>1. TypeParts' /\ BookParts'
    BY <1>5 DEF SecondCall, TypeParts, BookParts, pool, books, world
  <2>2. LetGo(t)
    BY <1>5 DEF SecondCall
  <2>3. HandleParts'
    BY <2>2, LetGoType DEF HandleParts
  <2>4. ThreadParts'
    BY <1>5, <2>2, LetGoType, SMT, SMTT(20) DEF SecondCall, ThreadParts, Steps
  <2>5. BusyInv'
    BY <1>5, SMT, SMTT(20) DEF SecondCall, BusyInv, ThreadParts
  <2> QED
    BY <2>1, <2>3, <2>4, <2>5, TypeOKPartsNext
<1> QED
  BY <1>2, <1>3, <1>4, <1>5 DEF Conclude

\* Every step keeps every variable in its type.
LEMMA TypeStep == TypeInv /\ [Next]_vars => TypeInv'
<1> SUFFICES ASSUME TypeInv, [Next]_vars
             PROVE  TypeInv'
  OBVIOUS
<1> USE TypeOKParts DEF TypeInv
<1>1. ASSUME NEW p \in Payments, Post(p)
      PROVE  TypeInv'
  <2>1. TypeParts'
    BY <1>1, SMT, SMTT(20) DEF Post, TypeParts, pool
  <2>2. ThreadParts' /\ HandleParts' /\ BookParts' /\ BusyInv'
    BY <1>1 DEF Post, ThreadParts, HandleParts, BookParts, BusyInv, calls, handles, books
  <2> QED
    BY <2>1, <2>2, TypeOKPartsNext
<1>2. ASSUME NEW c \in Pools, Release(c) \/ Stamp(c)
      PROVE  TypeInv'
  <2>1. TypeParts' /\ HandleParts' /\ BookParts'
    BY <1>2, Zenon DEF Release, Stamp, TypeParts, HandleParts, BookParts, handles, books, world
  <2>2. /\ pc[c] \in {"release", "stamp"}
        /\ \E e \in {"stamp", "idle"} : pc' = [pc EXCEPT ![c] = e]
        /\ UNCHANGED <<cur, calls>>
    BY <1>2 DEF Release, Stamp
  <2>3. ThreadParts'
    BY <2>2, Zenon DEF ThreadParts, calls, Steps
  <2>4. BusyInv'
    BY <2>2, ThreadKinds DEF BusyInv, ThreadParts
  <2> QED
    BY <2>1, <2>3, <2>4, TypeOKPartsNext
<1>3. CASE IntervalElapses \/ UNCHANGED vars
  <2>1. TypeParts' /\ ThreadParts' /\ HandleParts' /\ BookParts' /\ BusyInv'
    BY <1>3, Zenon DEF IntervalElapses, vars, TypeParts, ThreadParts, HandleParts, BookParts,
                BusyInv, pool, calls, handles, books, world
  <2> QED
    BY <2>1, TypeOKPartsNext
<1> QED
  BY <1>1, <1>2, <1>3, TypeLoop, TypeCall, TypeAnswer, TypeConclude DEF Next

\* Initially everything has its type.
LEMMA TypeInit == Init => TypeInv
<1> SUFFICES ASSUME Init PROVE TypeInv
  OBVIOUS
<1>1. TypeOK
  <2>4. queue \in Seq(Payments) /\ posted \subseteq Payments
    BY SMT, SMTT(20) DEF Init
  <2>5. /\ fallback_enabled \in BOOLEAN /\ fallback_is_running \in BOOLEAN
        /\ due \in BOOLEAN /\ saw_due \in BOOLEAN
    BY Zenon DEF Init
  <2>1. TypeParts
    BY <2>4, <2>5 DEF TypeParts
  <2>2. ThreadParts
    BY DEF Init, ThreadParts, Steps, Processors
  <2>3. HandleParts /\ BookParts
    BY Zenon DEF Init, HandleParts, BookParts, Codes
  <2> QED
    BY <2>1, <2>2, <2>3, TypeOKParts
<1>2. BusyInv
  BY ThreadKinds DEF Init, BusyInv
<1> QED
  BY <1>1, <1>2 DEF TypeInv

\* Members and locals of worker_loop, process_payment and send_to_processor
\* have their types, whoever uses a handle: TypeOK is an invariant.
THEOREM TypeCorrect == Spec => []TypeOK
<1>1. TypeInv => TypeOK
  BY DEF TypeInv
<1> QED
  BY <1>1, TypeInit, TypeStep, PTL DEF Spec

(***************************************************************************)
(* fallback_is_running admits one pool thread.                             *)
(***************************************************************************)

Active == {c \in Pools : pc[c] \notin {"idle", "stamp"}}

PoolInv ==
  /\ \A c, d \in Active : c = d
  /\ Active # {} => fallback_is_running

\* A thread that goes on in process, and the worker, do not change the pool.
LEMMA SameActive ==
  ASSUME TypeInv, PoolInv, NEW t \in Threads, NEW e,
         pc' = [pc EXCEPT ![t] = e],
         t = Worker \/ (pc[t] \notin {"idle", "stamp"} /\ e \notin {"idle", "stamp"}),
         UNCHANGED fallback_is_running
  PROVE  PoolInv'
<1>1. pc \in [Threads -> Steps]
  BY DEF TypeInv, TypeOK, Steps
<1>2. Active' = Active
  BY <1>1, ThreadKinds DEF Active
<1> QED
  BY <1>2 DEF PoolInv

\* Every step keeps the pool to one thread.
LEMMA PoolStep == TypeInv /\ PoolInv /\ [Next]_vars => PoolInv'
<1> SUFFICES ASSUME TypeInv, PoolInv, [Next]_vars
             PROVE  PoolInv'
  OBVIOUS
<1> USE ThreadKinds
<1>0. pc \in [Threads -> Steps]
  BY DEF TypeInv, TypeOK, Steps
<1>1. CASE UNCHANGED <<pc, fallback_is_running>>
  BY <1>1 DEF PoolInv, Active
<1>2. CASE Fetch \/ ProcessHere
  <2>1. \E e : pc' = [pc EXCEPT ![Worker] = e]
    BY <1>2 DEF Fetch, ProcessHere
  <2>2. UNCHANGED fallback_is_running
    BY <1>2 DEF Fetch, ProcessHere
  <2> QED
    BY <2>1, <2>2, SameActive, Zenon
<1>3. ASSUME NEW c \in Pools, HandOff(c)
      PROVE  PoolInv'
  <2>1. Active = {}
    BY <1>3 DEF HandOff, PoolInv
  <2>2. pc' = [pc EXCEPT ![c] = "payload", ![Worker] = "idle"] /\ fallback_is_running'
    BY <1>3 DEF HandOff
  <2>3. Active' = {c}
    BY <1>0, <2>1, <2>2 DEF Active
  <2> QED
    BY <2>2, <2>3 DEF PoolInv
<1>4. ASSUME NEW c \in Pools, Release(c)
      PROVE  PoolInv'
  <2>1. Active = {c}
    BY <1>4 DEF Release, PoolInv, Active
  <2>2. Active' = {}
    BY <1>0, <1>4, <2>1 DEF Release, Active
  <2> QED
    BY <2>2 DEF PoolInv
<1>5. ASSUME NEW c \in Pools, Stamp(c)
      PROVE  PoolInv'
  <2>1. Active' = Active
    BY <1>0, <1>5 DEF Stamp, Active
  <2> QED
    BY <1>5, <2>1 DEF Stamp, PoolInv
<1>6. ASSUME NEW t \in Threads, Call(t)
      PROVE  PoolInv'
  <2>1. \E e \in {"perform", "wait", "info"} : pc' = [pc EXCEPT ![t] = e]
    BY <1>6, ZenonT(40) DEF Call, SetPayload, Perform, PerformRefused
  <2>2. pc[t] \in {"payload", "perform"} /\ UNCHANGED fallback_is_running
    BY <1>6 DEF Call, SetPayload, Perform, PerformRefused, pool
  <2> QED
    BY <2>1, <2>2, SameActive, Zenon
<1>7. ASSUME NEW t \in Threads, Answer(t)
      PROVE  PoolInv'
  <2>1. /\ pc' = [pc EXCEPT ![t] = "info"] /\ pc[t] = "wait"
        /\ UNCHANGED fallback_is_running
    BY <1>7 DEF Answer, Accept, Duplicate, Refuse, LoseResponse, Answered, pool
  <2> QED
    BY <2>1, SameActive, Zenon
<1>8. ASSUME NEW t \in Threads, Conclude(t)
      PROVE  PoolInv'
  <2>1. pc[t] = "info" /\ UNCHANGED fallback_is_running
    BY <1>8, ZenonT(40) DEF Conclude, Store, Discard, SecondCall, TryAgain, pool
  <2>2. \/ t \in Pools /\ pc' = [pc EXCEPT ![t] = "release"]
        \/ t = Worker /\ pc' = [pc EXCEPT ![t] = "idle"]
        \/ pc' = [pc EXCEPT ![t] = "payload"]
    BY <1>8, <2>1, DoneType DEF Conclude, Store, Discard, SecondCall, TryAgain
  <2> QED
    BY <2>1, <2>2, SameActive, Zenon
<1>9. CASE (\E p \in Payments : Post(p)) \/ IntervalElapses \/ UNCHANGED vars
  BY <1>1, <1>9 DEF Post, IntervalElapses, vars, pool
<1> QED
  BY <1>2, <1>3, <1>4, <1>5, <1>6, <1>7, <1>8, <1>9 DEF Next

\* At most one pool thread is inside process, for every number of threads the
\* worker starts.
THEOREM OnePoolThread == Spec => []OnePoolProcesses
<1>1. Init => PoolInv
  BY ThreadKinds, SMT, SMTT(20) DEF Init, PoolInv, Active
<1>2. PoolInv => OnePoolProcesses
  <2> SUFFICES ASSUME PoolInv PROVE Cardinality(Active) <= 1
    BY DEF OnePoolProcesses, Active
  <2>1. CASE Active = {}
    BY <2>1, FS_EmptySet, SMT, SMTT(20)
  <2>2. CASE Active # {}
    <3>1. PICK c : Active = {c}
      BY <2>2, SMT, SMTT(20) DEF PoolInv
    <3> QED
      BY <3>1, FS_Singleton, SMT, SMTT(20)
  <2> QED
    BY <2>1, <2>2
<1> QED
  BY <1>1, <1>2, TypeInit, TypeStep, PoolStep, PTL DEF Spec

(***************************************************************************)
(* Every payment is in one place.                                          *)
(***************************************************************************)

PlaceInv ==
  \A p \in Payments : IF p \in posted THEN \E x : Places(p) = {x}
                                      ELSE Places(p) = {}

\* What it means to be in a place, of given values of the variables.
IsPlace(q, c, s, d, p, x) ==
  \/ \E i \in DOMAIN q : q[i] = p /\ x = <<"queued", i>>
  \/ \E t \in Threads : c[t] = p /\ x = <<"held", t>>
  \/ \E r \in Processors : p \in s[r] /\ x = <<"stored", r>>
  \/ p \in d /\ x = <<"discarded", p>>

InQueue(q, p)     == {<<"queued", i>> : i \in {j \in DOMAIN q : q[j] = p}}
InHands(c, p)     == {<<"held", t>> : t \in {u \in Threads : c[u] = p}}
InBooks(s, p)     == {<<"stored", q>> : q \in {r \in Processors : p \in s[r]}}
InDiscarded(d, p) == {<<"discarded", x>> : x \in {p} \cap d}

\* Places, place by place.
LEMMA PlaceKinds ==
  ASSUME NEW q, NEW c, NEW s, NEW d, NEW p, NEW x
  PROVE  x \in InQueue(q, p) \cup InHands(c, p) \cup InBooks(s, p) \cup InDiscarded(d, p)
           <=> IsPlace(q, c, s, d, p, x)
<1>1. x \in InQueue(q, p) <=> \E i \in DOMAIN q : q[i] = p /\ x = <<"queued", i>>
  BY DEF InQueue
<1>2. x \in InHands(c, p) <=> \E t \in Threads : c[t] = p /\ x = <<"held", t>>
  BY DEF InHands
<1>3. x \in InBooks(s, p) <=> \E r \in Processors : p \in s[r] /\ x = <<"stored", r>>
  BY DEF InBooks
<1>4. x \in InDiscarded(d, p) <=> p \in d /\ x = <<"discarded", p>>
  BY DEF InDiscarded
<1> QED
  BY <1>1, <1>2, <1>3, <1>4 DEF IsPlace

\* Places before and after a step.
LEMMA PlacesNow ==
  ASSUME NEW p, NEW x
  PROVE  /\ x \in Places(p) <=> IsPlace(queue, cur, stored, discarded, p, x)
         /\ x \in Places(p)' <=> IsPlace(queue', cur', stored', discarded', p, x)
<1>1. /\ Places(p) = InQueue(queue, p) \cup InHands(cur, p) \cup InBooks(stored, p)
                       \cup InDiscarded(discarded, p)
      /\ Places(p)' = InQueue(queue', p) \cup InHands(cur', p) \cup InBooks(stored', p)
                        \cup InDiscarded(discarded', p)
  BY DEF Places, InQueue, InHands, InBooks, InDiscarded
<1> QED
  BY <1>1, PlaceKinds

\* The places are distinct.
LEMMA KindsDiffer ==
  ASSUME NEW a, NEW b
  PROVE  /\ <<"queued", a>> # <<"held", b>>
         /\ <<"queued", a>> # <<"stored", b>>
         /\ <<"queued", a>> # <<"discarded", b>>
         /\ <<"held", a>> # <<"stored", b>>
         /\ <<"held", a>> # <<"discarded", b>>
         /\ <<"stored", a>> # <<"discarded", b>>
OBVIOUS

\* A payment that no variable treats differently is where it was.
LEMMA SamePlaces ==
  ASSUME NEW p,
         \A i : (i \in DOMAIN queue' /\ queue'[i] = p) <=> (i \in DOMAIN queue /\ queue[i] = p),
         \A t \in Threads : cur'[t] = p <=> cur[t] = p,
         \A r \in Processors : p \in stored'[r] <=> p \in stored[r],
         p \in discarded' <=> p \in discarded
  PROVE  Places(p)' = Places(p)
<1> SUFFICES ASSUME NEW x
             PROVE  x \in Places(p)' <=> x \in Places(p)
  OBVIOUS
<1> QED
  BY PlacesNow DEF IsPlace

\* Nothing moves in a step that leaves the containers of payments alone.
LEMMA NobodyMoves ==
  ASSUME PlaceInv, UNCHANGED <<queue, cur, stored, discarded, posted>>
  PROVE  PlaceInv'
<1>1. \A p \in Payments : Places(p)' = Places(p)
  BY PlacesNow, SMT, SMTT(20)
<1> QED
  BY <1>1 DEF PlaceInv

\* If one payment moves from its place to another and no other one leaves
\* its own, every payment is still in one place.
LEMMA OneMoves ==
  ASSUME PlaceInv, posted' = posted,
         NEW m \in Payments, NEW x, x \in Places(m),
         NEW y, y \in Places(m)',
         \A z \in Places(m)' : z = y \/ (z \in Places(m) /\ z # x),
         \A p \in Payments \ {m} : \/ Places(p)' = Places(p)
                                   \/ \E z : Places(p) = {z} /\ \E u : Places(p)' = {u}
  PROVE  PlaceInv'
<1> SUFFICES ASSUME NEW p \in Payments
             PROVE  IF p \in posted THEN \E u : Places(p)' = {u} ELSE Places(p)' = {}
  BY Zenon DEF PlaceInv
<1>1. CASE p = m
  <2>1. m \in posted /\ Places(m) = {x}
    BY DEF PlaceInv
  <2>2. Places(m)' = {y}
    BY <2>1
  <2> QED
    BY <1>1, <2>1, <2>2
<1>2. CASE p # m
  BY <1>2, Zenon DEF PlaceInv
<1> QED
  BY <1>1, <1>2

\* enqueue adds one position.
LEMMA AppendPosition ==
  ASSUME NEW q \in Seq(Payments), NEW e \in Payments, NEW p, NEW i
  PROVE  (i \in DOMAIN Append(q, e) /\ Append(q, e)[i] = p)
           <=> \/ i \in DOMAIN q /\ q[i] = p
               \/ i = Len(q) + 1 /\ e = p
BY SMT, SMTT(20)

\* fetch_next moves every position.
LEMMA TailPosition ==
  ASSUME NEW q \in Seq(Payments), q # <<>>, NEW p, NEW i \in Int
  PROVE  (i \in DOMAIN Tail(q) /\ Tail(q)[i] = p)
           <=> i # 0 /\ i + 1 \in DOMAIN q /\ q[i + 1] = p
BY SMT, SMTT(20)

\* A thread holds what it is at work on.
LEMMA HeldPlace ==
  ASSUME NEW t \in Threads, NEW m, cur[t] = m
  PROVE  <<"held", t>> \in Places(m)
<1>1. IsPlace(queue, cur, stored, discarded, m, <<"held", t>>)
  BY DEF IsPlace
<1> QED
  BY <1>1, PlacesNow

\* A posted payment is enqueued.
LEMMA PlacePost ==
  ASSUME TypeInv, PlaceInv, NEW m \in Payments, Post(m)
  PROVE  PlaceInv'
<1>1. queue \in Seq(Payments) /\ UNCHANGED <<cur, stored, discarded>>
      /\ posted' = posted \cup {m} /\ m \notin posted
  BY DEF TypeInv, TypeOK, Post, books
<1>0. PICK n : n = Len(queue) + 1
  OBVIOUS
<1>2. \A i, p : (i \in DOMAIN queue' /\ queue'[i] = p)
                  <=> (i \in DOMAIN queue /\ queue[i] = p) \/ (i = n /\ m = p)
  BY <1>0, <1>1, AppendPosition, SMT, SMTT(20) DEF Post
<1>3. ASSUME NEW p \in Payments, p # m
      PROVE  Places(p)' = Places(p)
  BY <1>1, <1>2, <1>3, SamePlaces
<1>4. \A x : ~IsPlace(queue, cur, stored, discarded, m, x)
  BY <1>1, PlacesNow DEF PlaceInv
<1>5. \A x : IsPlace(queue', cur', stored', discarded', m, x) <=> x = <<"queued", n>>
  BY <1>1, <1>2, <1>4, Zenon DEF IsPlace
<1>6. Places(m)' = {<<"queued", n>>}
  BY <1>5, PlacesNow
<1>7. \A p \in Payments : IF p \in posted' THEN \E x : Places(p)' = {x}
                                           ELSE Places(p)' = {}
  BY <1>1, <1>3, <1>6, Zenon DEF PlaceInv
<1> QED
  BY <1>7 DEF PlaceInv

\* The worker fetches: the payments behind the first one move up.
LEMMA PlaceFetch ==
  ASSUME TypeInv, PlaceInv, Fetch
  PROVE  PlaceInv'
<1>0. PICK m : m = Head(queue)
  BY Zenon
<1>1. /\ queue \in Seq(Payments) /\ queue # <<>>
      /\ cur \in [Threads -> Payments \cup {None}]
      /\ cur[Worker] = None
      /\ \A p \in Payments : p # None
  BY ThreadKinds, ServiceAssumption DEF TypeInv, TypeOK, BusyInv, Fetch
<1>2. /\ m \in Payments /\ 1 \in DOMAIN queue /\ queue[1] = m
      /\ \A i \in DOMAIN queue : i \in Int /\ i # 0
  BY <1>0, <1>1, SMT, SMTT(20)
<1>3. /\ cur' = [cur EXCEPT ![Worker] = m]
      /\ queue' = Tail(queue)
      /\ UNCHANGED <<posted, stored, discarded>>
  BY <1>0 DEF Fetch, books, world
<1>4. \A t \in Threads : cur'[t] = IF t = Worker THEN m ELSE cur[t]
  BY <1>1, <1>3, ThreadKinds
<1>5. /\ \A i \in Int : \A p : (i \in DOMAIN queue' /\ queue'[i] = p)
           <=> i # 0 /\ i + 1 \in DOMAIN queue /\ queue[i + 1] = p
      /\ \A i \in DOMAIN queue' : i \in Int
  <2>1. queue' \in Seq(Payments)
    BY <1>1, <1>3, SMT, SMTT(20)
  <2> QED
    BY <1>1, <1>3, <2>1, TailPosition, SMT, SMTT(20)
<1>6. <<"queued", 1>> \in Places(m) /\ <<"held", Worker>> \in Places(m)'
  <2>1. /\ IsPlace(queue, cur, stored, discarded, m, <<"queued", 1>>)
        /\ IsPlace(queue', cur', stored', discarded', m, <<"held", Worker>>)
    BY <1>2, <1>4, ThreadKinds DEF IsPlace
  <2> QED
    BY <2>1, PlacesNow
<1>7. Places(m) = {<<"queued", 1>>}
  BY <1>2, <1>6, SMT, SMTT(20) DEF PlaceInv
<1>8. \A z \in Places(m)' : z = <<"held", Worker>>
  <2> SUFFICES ASSUME NEW z, IsPlace(queue', cur', stored', discarded', m, z)
               PROVE  z = <<"held", Worker>>
    BY PlacesNow
  <2>1. \A x : IsPlace(queue, cur, stored, discarded, m, x) => x = <<"queued", 1>>
    BY <1>7, PlacesNow
  <2>2. /\ \A t \in Threads : cur[t] # m
        /\ \A r \in Processors : m \notin stored[r]
        /\ m \notin discarded
    BY <2>1, KindsDiffer, Zenon DEF IsPlace
  <2>3. \A i \in DOMAIN queue : queue[i] = m => i = 1
    BY <2>1, Zenon DEF IsPlace
  <2>4. \A i \in DOMAIN queue' : queue'[i] # m
    <3> SUFFICES ASSUME NEW i \in DOMAIN queue', queue'[i] = m
                 PROVE  FALSE
      BY Zenon
    <3>1. i \in Int /\ i # 0 /\ i + 1 \in DOMAIN queue /\ queue[i + 1] = m
      BY <1>5
    <3> QED
      BY <2>3, <3>1, SMT, SMTT(20)
  <2> QED
    BY <1>3, <1>4, <2>2, <2>4 DEF IsPlace
<1>9. ASSUME NEW p \in Payments \ {m}
      PROVE  \/ Places(p)' = Places(p)
             \/ \E z : Places(p) = {z} /\ \E u : Places(p)' = {u}
  <2>1. \A t \in Threads : cur'[t] = p <=> cur[t] = p
    BY <1>1, <1>4, Zenon
  <2>2. CASE \A i \in DOMAIN queue : queue[i] # p
    <3>1. \A i : (i \in DOMAIN queue' /\ queue'[i] = p) <=> (i \in DOMAIN queue /\ queue[i] = p)
      BY <1>5, <2>2
    <3> QED
      BY <1>3, <2>1, <3>1, SamePlaces
  <2>3. ASSUME NEW i \in DOMAIN queue, queue[i] = p
        PROVE  \E z : Places(p) = {z} /\ \E u : Places(p)' = {u}
    <3>1. i \in Int /\ i # 0 /\ i # 1 /\ (i - 1) + 1 = i /\ i - 1 \in Int /\ i - 1 # 0
      BY <1>2, <2>3, SMT, SMTT(20)
    <3>2. IsPlace(queue, cur, stored, discarded, p, <<"queued", i>>)
      BY <2>3 DEF IsPlace
    <3>3. Places(p) = {<<"queued", i>>}
      BY <3>2, PlacesNow DEF PlaceInv
    <3>4. \A x : IsPlace(queue, cur, stored, discarded, p, x) => x = <<"queued", i>>
      BY <3>3, PlacesNow
    <3>5. /\ \A t \in Threads : cur[t] # p
          /\ \A r \in Processors : p \notin stored[r]
          /\ p \notin discarded
      BY <3>4, KindsDiffer, Zenon DEF IsPlace
    <3>6. \A j \in DOMAIN queue : queue[j] = p => j = i
      BY <3>4, Zenon DEF IsPlace
    <3>7. \A j \in DOMAIN queue' : queue'[j] = p => j = i - 1
      <4> SUFFICES ASSUME NEW j \in DOMAIN queue', queue'[j] = p
                   PROVE  j = i - 1
        OBVIOUS
      <4>1. j \in Int /\ j + 1 \in DOMAIN queue /\ queue[j + 1] = p
        BY <1>5
      <4> QED
        BY <3>1, <3>6, <4>1, SMT, SMTT(20)
    <3>8. i - 1 \in DOMAIN queue' /\ queue'[i - 1] = p
      BY <1>5, <2>3, <3>1, Zenon
    <3>9. \A x : IsPlace(queue', cur', stored', discarded', p, x) <=> x = <<"queued", i - 1>>
      BY <1>3, <2>1, <3>5, <3>7, <3>8 DEF IsPlace
    <3>10. Places(p)' = {<<"queued", i - 1>>}
      BY <3>9, PlacesNow
    <3> QED
      BY <3>3, <3>10, Zenon
  <2> QED
    BY <2>2, <2>3, Zenon
<1> QED
  BY <1>2, <1>3, <1>6, <1>8, <1>9, OneMoves, Zenon

\* A payment that a thread holds is nowhere else.
LEMMA HeldAlone ==
  ASSUME TypeInv, PlaceInv, NEW t \in Threads, NEW m \in Payments, cur[t] = m
  PROVE  /\ m \in posted
         /\ Places(m) = {<<"held", t>>}
         /\ \A i \in DOMAIN queue : queue[i] # m
         /\ \A u \in Threads : cur[u] = m => u = t
         /\ \A r \in Processors : m \notin stored[r]
         /\ m \notin discarded
<1>1. <<"held", t>> \in Places(m)
  BY HeldPlace
<1>2. Places(m) = {<<"held", t>>} /\ m \in posted
  BY <1>1 DEF PlaceInv
<1>3. \A x : IsPlace(queue, cur, stored, discarded, m, x) => x = <<"held", t>>
  BY <1>2, PlacesNow
<1>4. /\ \A i \in DOMAIN queue : queue[i] # m
      /\ \A r \in Processors : m \notin stored[r]
      /\ m \notin discarded
  BY <1>3, KindsDiffer, Zenon DEF IsPlace
<1>5. \A u \in Threads : cur[u] = m => u = t
  BY <1>3, Zenon DEF IsPlace
<1> QED
  BY <1>2, <1>4, <1>5

\* The thread that held m let go of it, and m is now in y only.
LEMMA HeldMoves ==
  ASSUME TypeInv, PlaceInv, posted' = posted,
         NEW t \in Threads, NEW m \in Payments, cur[t] = m,
         NEW y, Places(m)' = {y},
         \A p \in Payments \ {m} : Places(p)' = Places(p)
  PROVE  PlaceInv'
<1>1. m \in posted
  BY HeldAlone
<1>2. \A p \in Payments : IF p \in posted THEN \E x : Places(p)' = {x} ELSE Places(p)' = {}
  BY <1>1 DEF PlaceInv
<1> QED
  BY <1>2, Zenon DEF PlaceInv

\* The worker hands its payment to a pool thread.
LEMMA PlaceHandOff ==
  ASSUME TypeInv, PlaceInv, NEW c \in Pools, HandOff(c)
  PROVE  PlaceInv'
<1>0. PICK m : m = cur[Worker]
  OBVIOUS
<1>1. m \in Payments /\ \A p \in Payments : p # None
  BY <1>0, AtWork, ThreadKinds, ServiceAssumption, ZenonT(40) DEF HandOff
<1>2. /\ cur \in [Threads -> Payments \cup {None}]
      /\ cur[c] = None
      /\ c \in Threads /\ c # Worker /\ Worker \in Threads
  BY ThreadKinds DEF TypeInv, TypeOK, BusyInv, HandOff
<1>3. /\ cur' = [cur EXCEPT ![c] = m, ![Worker] = None]
      /\ UNCHANGED <<queue, posted, stored, discarded>>
  BY <1>0 DEF HandOff, books, world
<1>4. \A t \in Threads : cur'[t] = IF t = Worker THEN None ELSE IF t = c THEN m ELSE cur[t]
  BY <1>2, <1>3
<1>5. ASSUME NEW p \in Payments \ {m}
      PROVE  Places(p)' = Places(p)
  <2>1. \A t \in Threads : cur'[t] = p <=> cur[t] = p
    BY <1>0, <1>1, <1>2, <1>4
  <2> QED
    BY <1>3, <2>1, SamePlaces, Zenon
<1>6. /\ \A i \in DOMAIN queue : queue[i] # m
      /\ \A u \in Threads : cur[u] = m => u = Worker
      /\ \A r \in Processors : m \notin stored[r]
      /\ m \notin discarded
  BY <1>0, <1>1, <1>2, HeldAlone
<1>7. \A x : IsPlace(queue', cur', stored', discarded', m, x) <=> x = <<"held", c>>
  <2>1. \A t \in Threads : cur'[t] = m <=> t = c
    BY <1>1, <1>2, <1>4, <1>6
  <2> QED
    BY <1>2, <1>3, <1>6, <2>1 DEF IsPlace
<1>8. Places(m)' = {<<"held", c>>}
  BY <1>7, PlacesNow
<1> QED
  BY <1>0, <1>1, <1>2, <1>3, <1>5, <1>8, HeldMoves, Zenon

\* The payment is stored, discarded or enqueued again.
LEMMA PlaceConclude ==
  ASSUME TypeInv, PlaceInv, NEW t \in Threads, Store(t) \/ Discard(t) \/ TryAgain(t)
  PROVE  PlaceInv'
<1>0. PICK m : m = cur[t]
  OBVIOUS
<1>1. PICK q : q = Called(t)
  BY ZenonT(40)
<1>2. /\ m \in Payments /\ q \in Processors
      /\ \A p \in Payments : p # None
      /\ cur \in [Threads -> Payments \cup {None}]
      /\ stored \in [Processors -> SUBSET Payments]
      /\ queue \in Seq(Payments)
  BY <1>0, <1>1, AtWork, CalledType, ServiceAssumption, SMT, SMTT(20)
     DEF Store, Discard, TryAgain, TypeInv, TypeOK
<1>3. cur' = [cur EXCEPT ![t] = None] /\ posted' = posted
  BY Zenon DEF Store, Discard, TryAgain, Done, world
<1>4. \A u \in Threads : cur'[u] = IF u = t THEN None ELSE cur[u]
  BY <1>2, <1>3
<1>5. /\ \A i \in DOMAIN queue : queue[i] # m
      /\ \A u \in Threads : cur[u] = m => u = t
      /\ \A r \in Processors : m \notin stored[r]
      /\ m \notin discarded
  BY <1>0, <1>2, HeldAlone, ZenonT(40)
<1>6. \A u \in Threads : cur'[u] # m
  BY <1>2, <1>4, <1>5
<1>7. \A p \in Payments \ {m}, u \in Threads : cur'[u] = p <=> cur[u] = p
  BY <1>0, <1>2, <1>4
<1>8. CASE Store(t)
  <2>1. stored' = [stored EXCEPT ![q] = @ \cup {m}] /\ UNCHANGED <<queue, discarded>>
    BY <1>0, <1>1, <1>8 DEF Store
  <2>2. \A r \in Processors : \A p : p \in stored'[r] <=> p \in stored[r] \/ (r = q /\ p = m)
    BY <1>2, <2>1, Zenon
  <2>3. \A p \in Payments \ {m} : Places(p)' = Places(p)
    BY <1>7, <2>1, <2>2, SamePlaces, Zenon
  <2>4. \A x : IsPlace(queue', cur', stored', discarded', m, x) <=> x = <<"stored", q>>
    BY <1>2, <1>5, <1>6, <2>1, <2>2 DEF IsPlace
  <2>5. Places(m)' = {<<"stored", q>>}
    BY <2>4, PlacesNow
  <2> QED
    BY <1>0, <1>2, <1>3, <2>3, <2>5, HeldMoves, Zenon
<1>9. CASE Discard(t)
  <2>1. discarded' = discarded \cup {m} /\ UNCHANGED <<queue, stored>>
    BY <1>0, <1>9, Zenon DEF Discard
  <2>2. \A p \in Payments \ {m} : Places(p)' = Places(p)
    BY <1>7, <2>1, SamePlaces, Zenon
  <2>3. \A x : IsPlace(queue', cur', stored', discarded', m, x) <=> x = <<"discarded", m>>
    BY <1>5, <1>6, <2>1 DEF IsPlace
  <2>4. Places(m)' = {<<"discarded", m>>}
    BY <2>3, PlacesNow
  <2> QED
    BY <1>0, <1>2, <1>3, <2>2, <2>4, HeldMoves, Zenon
<1>10. CASE TryAgain(t)
  <2>0. PICK n : n = Len(queue) + 1
    BY Zenon
  <2>1. queue' = Append(queue, m) /\ UNCHANGED <<stored, discarded>>
    BY <1>0, <1>10, Zenon DEF TryAgain, books
  <2>2. \A i, p : (i \in DOMAIN queue' /\ queue'[i] = p)
                    <=> (i \in DOMAIN queue /\ queue[i] = p) \/ (i = n /\ m = p)
    BY <1>2, <2>0, <2>1, AppendPosition, SMT, SMTT(20)
  <2>3. \A p \in Payments \ {m} : Places(p)' = Places(p)
    BY <1>7, <2>1, <2>2, SamePlaces, SMT, SMTT(20)
  <2>4. \A x : IsPlace(queue', cur', stored', discarded', m, x) <=> x = <<"queued", n>>
    BY <1>5, <1>6, <2>1, <2>2, Zenon DEF IsPlace
  <2>5. Places(m)' = {<<"queued", n>>}
    BY <2>4, PlacesNow
  <2> QED
    BY <1>0, <1>2, <1>3, <2>3, <2>5, HeldMoves, Zenon
<1> QED
  BY <1>8, <1>9, <1>10

\* Every step leaves every payment in one place.
LEMMA PlaceStep == TypeInv /\ PlaceInv /\ [Next]_vars => PlaceInv'
<1> SUFFICES ASSUME TypeInv, PlaceInv, [Next]_vars
             PROVE  PlaceInv'
  BY Zenon
<1>1. CASE ProcessHere \/ IntervalElapses \/ UNCHANGED vars
  BY <1>1, NobodyMoves, Zenon DEF ProcessHere, IntervalElapses, vars, books, world
<1>2. ASSUME NEW c \in Pools, Release(c) \/ Stamp(c)
      PROVE  PlaceInv'
  BY <1>2, NobodyMoves DEF Release, Stamp, books, world
<1>3. ASSUME NEW t \in Threads, Call(t) \/ Answer(t) \/ SecondCall(t)
      PROVE  PlaceInv'
  BY <1>3, NobodyMoves, Zenon DEF Call, SetPayload, Perform, PerformRefused, Answer, Accept,
       Duplicate, Refuse, LoseResponse, Answered, SecondCall, books, world
<1> QED
  BY <1>1, <1>2, <1>3, PlacePost, PlaceFetch, PlaceHandOff, PlaceConclude
     DEF Next, Conclude

\* Initially no payment is anywhere.
LEMMA PlaceInit == Init => PlaceInv
<1> SUFFICES ASSUME Init, NEW p \in Payments
             PROVE  Places(p) = {} /\ p \notin posted
  BY DEF PlaceInv
<1>1. \A x : ~IsPlace(queue, cur, stored, discarded, p, x)
  BY ServiceAssumption, SMT, SMTT(20) DEF Init, IsPlace
<1> QED
  BY <1>1, PlacesNow, Zenon DEF Init

\* A payment is never dropped, counted twice or held by two threads, whoever
\* uses a handle: OnePlace is an invariant.
THEOREM PaymentInOnePlace == Spec => []OnePlace
<1>1. PlaceInv => OnePlace
  <2> SUFFICES ASSUME PlaceInv, NEW p \in Payments
               PROVE  Cardinality(Places(p)) = IF p \in posted THEN 1 ELSE 0
    BY DEF OnePlace
  <2>1. CASE p \in posted
    <3>1. PICK x : Places(p) = {x}
      BY <2>1 DEF PlaceInv
    <3> QED
      BY <2>1, <3>1, FS_Singleton
  <2>2. CASE p \notin posted
    BY <2>2, FS_EmptySet DEF PlaceInv
  <2> QED
    BY <2>1, <2>2
<1> QED
  BY <1>1, TypeInit, TypeStep, PlaceInit, PlaceStep, PTL DEF Spec

(***************************************************************************)
(* The books, as long as no handle was shared.                             *)
(***************************************************************************)

InCall(t) == pc[t] \in {"perform", "wait", "info"}

\* What a thread inside send_to_processor can rely on.
CallInv(t) ==
  /\ pc[t] = "perform" => payload[Called(t)] = cur[t] /\ busy[Called(t)] = None
  /\ pc[t] = "wait" => sent[t] = cur[t] /\ busy[Called(t)] = t
  /\ pc[t] = "info" /\ (Ok(t) \/ info[Called(t)] = 422) => cur[t] \in charged[Called(t)]

\* A handle belongs to one thread at a time, and is idle otherwise.
AloneInv ==
  /\ \A t, u \in Threads, q \in Processors : Using(t, q) /\ Using(u, q) => t = u
  /\ \A q \in Processors :
       busy[q] # None => \E t \in Threads : pc[t] = "wait" /\ Called(t) = q

HandleInv == ~shared => AloneInv /\ \A t \in Threads : CallInv(t)

\* A thread has just been told that processor q accepted p.
Told(t, p, q) == cur[t] = p /\ pc[t] = "info" /\ Called(t) = q /\ Ok(t)

\* What a processor accepted is counted or about to be, unless the response
\* was lost.
ChargedInv ==
  ~shared =>
    /\ \A q \in Processors : \A p \in charged[q] \ lost :
         p \in stored[q] \/ \E t \in Threads : Told(t, p, q)
    /\ \A q \in Processors : stored[q] \subseteq charged[q]
    /\ discarded \subseteq lost

\* The step leaves the thread's own state alone.
Same(u) ==
  /\ pc'[u] = pc[u] /\ cur'[u] = cur[u]
  /\ first'[u] = first[u] /\ second'[u] = second[u] /\ leg'[u] = leg[u]
  /\ sent'[u] = sent[u] /\ res'[u] = res[u]

\* A thread whose state is left alone calls the processor it called.
LEMMA SameCalled ==
  ASSUME NEW u, Same(u)
  PROVE  /\ Called(u)' = Called(u)
         /\ \A q : Using(u, q)' <=> Using(u, q)
BY Zenon DEF Same, Called, Using

\* A thread is not disturbed by what happens to handles it does not use.
LEMMA Undisturbed ==
  ASSUME NEW u, Same(u), CallInv(u),
         InCall(u) => /\ payload'[Called(u)] = payload[Called(u)]
                      /\ busy'[Called(u)] = busy[Called(u)]
                      /\ info'[Called(u)] = info[Called(u)]
                      /\ charged[Called(u)] \subseteq charged'[Called(u)]
  PROVE  /\ CallInv(u)'
         /\ \A p, q : Told(u, p, q) => Told(u, p, q)'
<1>0. PICK r : r = Called(u)
  BY Zenon
<1>1. Called(u)' = r /\ Called(u) = r
  BY <1>0, SameCalled
<1>2. /\ pc'[u] = pc[u] /\ cur'[u] = cur[u] /\ sent'[u] = sent[u] /\ res'[u] = res[u]
      /\ pc[u] \in {"perform", "wait", "info"} =>
           /\ payload'[r] = payload[r] /\ busy'[r] = busy[r] /\ info'[r] = info[r]
           /\ charged[r] \subseteq charged'[r]
  BY <1>1, Zenon DEF Same, InCall
<1>3. Ok(u)' <=> res'[u] /\ info'[r] = 200
  BY <1>1, Zenon DEF Ok
<1>4. Ok(u) <=> res[u] /\ info[r] = 200
  BY <1>1, Zenon DEF Ok
<1>5. pc[u] = "info" => (Ok(u)' <=> Ok(u))
  BY <1>2, <1>3, <1>4, Zenon
<1>6. CallInv(u)'
  <2>1. pc'[u] = "perform" => payload'[r] = cur'[u] /\ busy'[r] = None
    BY <1>1, <1>2, Zenon DEF CallInv
  <2>2. pc'[u] = "wait" => sent'[u] = cur'[u] /\ busy'[r] = u
    BY <1>1, <1>2, Zenon DEF CallInv
  <2>3. pc'[u] = "info" /\ (Ok(u)' \/ info'[r] = 422) => cur'[u] \in charged'[r]
    BY <1>1, <1>2, <1>5, ZenonT(40) DEF CallInv
  <2> QED
    BY <1>1, <2>1, <2>2, <2>3, ZenonT(40) DEF CallInv
<1>7. \A p, q : Told(u, p, q) => Told(u, p, q)'
  BY <1>1, <1>2, <1>5, Zenon DEF Told
<1> QED
  BY <1>6, <1>7, Zenon

\* A thread outside a call satisfies CallInv and uses nothing.
LEMMA NotInCall ==
  ASSUME NEW u
  PROVE  /\ ~InCall(u) => /\ CallInv(u)
                          /\ \A q : ~Using(u, q)
                          /\ \A p, q : ~Told(u, p, q)
         /\ ~InCall(u)' => /\ CallInv(u)'
                           /\ \A q : ~Using(u, q)'
                           /\ \A p, q : ~Told(u, p, q)'
BY DEF InCall, CallInv, Using, Told

\* Steps outside send_to_processor.
LEMMA Elsewhere ==
  ASSUME HandleInv, ChargedInv, TypeInv,
         UNCHANGED <<handles, charged, shared, stored, discarded, lost>>,
         \A u \in Threads : Same(u) \/ (~InCall(u) /\ ~InCall(u)')
  PROVE  HandleInv' /\ ChargedInv'
<1> SUFFICES ASSUME ~shared
             PROVE  AloneInv' /\ (\A t \in Threads : CallInv(t)') /\ ChargedInv'
  BY DEF HandleInv, ChargedInv
<1>1. AloneInv /\ \A t \in Threads : CallInv(t)
  BY DEF HandleInv
<1>2. UNCHANGED <<payload, busy, info>>
  BY DEF handles
<1>3. ASSUME NEW u \in Threads
      PROVE  /\ CallInv(u)'
             /\ \A q : Using(u, q)' <=> Using(u, q)
             /\ \A p, q : Told(u, p, q) => Told(u, p, q)'
  <2>1. CASE Same(u)
    BY <1>1, <1>2, <2>1, SameCalled, Undisturbed
  <2>2. CASE ~InCall(u) /\ ~InCall(u)'
    BY <2>2, NotInCall
  <2> QED
    BY <2>1, <2>2, ZenonT(40)
<1>4. AloneInv'
  <2>1. \A t, u \in Threads, q \in Processors : Using(t, q)' /\ Using(u, q)' => t = u
    BY <1>1, <1>3, Zenon DEF AloneInv
  <2>2. ASSUME NEW q \in Processors, busy'[q] # None
        PROVE  \E t \in Threads : pc'[t] = "wait" /\ Called(t)' = q
    <3>1. PICK t \in Threads : pc[t] = "wait" /\ Called(t) = q
      BY <1>1, <1>2, <2>2, Zenon DEF AloneInv
    <3>2. Same(t)
      BY <3>1, Zenon DEF InCall
    <3> QED
      BY <3>1, <3>2, SameCalled, Zenon DEF Same
  <2> QED
    BY <2>1, <2>2 DEF AloneInv
<1>5. ChargedInv'
  BY <1>3, Zenon DEF ChargedInv
<1> QED
  BY <1>3, <1>4, <1>5, ZenonT(40)

\* Threads other than t are not disturbed by a step of t on a handle that is
\* its own.
LEMMA Others ==
  ASSUME TypeInv, HandleInv, ~shared, NEW t \in Threads,
         \A u \in Threads \ {t} : Same(u) /\ ~Using(u, Called(t)),
         \A r \in Processors \ {Called(t)} :
           payload'[r] = payload[r] /\ busy'[r] = busy[r] /\ info'[r] = info[r],
         \A r \in Processors : charged[r] \subseteq charged'[r],
         NEW u \in Threads \ {t}
  PROVE  /\ CallInv(u)'
         /\ \A q : Using(u, q)' <=> Using(u, q)
         /\ \A p, q : Told(u, p, q) => Told(u, p, q)'
<1>1. CallInv(u) /\ Called(u) \in Processors
  BY CalledType, Zenon DEF HandleInv, TypeInv
<1>2. InCall(u) => Called(u) # Called(t)
  BY DEF InCall, Using
<1> QED
  BY <1>1, <1>2, SameCalled, Undisturbed, Zenon

\* Who may use the handle that t is using.
LEMMA MineAlone ==
  ASSUME TypeInv, HandleInv, ~shared, NEW t \in Threads, InCall(t)
  PROVE  \A u \in Threads \ {t} : ~Using(u, Called(t))
<1>1. Called(t) \in Processors /\ Using(t, Called(t))
  BY CalledType, Zenon DEF TypeInv, InCall, Using
<1> QED
  BY <1>1 DEF HandleInv, AloneInv

\* The handles stay private in a step of t, if they do for t and the handle
\* it uses.
LEMMA AloneAgain ==
  ASSUME TypeInv, HandleInv, ~shared, NEW t \in Threads,
         \A u \in Threads \ {t} : Same(u) /\ ~Using(u, Called(t)),
         \A r \in Processors \ {Called(t)} : busy'[r] = busy[r],
         \A u \in Threads \ {t} : \A q : Using(u, q)' <=> Using(u, q),
         \A q : Using(t, q)' => q = Called(t),
         \/ busy'[Called(t)] = None
         \/ pc'[t] = "wait" /\ Called(t)' = Called(t)
  PROVE  AloneInv'
<1>0. PICK m : m = Called(t)
  BY Zenon
<1>1. AloneInv
  BY Zenon DEF HandleInv
<1>2. ASSUME NEW v \in Threads, NEW u \in Threads, NEW q \in Processors,
             Using(v, q)', Using(u, q)'
      PROVE  v = u
  <2>1. CASE v # t /\ u # t
    BY <1>1, <1>2, <2>1, Zenon DEF AloneInv
  <2>2. CASE v = t \/ u = t
    BY <1>2, <2>2, SMT, SMTT(20)
  <2> QED
    BY <2>1, <2>2, Zenon
<1>3. ASSUME NEW q \in Processors, busy'[q] # None
      PROVE  \E u \in Threads : pc'[u] = "wait" /\ Called(u)' = q
  <2>1. CASE q = m
    BY <1>0, <1>3, <2>1, Zenon
  <2>2. CASE q # m
    <3>1. PICK u \in Threads : pc[u] = "wait" /\ Called(u) = q
      BY <1>0, <1>1, <1>3, <2>2, Zenon DEF AloneInv
    <3>2. u # t
      BY <1>0, <2>2, <3>1
    <3> QED
      BY <3>1, <3>2, SameCalled, Zenon DEF Same
  <2> QED
    BY <2>1, <2>2, Zenon
<1> QED
  BY <1>2, <1>3, Zenon DEF AloneInv

\* The steps of a call keep a private handle private.
LEMMA HandleCall ==
  ASSUME TypeInv, HandleInv, ChargedInv, NEW t \in Threads, Call(t)
  PROVE  HandleInv' /\ ChargedInv'
<1> SUFFICES ASSUME ~shared'
             PROVE  AloneInv' /\ (\A u \in Threads : CallInv(u)') /\ ChargedInv'
  BY DEF HandleInv, ChargedInv
<1>0. ~shared /\ UNCHANGED <<charged, stored, discarded, lost>>
  <2>1. ~shared
    <3>1. CASE SetPayload(t)
      BY <3>1, Zenon DEF SetPayload
    <3>2. CASE Perform(t) \/ PerformRefused(t)
      BY <3>2, Zenon DEF Perform, PerformRefused
    <3> QED
      BY <3>1, <3>2 DEF Call
  <2>2. UNCHANGED <<charged, stored, discarded, lost>>
    BY DEF Call, SetPayload, Perform, PerformRefused, books, world
  <2> QED
    BY <2>1, <2>2
<1>1. PICK m : m = Called(t)
  BY Zenon
<1>2. m \in Processors /\ cur[t] \in Payments /\ AloneInv /\ CallInv(t)
  BY <1>0, <1>1, CalledType, AtWork
     DEF TypeInv, HandleInv, Call, SetPayload, Perform, PerformRefused
<1>3. /\ pc \in [Threads -> Steps] /\ sent \in [Threads -> Payments \cup {None}]
      /\ res \in [Threads -> BOOLEAN]
      /\ payload \in [Processors -> Payments \cup {None}]
      /\ busy \in [Processors -> Threads \cup {None}]
      /\ info \in [Processors -> Codes]
  BY TypeOKParts, Zenon DEF TypeInv, ThreadParts, HandleParts
<1>4. Called(t)' = m
  BY <1>1, Zenon DEF Call, SetPayload, Perform, PerformRefused, Called, calls
<1>5. \A u \in Threads \ {t} : Same(u)
  BY <1>3 DEF Call, SetPayload, Perform, PerformRefused, calls, Same
<1>6. \A u \in Threads \ {t} : ~Using(u, m)
  <2>1. CASE SetPayload(t)
    BY <1>1, <2>1, Zenon DEF SetPayload
  <2>2. CASE Perform(t) \/ PerformRefused(t)
    <3>1. InCall(t)
      BY <2>2 DEF Perform, PerformRefused, InCall
    <3> QED
      BY <1>0, <1>1, <3>1, MineAlone, Zenon
  <2> QED
    BY <2>1, <2>2 DEF Call
<1>7. \A r \in Processors \ {m} :
        payload'[r] = payload[r] /\ busy'[r] = busy[r] /\ info'[r] = info[r]
  <2>1. CASE SetPayload(t)
    BY <1>1, <1>3, <2>1, Zenon DEF SetPayload
  <2>2. CASE Perform(t)
    BY <1>1, <1>3, <2>2 DEF Perform
  <2>3. CASE PerformRefused(t)
    BY <2>3, Zenon DEF PerformRefused, handles
  <2> QED
    BY <2>1, <2>2, <2>3, Zenon DEF Call
<1>8. ~PerformRefused(t)
  BY <1>2, Zenon DEF PerformRefused, CallInv
<1>9. \A u \in Threads \ {t} :
        /\ CallInv(u)'
        /\ \A q : Using(u, q)' <=> Using(u, q)
        /\ \A p, q : Told(u, p, q) => Told(u, p, q)'
  BY <1>0, <1>1, <1>5, <1>6, <1>7, Others, Zenon
<1>10. CASE SetPayload(t)
  <2>1. /\ payload' = [payload EXCEPT ![m] = cur[t]]
        /\ pc' = [pc EXCEPT ![t] = "perform"] /\ pc[t] = "payload"
        /\ UNCHANGED <<cur, busy, info>>
    BY <1>1, <1>10 DEF SetPayload
  <2>2. \A u \in Threads : ~Using(u, m)
    BY <1>1, <1>10, Zenon DEF SetPayload
  <2>3. busy[m] = None
    BY <1>2, <2>2, Zenon DEF AloneInv, Using
  <2>4. CallInv(t)'
    BY <1>2, <1>3, <1>4, <2>1, <2>3, SMT, SMTT(20) DEF CallInv
  <2>5. AloneInv'
    <3>1. busy'[Called(t)] = None /\ \A q : Using(t, q)' => q = Called(t)
      BY <1>1, <1>4, <2>1, <2>3 DEF Using
    <3> QED
      BY <1>0, <1>1, <1>5, <1>6, <1>7, <1>9, <3>1, AloneAgain, Zenon
  <2>6. \A p, q : ~Told(t, p, q)
    BY <2>1, Zenon DEF Told
  <2>7. ChargedInv'
    BY <1>0, <1>9, <2>6 DEF ChargedInv
  <2> QED
    BY <1>9, <2>4, <2>5, <2>7
<1>11. CASE Perform(t)
  <2>1. /\ pc' = [pc EXCEPT ![t] = "wait"] /\ pc[t] = "perform"
        /\ busy' = [busy EXCEPT ![m] = t]
        /\ UNCHANGED <<cur, payload>>
    BY <1>1, <1>11, Zenon DEF Perform
  <2>2. payload[m] = cur[t]
    BY <1>1, <1>2, <2>1 DEF CallInv
  <2>3. sent' = [sent EXCEPT ![t] = cur[t]]
    BY <1>1, <1>11, <2>2, Zenon DEF Perform
  <2>4. CallInv(t)'
    BY <1>2, <1>3, <1>4, <2>1, <2>3 DEF CallInv
  <2>5. AloneInv'
    <3>1. pc'[t] = "wait" /\ Called(t)' = Called(t) /\ \A q : Using(t, q)' => q = Called(t)
      BY <1>1, <1>3, <1>4, <2>1 DEF Using
    <3> QED
      BY <1>0, <1>1, <1>5, <1>6, <1>7, <1>9, <3>1, AloneAgain, Zenon
  <2>6. \A p, q : ~Told(t, p, q)
    BY <2>1, Zenon DEF Told
  <2>7. ChargedInv'
    BY <1>0, <1>9, <2>6, Zenon DEF ChargedInv
  <2> QED
    BY <1>9, <2>4, <2>5, <2>7, Zenon
<1> QED
  BY <1>8, <1>10, <1>11, Zenon DEF Call

\* An answer reaches the thread that made the request.
LEMMA HandleAnswer ==
  ASSUME TypeInv, HandleInv, ChargedInv, NEW t \in Threads, Answer(t)
  PROVE  HandleInv' /\ ChargedInv'
<1>0. PICK c \in Codes : Answered(t, c)
  BY SMT, SMTT(20) DEF Answer, Accept, Duplicate, Refuse, LoseResponse, Codes
<1> SUFFICES ASSUME ~shared
             PROVE  AloneInv' /\ (\A u \in Threads : CallInv(u)') /\ ChargedInv'
  BY <1>0, Zenon DEF HandleInv, ChargedInv, Answered
<1>1. PICK m : m = Called(t)
  BY Zenon
<1>2. /\ m \in Processors /\ AloneInv /\ CallInv(t)
      /\ pc[t] = "wait" /\ InCall(t)
      /\ sent[t] = cur[t] /\ busy[m] = t
  BY <1>0, <1>1, CalledType, Zenon DEF TypeInv, HandleInv, Answered, CallInv, InCall
<1>3. /\ pc \in [Threads -> Steps] /\ sent \in [Threads -> Payments \cup {None}]
      /\ res \in [Threads -> BOOLEAN]
      /\ busy \in [Processors -> Threads \cup {None}]
      /\ info \in [Processors -> Codes]
      /\ charged \in [Processors -> SUBSET Payments]
  BY TypeOKParts, Zenon DEF TypeInv, ThreadParts, HandleParts, BookParts
<1>4. /\ pc' = [pc EXCEPT ![t] = "info"]
      /\ busy' = [busy EXCEPT ![m] = None]
      /\ info' = [info EXCEPT ![m] = c]
      /\ res' = [res EXCEPT ![t] = (c # 0)]
      /\ sent' = [sent EXCEPT ![t] = None]
      /\ UNCHANGED <<cur, first, second, leg, payload, stored, discarded>>
  BY <1>0, <1>1, Zenon DEF Answered, books
<1>5. Called(t)' = m /\ \A u \in Threads \ {t} : Same(u)
  BY <1>1, <1>3, <1>4, Zenon DEF Called, Same
<1>6. \A u \in Threads \ {t} : ~Using(u, m)
  BY <1>1, <1>2, MineAlone, Zenon
<1>7. \A r \in Processors \ {m} :
        payload'[r] = payload[r] /\ busy'[r] = busy[r] /\ info'[r] = info[r]
  BY <1>3, <1>4, Zenon
<1>8. \/ c = 200 /\ charged' = [charged EXCEPT ![m] = @ \cup {cur[t]}] /\ lost' = lost
      \/ c = 422 /\ cur[t] \in charged[m] /\ UNCHANGED <<charged, lost>>
      \/ c \in {0, 500} /\ UNCHANGED <<charged, lost>>
      \/ /\ c = 0 /\ charged' = [charged EXCEPT ![m] = @ \cup {cur[t]}]
         /\ lost' = lost \cup {cur[t]}
  <2>1. \A d : Answered(t, d) => info'[m] = d
    BY <1>1, <1>2, <1>3, Zenon DEF Answered
  <2>2. \A d : Answered(t, d) => d = c
    BY <1>0, <2>1, Zenon
  <2>3. ASSUME Accept(t)
        PROVE  c = 200 /\ charged' = [charged EXCEPT ![m] = @ \cup {cur[t]}] /\ lost' = lost
    BY <1>1, <1>2, <2>2, <2>3, Zenon DEF Accept
  <2>4. ASSUME Duplicate(t)
        PROVE  c = 422 /\ cur[t] \in charged[m] /\ UNCHANGED <<charged, lost>>
    BY <1>1, <1>2, <2>2, <2>4, Zenon DEF Duplicate
  <2>5. ASSUME Refuse(t)
        PROVE  c \in {0, 500} /\ UNCHANGED <<charged, lost>>
    BY <2>2, <2>5, SMT, SMTT(20) DEF Refuse
  <2>6. ASSUME LoseResponse(t)
        PROVE  /\ c = 0 /\ charged' = [charged EXCEPT ![m] = @ \cup {cur[t]}]
               /\ lost' = lost \cup {cur[t]}
    BY <1>1, <1>2, <2>2, <2>6, Zenon DEF LoseResponse
  <2> QED
    BY <2>3, <2>4, <2>5, <2>6, Zenon DEF Answer
<1>9. /\ \A r \in Processors : charged[r] \subseteq charged'[r]
      /\ \A r \in Processors : \A p : p \in charged'[r] \ charged[r] => r = m /\ p = cur[t]
      /\ lost \subseteq lost'
  BY <1>2, <1>3, <1>8, SMT, SMTT(20)
<1>10. \A u \in Threads \ {t} :
        /\ CallInv(u)'
        /\ \A q : Using(u, q)' <=> Using(u, q)
        /\ \A p, q : Told(u, p, q) => Told(u, p, q)'
  BY <1>1, <1>5, <1>6, <1>7, <1>9, Others, Zenon
<1>11. /\ pc'[t] = "info" /\ info'[m] = c /\ res'[t] = (c # 0) /\ busy'[m] = None
  BY <1>2, <1>3, <1>4, Zenon
<1>12. CallInv(t)'
  <2>1. c \in {200, 422} => cur[t] \in charged'[m]
    BY <1>2, <1>3, <1>8, SMT, SMTT(20)
  <2> QED
    <3>1. cur' = cur /\ pc'[t] = "info" /\ info'[m] = c /\ Called(t)' = m
      BY <1>4, <1>5, <1>11, Zenon
    <3>2. Ok(t)' => c = 200
      BY <3>1, Zenon DEF Ok
    <3> QED
      BY <3>1, <3>2, <2>1, Zenon DEF CallInv
<1>13. AloneInv'
  <2>1. busy'[Called(t)] = None /\ \A q : Using(t, q)' => q = Called(t)
    BY <1>1, <1>5, <1>11, Zenon DEF Using
  <2> QED
    BY <1>1, <1>5, <1>6, <1>7, <1>10, <2>1, AloneAgain, Zenon
<1>14. ChargedInv'
  <2>1. ASSUME NEW q \in Processors, NEW p \in charged'[q] \ lost'
        PROVE  p \in stored'[q] \/ \E u \in Threads : Told(u, p, q)'
    <3>1. CASE p \in charged[q]
      <4>1. p \in stored[q] \/ \E u \in Threads : Told(u, p, q)
        BY <1>9, <2>1, <3>1, Zenon DEF ChargedInv
      <4>2. ~Told(t, p, q)
        BY <1>2, Zenon DEF Told
      <4> QED
        BY <1>4, <1>10, <4>1, <4>2, Zenon
    <3>2. CASE p \notin charged[q]
      <4>1. q = m /\ p = cur[t]
        BY <1>9, <2>1, <3>2
      <4>2. c = 200
        BY <1>8, <2>1, <3>2, <4>1
      <4>3. c # 0
        BY <4>2, SMT, SMTT(20)
      <4>4. res'[t]
        BY <1>11, <4>3, Zenon
      <4>5. Told(t, p, q)'
        BY <1>4, <1>5, <1>11, <4>1, <4>2, <4>4, Zenon DEF Told, Ok
      <4> QED
        BY <4>5, ZenonT(40)
    <3> QED
      BY <3>1, <3>2, Zenon
  <2>2. \A q \in Processors : stored'[q] \subseteq charged'[q]
    BY <1>4, <1>9, Zenon DEF ChargedInv
  <2>3. discarded' \subseteq lost'
    BY <1>4, <1>9 DEF ChargedInv
  <2> QED
    BY <2>1, <2>2, <2>3, Zenon DEF ChargedInv
<1> QED
  BY <1>10, <1>12, <1>13, <1>14, Zenon

\* The conclusions: what is counted was accepted, and what is discarded was
\* accepted in a response that got lost.
LEMMA HandleConclude ==
  ASSUME TypeInv, PlaceInv, HandleInv, ChargedInv, NEW t \in Threads, Conclude(t)
  PROVE  HandleInv' /\ ChargedInv'
<1>0. UNCHANGED <<charged, lost, shared>>
  BY Zenon DEF Conclude, Store, Discard, SecondCall, TryAgain, world
<1> SUFFICES ASSUME ~shared
             PROVE  AloneInv' /\ (\A u \in Threads : CallInv(u)') /\ ChargedInv'
  BY <1>0 DEF HandleInv, ChargedInv
<1>1. PICK m : m = Called(t)
  BY Zenon
<1>2. /\ m \in Processors /\ AloneInv /\ CallInv(t)
      /\ pc[t] = "info" /\ InCall(t) /\ cur[t] \in Payments
  BY <1>1, CalledType, AtWork, ZenonT(40)
     DEF TypeInv, HandleInv, Conclude, Store, Discard, SecondCall, TryAgain, InCall
<1>3. /\ pc \in [Threads -> Steps] /\ cur \in [Threads -> Payments \cup {None}]
      /\ first \in [Threads -> Processors] /\ second \in [Threads -> Processors]
      /\ leg \in [Threads -> {1, 2}]
      /\ sent \in [Threads -> Payments \cup {None}]
      /\ res \in [Threads -> BOOLEAN]
      /\ payload \in [Processors -> Payments \cup {None}]
      /\ info \in [Processors -> Codes]
      /\ stored \in [Processors -> SUBSET Payments]
  BY TypeOKParts, Zenon DEF TypeInv, ThreadParts, HandleParts, BookParts
<1>4. LetGo(t)
  BY Zenon DEF Conclude, Store, Discard, SecondCall, TryAgain, Done
<1>5. /\ busy' = busy /\ sent' = sent
      /\ \A u \in Threads \ {t} : res'[u] = res[u]
      /\ \A r \in Processors \ {m} : payload'[r] = payload[r] /\ info'[r] = info[r]
  BY <1>1, <1>3, <1>4, Zenon DEF LetGo
<1>6. /\ \E e \in {"release", "idle", "payload"} : pc' = [pc EXCEPT ![t] = e]
      /\ \A u \in Threads \ {t} : /\ cur'[u] = cur[u] /\ first'[u] = first[u]
                                  /\ second'[u] = second[u] /\ leg'[u] = leg[u]
  <2>1. CASE Done(t)
    BY <1>3, <2>1, Zenon DEF Done
  <2>2. CASE SecondCall(t)
    BY <1>3, <2>2, SMT, SMTT(20) DEF SecondCall
  <2> QED
    BY <2>1, <2>2, Zenon DEF Conclude, Store, Discard, TryAgain
<1>7. ~InCall(t)' /\ \A u \in Threads \ {t} : Same(u)
  BY <1>3, <1>5, <1>6, Zenon DEF InCall, Same
<1>8. \A u \in Threads \ {t} : ~Using(u, m)
  BY <1>1, <1>2, MineAlone, Zenon
<1>9. busy[m] = None
  <2>1. ~\E u \in Threads : pc[u] = "wait" /\ Called(u) = m
    BY <1>2, <1>8, Zenon DEF Using
  <2> QED
    BY <1>2, <2>1, Zenon DEF AloneInv
<1>10. \A u \in Threads \ {t} :
        /\ CallInv(u)'
        /\ \A q : Using(u, q)' <=> Using(u, q)
        /\ \A p, q : Told(u, p, q) => Told(u, p, q)'
  BY <1>0, <1>1, <1>5, <1>7, <1>8, Others, Zenon
<1>11. CallInv(t)' /\ \A q : ~Using(t, q)'
  BY <1>7, NotInCall, Zenon
<1>12. AloneInv'
  BY <1>1, <1>5, <1>7, <1>8, <1>9, <1>10, <1>11, AloneAgain, Zenon
<1>13. ASSUME stored' = stored, ~Ok(t), discarded' \subseteq lost
       PROVE  ChargedInv'
  <2>1. \A p, q : ~Told(t, p, q)
    BY <1>13, Zenon DEF Told
  <2> QED
    BY <1>0, <1>10, <1>13, <2>1, Zenon DEF ChargedInv
<1>14. CASE Store(t)
  <2>1. /\ stored' = [stored EXCEPT ![m] = @ \cup {cur[t]}] /\ discarded' = discarded
        /\ Ok(t)
    BY <1>1, <1>14, Zenon DEF Store
  <2>2. \A r \in Processors : \A p : p \in stored'[r] <=> p \in stored[r] \/ (r = m /\ p = cur[t])
    BY <1>2, <1>3, <2>1, Zenon
  <2>3. cur[t] \in charged[m]
    BY <1>1, <1>2, <2>1 DEF CallInv
  <2>4. \A p, q : Told(t, p, q) => q = m /\ p = cur[t]
    BY <1>1, Zenon DEF Told
  <2>5. \A q \in Processors : \A p \in charged[q] \ lost :
          p \in stored'[q] \/ \E u \in Threads : Told(u, p, q)'
    BY <1>10, <2>2, <2>4, Zenon DEF ChargedInv
  <2>6. \A q \in Processors : stored'[q] \subseteq charged[q]
    BY <2>2, <2>3, Zenon DEF ChargedInv
  <2>7. discarded' \subseteq lost
    BY <2>1, Zenon DEF ChargedInv
  <2> QED
    BY <1>0, <1>10, <1>11, <1>12, <2>5, <2>6, <2>7, Zenon DEF ChargedInv
<1>15. CASE Discard(t)
  <2>1. /\ discarded' = discarded \cup {cur[t]} /\ stored' = stored
        /\ ~Ok(t) /\ info[m] = 422
    BY <1>1, <1>15, Zenon DEF Discard
  <2>2. cur[t] \in charged[m]
    BY <1>1, <1>2, <2>1, Zenon DEF CallInv
  <2>3. /\ \A u \in Threads : cur[u] = cur[t] => u = t
        /\ cur[t] \notin stored[m]
    BY <1>2, HeldAlone, Zenon
  <2>4. cur[t] \in lost /\ discarded \subseteq lost
    <3>1. /\ \A p \in charged[m] \ lost : p \in stored[m] \/ \E u \in Threads : Told(u, p, m)
          /\ discarded \subseteq lost
      BY <1>2, Zenon DEF ChargedInv
    <3>2. \A u \in Threads : ~Told(u, cur[t], m)
      BY <2>1, <2>3, SMT, SMTT(20) DEF Told
    <3> QED
      BY <2>2, <2>3, <3>1, <3>2, Zenon
  <2>5. discarded' \subseteq lost
    BY <2>1, <2>4, SMT, SMTT(20)
  <2> QED
    BY <1>10, <1>11, <1>12, <1>13, <2>1, <2>5, Zenon
<1>16. CASE SecondCall(t) \/ TryAgain(t)
  <2>1. stored' = stored /\ discarded' = discarded /\ ~Ok(t)
    BY <1>16, Zenon DEF SecondCall, TryAgain, books
  <2> QED
    BY <1>10, <1>11, <1>12, <1>13, <2>1, Zenon DEF ChargedInv
<1> QED
  BY <1>14, <1>15, <1>16, Zenon DEF Conclude

\* Every step keeps the books right.
LEMMA HandleStep ==
  TypeInv /\ PlaceInv /\ HandleInv /\ ChargedInv /\ [Next]_vars
    => HandleInv' /\ ChargedInv'
<1> SUFFICES ASSUME TypeInv, PlaceInv, HandleInv, ChargedInv, [Next]_vars
             PROVE  HandleInv' /\ ChargedInv'
  OBVIOUS
<1>0. /\ pc \in [Threads -> Steps] /\ cur \in [Threads -> Payments \cup {None}]
      /\ first \in [Threads -> Processors] /\ second \in [Threads -> Processors]
      /\ leg \in [Threads -> {1, 2}]
  BY TypeOKParts DEF TypeInv, ThreadParts
<1>1. CASE (\E p \in Payments : Post(p)) \/ IntervalElapses \/ UNCHANGED vars
  <2>1. UNCHANGED <<handles, charged, shared, stored, discarded, lost, pc, cur, calls>>
    BY <1>1, Zenon DEF Post, IntervalElapses, vars, books, world
  <2>2. \A u \in Threads : Same(u)
    BY <2>1 DEF Same, calls
  <2> QED
    BY <2>1, <2>2, Elsewhere, Zenon
<1>2. CASE Fetch \/ ProcessHere
  <2>1. /\ UNCHANGED <<handles, charged, shared, stored, discarded, lost>>
        /\ pc[Worker] \in {"idle", "choose"}
        /\ \E e \in {"choose", "payload"} : pc' = [pc EXCEPT ![Worker] = e]
    BY <1>2 DEF Fetch, ProcessHere, books, world
  <2>2. ~InCall(Worker) /\ ~InCall(Worker)'
    BY <1>0, <2>1, ThreadKinds, Zenon DEF InCall
  <2>3. \A u \in Threads \ {Worker} : Same(u)
    BY <1>0, <1>2, Zenon DEF Fetch, ProcessHere, StartCalls, Same, calls
  <2> QED
    BY <2>1, <2>2, <2>3, Elsewhere, Zenon
<1>3. ASSUME NEW c \in Pools, HandOff(c)
      PROVE  HandleInv' /\ ChargedInv'
  <2>1. /\ UNCHANGED <<handles, charged, shared, stored, discarded, lost>>
        /\ pc[Worker] = "choose" /\ pc[c] = "idle"
        /\ pc' = [pc EXCEPT ![c] = "payload", ![Worker] = "idle"]
    BY <1>3 DEF HandOff, books, world
  <2>2. \A u \in {c, Worker} : ~InCall(u) /\ ~InCall(u)'
    BY <1>0, <2>1, ThreadKinds, Zenon DEF InCall
  <2>3. \A u \in Threads \ {c, Worker} : Same(u)
    BY <1>0, <1>3, Zenon DEF HandOff, StartCalls, Same
  <2> QED
    BY <2>1, <2>2, <2>3, Elsewhere
<1>4. ASSUME NEW c \in Pools, Release(c) \/ Stamp(c)
      PROVE  HandleInv' /\ ChargedInv'
  <2>1. /\ UNCHANGED <<handles, charged, shared, stored, discarded, lost, cur, calls>>
        /\ pc[c] \in {"release", "stamp"}
        /\ \E e \in {"stamp", "idle"} : pc' = [pc EXCEPT ![c] = e]
    BY <1>4, Zenon DEF Release, Stamp, books, world
  <2>2. ~InCall(c) /\ ~InCall(c)'
    BY <1>0, <2>1, ThreadKinds, Zenon DEF InCall
  <2>3. \A u \in Threads \ {c} : Same(u)
    BY <1>0, <2>1, Zenon DEF Same, calls
  <2> QED
    BY <2>1, <2>2, <2>3, Elsewhere, Zenon
<1> QED
  BY <1>1, <1>2, <1>3, <1>4, HandleCall, HandleAnswer, HandleConclude DEF Next

\* The invariant of this module.
IInv == TypeInv /\ PlaceInv /\ HandleInv /\ ChargedInv

\* It holds initially ...
LEMMA IInvInit == Init => IInv
<1> SUFFICES ASSUME Init PROVE HandleInv /\ ChargedInv
  BY TypeInit, PlaceInit, Zenon DEF IInv
<1>1. \A t \in Threads : ~InCall(t)
  BY DEF Init, InCall
<1>2. AloneInv
  <2>1. \A q \in Processors : busy[q] = None
    BY DEF Init
  <2> QED
    BY <1>1, <2>1, NotInCall DEF AloneInv
<1>3. \A q \in Processors : charged[q] = {} /\ stored[q] = {}
  BY DEF Init
<1>4. discarded = {}
  BY DEF Init
<1> QED
  BY <1>1, <1>2, <1>3, <1>4, NotInCall, Zenon DEF HandleInv, ChargedInv

\* ... and after every step.
LEMMA IInvStep == IInv /\ [Next]_vars => IInv'
BY TypeStep, PlaceStep, HandleStep DEF IInv

\* A payment is counted under a processor only if that processor accepted it,
\* as long as store_processed never followed a call on a shared handle.
THEOREM CountedWasAccepted == Spec => []StoredWasCharged
<1>1. IInv => StoredWasCharged
  BY DEF IInv, ChargedInv, StoredWasCharged
<1> QED
  BY <1>1, IInvInit, IInvStep, PTL DEF Spec

\* In one place means not counted under both processors, and not counted
\* while a thread holds it.
LEMMA NotBoth ==
  ASSUME IInv, NEW p \in Payments
  PROVE  /\ ~(p \in stored["default"] /\ p \in stored["fallback"])
         /\ \A t \in Threads, q \in Processors : cur[t] = p => p \notin stored[q]
<1>1. \A t \in Threads, q \in Processors : cur[t] = p => p \notin stored[q]
  BY HeldAlone DEF IInv
<1>2. ASSUME p \in stored["default"], p \in stored["fallback"]
      PROVE  FALSE
  <2>1. /\ IsPlace(queue, cur, stored, discarded, p, <<"stored", "default">>)
        /\ IsPlace(queue, cur, stored, discarded, p, <<"stored", "fallback">>)
    BY <1>2, Zenon DEF IsPlace, Processors
  <2>2. <<"stored", "default">> \in Places(p) /\ <<"stored", "fallback">> \in Places(p)
    BY <2>1, PlacesNow
  <2>3. <<"stored", "default">> = <<"stored", "fallback">>
    BY <2>2, SMT, SMTT(20) DEF IInv, PlaceInv
  <2> QED
    BY <2>3, Zenon
<1> QED
  BY <1>1, <1>2, Zenon

\* Without shared handles only a lost response makes a second processor
\* accept a payment, or makes the service discard it after a 422.
THEOREM LossExplainsDuplicates == Spec => []OnlyLossDuplicates
<1>1. IInv => OnlyLossDuplicates
  <2> SUFFICES ASSUME IInv, ~shared, NEW p,
                      p \in charged["default"], p \in charged["fallback"], p \notin lost
               PROVE  FALSE
    BY Zenon DEF IInv, ChargedInv, OnlyLossDuplicates
  <2>1. p \in Payments
    BY Zenon DEF IInv, TypeInv, TypeOK, Processors
  <2>2. /\ p \in stored["default"] \/ \E t \in Threads : Told(t, p, "default")
        /\ p \in stored["fallback"] \/ \E t \in Threads : Told(t, p, "fallback")
    BY Zenon DEF IInv, ChargedInv, Processors
  <2>3. \A t, u \in Threads : cur[t] = p /\ cur[u] = p => t = u
    BY <2>1, HeldAlone DEF IInv
  <2> QED
    BY <2>1, <2>2, <2>3, NotBoth, Zenon DEF Told, Processors
<1> QED
  BY <1>1, IInvInit, IInvStep, PTL DEF Spec

\* When no work is left, no handle was shared and no response lost, the totals
\* are exactly what the processors accepted.
THEOREM BooksAreBalanced == Spec => []BooksBalance
<1>1. IInv => BooksBalance
  <2> SUFFICES ASSUME IInv, Quiet, ~shared, lost = {}
               PROVE  stored = charged
    BY Zenon DEF BooksBalance
  <2>1. /\ stored \in [Processors -> SUBSET Payments]
        /\ charged \in [Processors -> SUBSET Payments]
    BY Zenon DEF IInv, TypeInv, TypeOK
  <2>2. \A q \in Processors, p \in Payments : \A t \in Threads : ~Told(t, p, q)
    BY ServiceAssumption DEF Quiet, Told
  <2>3. \A q \in Processors : charged[q] \subseteq stored[q] /\ stored[q] \subseteq charged[q]
    BY <2>1, <2>2, Zenon DEF IInv, ChargedInv
  <2>4. \A q \in Processors : stored[q] = charged[q]
    BY <2>3
  <2> QED
    BY <2>1, <2>4, SMT, SMTT(20)
<1> QED
  BY <1>1, IInvInit, IInvStep, PTL DEF Spec

(***************************************************************************)
(* The service implements PaymentLedger.                                   *)
(***************************************************************************)

\* The refinement mapping of status.
Status == [p \in Payments |-> StatusOf(p)]

\* A payment's status, before and after a step, from where the payment is.
LEMMA StatusValue ==
  ASSUME PlaceInv, NEW p \in Payments
  PROVE  /\ p \notin posted => StatusOf(p) = "new"
         /\ p \in discarded => StatusOf(p) = "dropped"
         /\ (\E q \in Processors : p \in stored[q]) => StatusOf(p) = "booked"
         /\ p \in posted /\ p \notin discarded /\ (\A q \in Processors : p \notin stored[q])
              => StatusOf(p) = "open"
<1>1. p \in discarded => p \in posted
  <2> SUFFICES ASSUME p \in discarded PROVE p \in posted
    OBVIOUS
  <2>1. IsPlace(queue, cur, stored, discarded, p, <<"discarded", p>>)
    BY DEF IsPlace
  <2> QED
    BY <2>1, PlacesNow DEF PlaceInv
<1>2. ASSUME NEW q \in Processors, p \in stored[q]
      PROVE  p \in posted /\ p \notin discarded
  <2>1. IsPlace(queue, cur, stored, discarded, p, <<"stored", q>>)
    BY <1>2 DEF IsPlace
  <2>2. Places(p) = {<<"stored", q>>} /\ p \in posted
    BY <2>1, PlacesNow DEF PlaceInv
  <2>3. p \in discarded => IsPlace(queue, cur, stored, discarded, p, <<"discarded", p>>)
    BY DEF IsPlace
  <2>4. p \in discarded => <<"discarded", p>> = <<"stored", q>>
    BY <2>2, <2>3, PlacesNow, Zenon
  <2> QED
    BY <2>2, <2>4, KindsDiffer, Zenon
<1> QED
  BY <1>1, <1>2 DEF StatusOf

\* The payment that a thread holds is open.
LEMMA HeldOpen ==
  ASSUME TypeInv, PlaceInv, NEW t \in Threads, cur[t] \in Payments
  PROVE  StatusOf(cur[t]) = "open"
BY HeldAlone, StatusValue

\* A step that changes no set of payments changes no status.
LEMMA SameStatus ==
  ASSUME UNCHANGED <<posted, stored, discarded>>
  PROVE  Status' = Status
BY SMT, SMTT(20) DEF Status, StatusOf

\* A payment whose membership in the sets does not change keeps its status.
LEMMA SameStatusOf ==
  ASSUME NEW p, p \in posted' <=> p \in posted, p \in discarded' <=> p \in discarded,
         \A q \in Processors : p \in stored'[q] <=> p \in stored[q]
  PROVE  StatusOf(p)' = StatusOf(p)
BY SMT, SMTT(20) DEF StatusOf

\* One payment's status changes.
LEMMA StatusChange ==
  ASSUME NEW m \in Payments, NEW s, StatusOf(m)' = s,
         \A p \in Payments \ {m} : StatusOf(p)' = StatusOf(p)
  PROVE  Status' = [Status EXCEPT ![m] = s]
BY Zenon DEF Status

\* Every step is a step of the ledger, or changes nothing in it.
LEMMA LedgerStep ==
  ASSUME IInv, IInv', ~shared, [Next]_vars
  PROVE  [Ledger!Next]_(Ledger!ledger)
<1>0. /\ \A p \in Payments : Status[p] = StatusOf(p)
      /\ TypeInv /\ PlaceInv /\ PlaceInv'
      /\ stored \in [Processors -> SUBSET Payments]
  BY DEF Status, IInv, TypeInv, TypeOK
<1>1. ASSUME UNCHANGED <<posted, stored, discarded, charged>>
      PROVE  UNCHANGED Ledger!ledger
  BY <1>1, SameStatus, Zenon DEF Ledger!ledger, Status
<1>2. ASSUME NEW p \in Payments, Post(p)
      PROVE  Ledger!Submit(p)
  <2>1. p \notin posted /\ posted' = posted \cup {p} /\ UNCHANGED <<stored, discarded, charged>>
    BY <1>2, Zenon DEF Post, books
  <2>2. StatusOf(p) = "new"
    BY <1>0, <2>1, StatusValue, Zenon
  <2>3. \A x \in Payments \ {p} : StatusOf(x)' = StatusOf(x)
    BY <2>1, SameStatusOf, Zenon
  <2>4. p \notin discarded /\ \A q \in Processors : p \notin stored[q]
    BY <1>0, <2>2, StatusValue
  <2>5. StatusOf(p)' = "open"
    BY <2>1, <2>4 DEF StatusOf
  <2>6. Status' = [Status EXCEPT ![p] = "open"]
    BY <2>3, <2>5, StatusChange, Zenon
  <2> QED
    BY <1>0, <2>1, <2>2, <2>6 DEF Ledger!Submit, Status
<1>3. ASSUME NEW t \in Threads, Answer(t)
      PROVE  [Ledger!Next]_(Ledger!ledger)
  <2>1. UNCHANGED <<posted, stored, discarded>> /\ pc[t] = "wait"
    BY <1>3 DEF Answer, Accept, Duplicate, Refuse, LoseResponse, Answered, books
  <2>2. CASE UNCHANGED charged
    BY <1>1, <2>1, <2>2
  <2>3. CASE Accept(t) \/ LoseResponse(t)
    <3>0. PICK m, q : m = cur[t] /\ q = Called(t)
      BY Zenon
    <3>1. m \in Payments /\ q \in Processors
      BY <1>0, <2>1, <3>0, AtWork, CalledType, Zenon DEF TypeInv
    <3>2. sent[t] = m
      BY <2>1, <3>0, Zenon DEF IInv, HandleInv, CallInv
    <3>3. m \notin charged[q] /\ charged' = [charged EXCEPT ![q] = @ \cup {m}]
      BY <2>3, <3>0, <3>2, Zenon DEF Accept, LoseResponse
    <3>4. StatusOf(m) = "open"
      BY <1>0, <3>0, <3>1, HeldOpen, Zenon
    <3>5. Ledger!Charge(q, m)
      BY <1>0, <2>1, <3>1, <3>3, <3>4, SameStatus, Zenon DEF Ledger!Charge, Status
    <3> QED
      BY <3>1, <3>5 DEF Ledger!Next
  <2> QED
    BY <1>3, <2>2, <2>3, Zenon DEF Answer, Duplicate, Refuse
<1>4. ASSUME NEW t \in Threads, Store(t)
      PROVE  Ledger!Next
  <2>0. PICK m, q : m = cur[t] /\ q = Called(t)
    BY Zenon
  <2>1. /\ m \in Payments /\ q \in Processors /\ pc[t] = "info" /\ Ok(t)
        /\ stored' = [stored EXCEPT ![q] = @ \cup {m}]
        /\ UNCHANGED <<posted, discarded, charged>>
    BY <1>0, <1>4, <2>0, AtWork, CalledType, Zenon DEF Store, TypeInv, world
  <2>2. m \in charged[q]
    BY <2>0, <2>1, Zenon DEF IInv, HandleInv, CallInv
  <2>3. StatusOf(m) = "open"
    BY <1>0, <2>0, <2>1, HeldOpen, Zenon
  <2>4. \A r \in Processors : \A p : p \in stored'[r] <=> p \in stored[r] \/ (r = q /\ p = m)
    BY <1>0, <2>1, Zenon
  <2>5. \A x \in Payments \ {m} : StatusOf(x)' = StatusOf(x)
    BY <2>1, <2>4, SameStatusOf, ZenonT(40)
  <2>6. m \in posted /\ m \notin discarded
    BY <1>0, <2>0, <2>1, HeldAlone
  <2>7. StatusOf(m)' = "booked"
    BY <2>1, <2>4, <2>6, Zenon DEF StatusOf
  <2>8. Status' = [Status EXCEPT ![m] = "booked"]
    BY <2>1, <2>5, <2>7, StatusChange, ZenonT(40)
  <2>9. Ledger!Book(q, m)
    BY <1>0, <2>1, <2>2, <2>3, <2>8 DEF Ledger!Book, Status
  <2> QED
    BY <2>1, <2>9 DEF Ledger!Next
<1>5. ASSUME NEW t \in Threads, Discard(t)
      PROVE  Ledger!Next
  <2>0. PICK m, q : m = cur[t] /\ q = Called(t)
    BY Zenon
  <2>1. /\ m \in Payments /\ q \in Processors /\ pc[t] = "info" /\ info[q] = 422
        /\ discarded' = discarded \cup {m}
        /\ UNCHANGED <<posted, stored, charged>>
    BY <1>0, <1>5, <2>0, AtWork, CalledType, Zenon DEF Discard, TypeInv, world
  <2>2. m \in charged[q]
    BY <2>0, <2>1, Zenon DEF IInv, HandleInv, CallInv
  <2>3. StatusOf(m) = "open"
    BY <1>0, <2>0, <2>1, HeldOpen, Zenon
  <2>4. \A x \in Payments \ {m} : StatusOf(x)' = StatusOf(x)
    BY <2>1, SameStatusOf, ZenonT(40)
  <2>5. m \in posted /\ \A r \in Processors : m \notin stored[r]
    BY <1>0, <2>0, <2>1, HeldAlone, SMT, SMTT(20)
  <2>6. StatusOf(m)' = "dropped"
    BY <2>1, <2>5 DEF StatusOf
  <2>7. Status' = [Status EXCEPT ![m] = "dropped"]
    BY <2>1, <2>4, <2>6, StatusChange, SMT, SMTT(20)
  <2>8. Ledger!Drop(m)
    BY <1>0, <2>1, <2>2, <2>3, <2>7, Zenon DEF Ledger!Drop, Status
  <2> QED
    BY <2>1, <2>8 DEF Ledger!Next
<1>6. CASE Fetch \/ ProcessHere \/ IntervalElapses \/ UNCHANGED vars
  BY <1>1, <1>6, Zenon DEF Fetch, ProcessHere, IntervalElapses, vars, books, world
<1>7. ASSUME NEW c \in Pools, HandOff(c) \/ Release(c) \/ Stamp(c)
      PROVE  UNCHANGED Ledger!ledger
  BY <1>1, <1>7, Zenon DEF HandOff, Release, Stamp, books, world
<1>8. ASSUME NEW t \in Threads, Call(t) \/ SecondCall(t) \/ TryAgain(t)
      PROVE  UNCHANGED Ledger!ledger
  BY <1>1, <1>8, Zenon DEF Call, SetPayload, Perform, PerformRefused, SecondCall, TryAgain,
                    books, world
<1>9. ASSUME NEW p \in Payments, Post(p)
      PROVE  Ledger!Next
  BY <1>2, <1>9 DEF Ledger!Next
<1> QED
  BY <1>3, <1>4, <1>5, <1>6, <1>7, <1>8, <1>9, Zenon DEF Next, Conclude

\* The behaviours in which no two threads use one handle at a time are
\* behaviours of the ledger, for every set of payments and pool threads: a
\* payment is booked once, only where it was charged, and dropped only if it
\* was charged, whatever is retried, handed over or lost on the way.
THEOREM ImplementsLedger == Exclusive => LedgerSpec
<1>1. Init => Ledger!Init
  <2> SUFFICES ASSUME Init PROVE Ledger!Init
    BY Zenon
  <2>1. \A p \in Payments : StatusOf(p) = "new"
    BY TypeInit, PlaceInit, StatusValue, Zenon DEF Init
  <2> QED
    BY <2>1 DEF Init, Ledger!Init
<1>2. Init => ~shared
  BY DEF Init
<1>3. IInv /\ [Next /\ ~shared']_vars => IInv'
  BY IInvStep
<1>4. ~shared /\ [Next /\ ~shared']_vars => ~shared'
  BY DEF vars
<1>5. IInv /\ IInv' /\ ~shared /\ [Next /\ ~shared']_vars => [Ledger!Next]_(Ledger!ledger)
  BY LedgerStep
<1> QED
  BY <1>1, <1>2, <1>3, <1>4, <1>5, IInvInit, PTL DEF Exclusive, LedgerSpec, Ledger!Spec
==============================================================================
