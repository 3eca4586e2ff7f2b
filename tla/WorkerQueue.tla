----------------------------- MODULE WorkerQueue -----------------------------
(***************************************************************************)
(* One worker queue of PaymentService (struct WorkerQueue) and the threads *)
(* that use it:                                                            *)
(*   - the REST threads, which enqueue the body of every POST /payments;   *)
(*   - the worker thread that owns the queue: it fetches, processes, and   *)
(*     enqueues again what has to be tried again;                          *)
(*   - the detached fallback-pool threads of that worker, which are handed *)
(*     a fetched payment and may enqueue it again.                         *)
(*                                                                         *)
(* head, tail and the slots are plain, unsynchronised memory.  An enqueue  *)
(* is therefore three steps (read tail, store tail + 1, store the slot),   *)
(* and as its two stores are plain and independent the build may order     *)
(* them either way.  A slot is a 78-byte copy: a copy that overlaps a      *)
(* store to the same slot returns the old value, the new one, or a mix.    *)
(*                                                                         *)
(* What the processors answer decides whether a payment is finished or     *)
(* tried again; that choice is left open here.                             *)
(***************************************************************************)
EXTENDS Integers, Sequences, FiniteSets

CONSTANTS
  RestThreads,   \* threads of the HTTP server (CONCURRENCY)
  Pools,         \* detached fallback-pool threads of this worker
  Worker,        \* the thread that runs worker_loop on this queue
  Payments,      \* the payments clients post, one POST each
  Capacity,      \* QUEUE_CAPACITY, the number of slots
  MaxPushes,     \* bound: calls of enqueue in a behaviour
  Empty,         \* the RawPayment a slot is created with (size 0)
  Torn,          \* a mix of two RawPayments, from overlapping copies
  None           \* no payment in a thread's hands

Consumers == Pools \cup {Worker}
Threads   == RestThreads \cup Consumers
Raw       == Payments \cup {Empty, Torn}

ASSUME QueueAssumption ==
  /\ Capacity \in Nat \ {0}
  /\ MaxPushes \in Nat
  /\ Worker \notin RestThreads \cup Pools
  /\ RestThreads \cap Pools = {}
  /\ Empty # Torn
  /\ {Empty, Torn, None} \cap Payments = {}
  /\ None \notin {Empty, Torn}

VARIABLES
  head,      \* WorkerQueue::head, written by the worker only
  tail,      \* WorkerQueue::tail, written by every thread that enqueues
  slots,     \* WorkerQueue::queue
  pending,   \* per thread: the stores its enqueue still has to perform
  pos,       \* per thread: enqueue's local pos, the value it read from tail
  val,       \* per thread: the RawPayment its enqueue was given
  copying,   \* the worker has advanced head and not yet copied the slot out
  cur,       \* per consumer: the payment it is processing
  pushed,    \* history: the argument of every enqueue, in order of claim
  popped,    \* history: every RawPayment fetch_next returned, in order
  done,      \* history: what was processed to its end (stored or discarded)
  hazard     \* history: the unsynchronised accesses that have happened

memory  == <<head, tail, slots>>
locals  == <<pending, pos, val, copying, cur>>
history == <<pushed, popped, done, hazard>>
vars    == <<memory, locals, history>>

Hazards == {"overlap", "early", "overrun"}

\* `pos % q.queue.size()`
SlotOf(p) == p % Capacity

\* The position of the oldest slot the worker has not copied out yet.
ReadPos == IF copying THEN head - 1 ELSE head

Idle(t) == /\ pending[t] = {}
           /\ t \in Consumers => cur[t] = None
           /\ t = Worker => ~copying

\* The threads whose enqueue has still to store slot i.
Storing(i) == {t \in Threads : "slot" \in pending[t] /\ SlotOf(pos[t]) = i}
------------------------------------------------------------------------------
(* Mutated forms of the definitions below: plausible bugs of this code.     *)

StoreTailDropped(t) ==
  /\ "tail" \in pending[t]
  /\ pending' = [pending EXCEPT ![t] = @ \ {"tail"}]
  /\ UNCHANGED <<memory, pos, val, copying, cur, history>>

StoreSlotNext(t) ==
  /\ "slot" \in pending[t]
  /\ slots' = [slots EXCEPT ![SlotOf(pos[t] + 1)] = val[t]]
  /\ pending' = [pending EXCEPT ![t] = @ \ {"slot"}]
  /\ UNCHANGED <<head, tail, pos, val, copying, cur, history>>

FetchNextTooEager ==
  /\ Idle(Worker)
  /\ head <= tail
  /\ head' = head + 1
  /\ copying' = TRUE
  /\ UNCHANGED <<tail, slots, pending, pos, val, cur, history>>

FetchNextLeavesOne ==
  /\ Idle(Worker)
  /\ head + 1 < tail
  /\ head' = head + 1
  /\ copying' = TRUE
  /\ UNCHANGED <<tail, slots, pending, pos, val, cur, history>>

HandOffKeeps(c) ==
  /\ cur[Worker] # None
  /\ Idle(c)
  /\ cur' = [cur EXCEPT ![c] = cur[Worker]]
  /\ UNCHANGED <<memory, pending, pos, val, copying, history>>

------------------------------------------------------------------------------
(* enqueue(queue_idx, r): `const size_t pos = q.tail++;` then               *)
(* `q.queue[pos % q.queue.size()] = r;`.  Nothing compares tail with head.  *)

EnqueueClaim(t, v) ==
  /\ Len(pushed) < MaxPushes
  /\ pos' = [pos EXCEPT ![t] = tail]
  /\ val' = [val EXCEPT ![t] = v]
  /\ pending' = [pending EXCEPT ![t] = {"tail", "slot"}]
  /\ pushed' = Append(pushed, v)
  /\ hazard' = hazard
       \cup {h \in {"overlap"} : \E u \in Threads : "tail" \in pending[u]}
       \cup {h \in {"overrun"} : tail - ReadPos >= Capacity}

StoreTail(t) ==
  /\ "tail" \in pending[t]
  /\ tail' = pos[t] + 1
  /\ pending' = [pending EXCEPT ![t] = @ \ {"tail"}]
  /\ UNCHANGED <<head, slots, pos, val, copying, cur, history>>

StoreSlot(t) ==
  /\ "slot" \in pending[t]
  /\ \E v \in {val[t]} \cup {x \in {Torn} : Storing(SlotOf(pos[t])) # {t}} :
       slots' = [slots EXCEPT ![SlotOf(pos[t])] = v]
  /\ pending' = [pending EXCEPT ![t] = @ \ {"slot"}]
  /\ UNCHANGED <<head, tail, pos, val, copying, cur, history>>
------------------------------------------------------------------------------
(* post_payment_handler, its fetch callback: one enqueue, then 202.         *)

Post(t, p) ==
  /\ Idle(t)
  /\ p \notin {pushed[i] : i \in DOMAIN pushed}
  /\ EnqueueClaim(t, p)
  /\ UNCHANGED <<memory, copying, cur, popped, done>>
------------------------------------------------------------------------------
(* fetch_next: when `q.head >= q.tail` it returns false and nothing         *)
(* changes; otherwise it advances head and then copies the slot out.        *)

FetchNext ==
  /\ Idle(Worker)
  /\ head < tail
  /\ head' = head + 1
  /\ copying' = TRUE
  /\ UNCHANGED <<tail, slots, pending, pos, val, cur, history>>

CopySlot ==
  LET i == SlotOf(head - 1) IN
  /\ copying
  /\ \E r \in {slots[i]} \cup {val[t] : t \in Storing(i)}
                         \cup {x \in {Torn} : Storing(i) # {}} :
       /\ cur' = [cur EXCEPT ![Worker] = r]
       /\ popped' = Append(popped, r)
  /\ copying' = FALSE
  /\ hazard' = hazard \cup {h \in {"early"} : Storing(i) # {}}
  /\ UNCHANGED <<memory, pending, pos, val, pushed, done>>
------------------------------------------------------------------------------
(* worker_loop and process, as far as the queue sees them.                  *)

\* worker_loop: start a fallback-pool thread with the payment and go on.
HandOff(c) ==
  /\ cur[Worker] # None
  /\ Idle(c)
  /\ cur' = [cur EXCEPT ![c] = cur[Worker], ![Worker] = None]
  /\ UNCHANGED <<memory, pending, pos, val, copying, history>>

\* process: the payment was stored (store_processed) or discarded.
Finish(c) ==
  /\ cur[c] # None
  /\ done' = done \cup {cur[c]}
  /\ cur' = [cur EXCEPT ![c] = None]
  /\ UNCHANGED <<memory, pending, pos, val, copying, pushed, popped, hazard>>

\* process: ProcessorResult::TryAgain, the payment is enqueued again.
TryAgain(c) ==
  /\ cur[c] # None
  /\ EnqueueClaim(c, cur[c])
  /\ cur' = [cur EXCEPT ![c] = None]
  /\ UNCHANGED <<memory, copying, popped, done>>
------------------------------------------------------------------------------
Init ==
  /\ head = 0
  /\ tail = 0
  /\ slots = [i \in 0..Capacity-1 |-> Empty]
  /\ pending = [t \in Threads |-> {}]
  /\ pos = [t \in Threads |-> 0]
  /\ val = [t \in Threads |-> Empty]
  /\ copying = FALSE
  /\ cur = [c \in Consumers |-> None]
  /\ pushed = <<>>
  /\ popped = <<>>
  /\ done = {}
  /\ hazard = {}

Next ==
  \/ \E t \in RestThreads, p \in Payments : Post(t, p)
  \/ \E t \in Threads : StoreTail(t)
  \/ \E t \in Threads : StoreSlot(t)
  \/ FetchNext
  \/ CopySlot
  \/ \E c \in Pools : HandOff(c)
  \/ \E c \in Consumers : Finish(c)
  \/ \E c \in Consumers : TryAgain(c)

Spec == Init /\ [][Next]_vars

\* The operating system runs every thread that can take a step, and a call
\* to a processor returns; clients are free not to post anything.
Fairness ==
  /\ \A t \in Threads : WF_vars(StoreTail(t)) /\ WF_vars(StoreSlot(t))
  /\ WF_vars(FetchNext)
  /\ WF_vars(CopySlot)
  /\ \A c \in Consumers : WF_vars(Finish(c) \/ TryAgain(c))

FairSpec == Spec /\ Fairness
------------------------------------------------------------------------------
\* Every variable has its type; in particular no access leaves the ring, and
\* the worker copies a slot out only after it advanced head past it.
TypeOK ==
  /\ head \in Nat
  /\ tail \in Nat
  /\ slots \in [0..Capacity-1 -> Raw]
  /\ pending \in [Threads -> SUBSET {"tail", "slot"}]
  /\ pos \in [Threads -> Nat]
  /\ val \in [Threads -> Raw]
  /\ copying \in BOOLEAN
  /\ copying => head > 0
  /\ cur \in [Consumers -> Raw \cup {None}]
  /\ pushed \in Seq(Raw)
  /\ popped \in Seq(Raw)
  /\ done \subseteq Raw
  /\ hazard \subseteq Hazards

\* Whatever the threads do to each other, the worker never fetches more
\* often than something was enqueued: `head >= tail` keeps head behind the
\* number of calls of enqueue even when increments of tail are lost.
NeverFetchesMoreThanPushed ==
  /\ head <= Len(pushed)
  /\ tail <= Len(pushed)
  /\ Len(popped) = ReadPos

\* As long as no enqueue reads tail while another has still to store it, no
\* position is lost or used twice: head never passes tail, and tail counts
\* every enqueue but the one whose store is outstanding.
NoPositionLost ==
  "overlap" \notin hazard =>
    /\ head <= tail
    /\ (\A t \in Threads : "tail" \notin pending[t]) => tail = Len(pushed)

\* As long as no unsynchronised access of the three kinds has happened, what
\* fetch_next returned is what enqueue was given, in the same order: nothing
\* is lost, repeated, invented or mixed.
FifoUntilHazard ==
  hazard = {} => popped = SubSeq(pushed, 1, ReadPos)

\* The places a payment can be in: a position not copied out yet, the hands
\* of the worker or of a pool thread, or processed to its end.
Places(p) ==
  {<<"queue", i>> : i \in {j \in ReadPos+1..Len(pushed) : pushed[j] = p}}
    \cup {<<"held", c>> : c \in {d \in Consumers : cur[d] = p}}
    \cup {<<"done", x>> : x \in {p} \cap done}

\* As long as no unsynchronised access has happened, a posted payment is in
\* exactly one place: the retries and the hand-over to the fallback pool
\* neither drop it nor process it in two threads.
ExactlyOnePlace ==
  hazard = {} =>
    \A p \in {pushed[i] : i \in DOMAIN pushed} : Cardinality(Places(p)) = 1

\* Every enqueue is followed by the fetch of its position, unless two
\* enqueues overlapped: the worker drains its queue.
EveryPushIsFetched ==
  \A n \in 1..MaxPushes :
    (Len(pushed) >= n) ~> (head >= n \/ "overlap" \in hazard)
==============================================================================
