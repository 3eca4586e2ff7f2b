------------------------------- MODULE Dispatch -------------------------------
(***************************************************************************)
(* An instance with several workers: how payments get from the REST        *)
(* threads to the workers, how the workers share the fallback pool, and    *)
(* what a crash costs.                                                     *)
(*                                                                         *)
(* post_payment_handler deals payments out by a static counter that is     *)
(* incremented without synchronisation.  Every worker has a queue of its   *)
(* own, but fallback_is_running and last_fallback belong to all of them:   *)
(* a worker tests the flag in one step and sets it in another.  Queues     *)
(* are FIFO (see WorkerQueue), a call of process is one step with any      *)
(* outcome (see PaymentService).                                           *)
(***************************************************************************)
EXTENDS Integers, Sequences, FiniteSets

CONSTANTS
  RestThreads,   \* threads that run post_payment_handler
  WorkerCount,   \* WORKER_COUNT
  Pools,         \* bound: detached threads that exist at a time
  MaxPayments,   \* bound: payments that are posted
  MaxCrashes,    \* bound: crashes in a behaviour
  MaxOverlaps    \* bound: overlaps are counted up to this number

Workers == 0..(WorkerCount - 1)
Threads == Workers \cup Pools

\* Payments are numbered in the order in which their handlers start.
Payments == 1..MaxPayments
None == 0

ASSUME DispatchAssumption ==
  /\ WorkerCount \in Nat \ {0}
  /\ IsFiniteSet(Pools) /\ Pools \cap Workers = {}
  /\ MaxPayments \in Nat
  /\ MaxCrashes \in Nat /\ MaxOverlaps \in Nat \ {0}

VARIABLES
  up,                  \* the process runs
  queue_index,         \* post_payment_handler's static counter
  step,                \* per REST thread: its next step
  body,                \* per REST thread: the payment it holds
  pos,                 \* per REST thread: the value it loaded
  queue,               \* per worker: payments to be fetched
  pc,                  \* per worker and pool thread: its next step
  cur,                 \* per worker and pool thread: the payment it holds
  home,                \* per pool thread: the worker_id it was started with
  saw_due,             \* per worker: elapsed >= fallback_interval_ms
  fallback_is_running,
  due,                 \* fallback_interval_ms has elapsed since last_fallback
  acked,               \* payments answered 202
  posted,              \* number of payments that have been posted
  settled,             \* payments stored or discarded
  vanished,            \* history: payments that were in memory at a crash
  given,               \* history: per worker, payments dealt to it
  clashed,             \* history: two increments of queue_index overlapped
  overlaps,            \* history: tests of the flag between a test and its
                       \* set, since the pool was last empty
  crashes              \* number of crashes

rest    == <<queue_index, step, body, pos>>
flags   == <<fallback_is_running, due, saw_due>>
threads == <<pc, cur, home>>
ledger  == <<acked, posted, settled, vanished>>
history == <<given, clashed, overlaps, crashes>>
vars    == <<up, rest, queue, flags, threads, ledger, history>>

\* Workers that have found the flag clear and not set it yet.
Claiming == {w \in Workers : pc[w] = "claim"}

\* Pool threads inside process, before they clear the flag.
Active == {c \in Pools : pc[c] \in {"process", "release"}}
------------------------------------------------------------------------------
(* post_payment_handler: `queue_index++ % queue_size`, enqueue, 202.        *)

Load(r) ==
  /\ up /\ step[r] = "idle" /\ posted < MaxPayments
  /\ posted' = posted + 1
  /\ body' = [body EXCEPT ![r] = posted + 1]
  /\ pos' = [pos EXCEPT ![r] = queue_index]
  /\ step' = [step EXCEPT ![r] = "store"]
  /\ given' = [given EXCEPT ![queue_index % WorkerCount] = @ + 1]
  /\ clashed' = (clashed \/ \E s \in RestThreads : step[s] = "store")
  /\ UNCHANGED <<up, queue_index, queue, flags, threads, acked, settled,
                 vanished, overlaps, crashes>>

\* Mutated form: the counter is not incremented.
StoreSame(r) ==
  /\ step[r] = "store"
  /\ queue_index' = pos[r]
  /\ step' = [step EXCEPT ![r] = "enqueue"]
  /\ UNCHANGED <<up, body, pos, queue, flags, threads, ledger, history>>

Store(r) ==
  /\ step[r] = "store"
  /\ queue_index' = pos[r] + 1
  /\ step' = [step EXCEPT ![r] = "enqueue"]
  /\ UNCHANGED <<up, body, pos, queue, flags, threads, ledger, history>>

Enqueue(r) ==
  LET idx == pos[r] % WorkerCount IN
  /\ step[r] = "enqueue"
  /\ queue' = [queue EXCEPT ![idx] = Append(@, body[r])]
  /\ acked' = acked \cup {body[r]}
  /\ step' = [step EXCEPT ![r] = "idle"]
  /\ body' = [body EXCEPT ![r] = None]
  /\ pos' = [pos EXCEPT ![r] = 0]
  /\ UNCHANGED <<up, queue_index, flags, threads, posted, settled, vanished, history>>
------------------------------------------------------------------------------
(* worker_loop                                                              *)

\* fetch_next, then elapsed is computed from last_fallback.
Fetch(w) ==
  /\ pc[w] = "idle" /\ queue[w] # <<>>
  /\ cur' = [cur EXCEPT ![w] = Head(queue[w])]
  /\ queue' = [queue EXCEPT ![w] = Tail(@)]
  /\ saw_due' = [saw_due EXCEPT ![w] = due]
  /\ pc' = [pc EXCEPT ![w] = "test"]
  /\ UNCHANGED <<up, rest, fallback_is_running, due, home, ledger, history>>

\* `!fallback_is_running && elapsed >= fallback_interval_ms`
Test(w) ==
  LET free == ~fallback_is_running /\ saw_due[w] IN
  /\ pc[w] = "test"
  /\ pc' = [pc EXCEPT ![w] = IF free THEN "claim" ELSE "process"]
  /\ saw_due' = [saw_due EXCEPT ![w] = FALSE]
  /\ overlaps' = IF free /\ Claiming # {} /\ overlaps < MaxOverlaps
                   THEN overlaps + 1 ELSE overlaps
  /\ UNCHANGED <<up, rest, queue, fallback_is_running, due, cur, home, ledger,
                 given, clashed, crashes>>

\* Mutated form: the flag is not set.
ClaimUnmarked(w, c) ==
  /\ pc[w] = "claim" /\ pc[c] = "idle"
  /\ UNCHANGED fallback_is_running
  /\ pc' = [pc EXCEPT ![w] = "idle", ![c] = "process"]
  /\ cur' = [cur EXCEPT ![w] = None, ![c] = cur[w]]
  /\ home' = [home EXCEPT ![c] = w]
  /\ UNCHANGED <<up, rest, queue, due, saw_due, ledger, history>>

\* Mutated form: the worker goes on with the payment too.
ClaimKeeps(w, c) ==
  /\ pc[w] = "claim" /\ pc[c] = "idle"
  /\ fallback_is_running' = TRUE
  /\ pc' = [pc EXCEPT ![w] = "process", ![c] = "process"]
  /\ cur' = [cur EXCEPT ![c] = cur[w]]
  /\ home' = [home EXCEPT ![c] = w]
  /\ UNCHANGED <<up, rest, queue, due, saw_due, ledger, history>>

\* `fallback_is_running = true;`, then a detached thread gets the payment.
Claim(w, c) ==
  /\ pc[w] = "claim" /\ pc[c] = "idle"
  /\ fallback_is_running' = TRUE
  /\ pc' = [pc EXCEPT ![w] = "idle", ![c] = "process"]
  /\ cur' = [cur EXCEPT ![w] = None, ![c] = cur[w]]
  /\ home' = [home EXCEPT ![c] = w]
  /\ UNCHANGED <<up, rest, queue, due, saw_due, ledger, history>>
------------------------------------------------------------------------------
(* process                                                                  *)

Worker(t) == IF t \in Pools THEN home[t] ELSE t
After(t)  == IF t \in Pools THEN "release" ELSE "idle"

\* The payment is stored or discarded.
Settle(t) ==
  /\ pc[t] = "process"
  /\ settled' = settled \cup {cur[t]}
  /\ cur' = [cur EXCEPT ![t] = None]
  /\ pc' = [pc EXCEPT ![t] = After(t)]
  /\ UNCHANGED <<up, rest, queue, flags, home, acked, posted, vanished, history>>

\* Mutated form: the payment is not enqueued again.
TryAgainForgets(t) ==
  /\ pc[t] = "process"
  /\ UNCHANGED queue
  /\ cur' = [cur EXCEPT ![t] = None]
  /\ pc' = [pc EXCEPT ![t] = After(t)]
  /\ UNCHANGED <<up, rest, flags, home, ledger, history>>

\* ProcessorResult::TryAgain: back to the queue of the same worker.
TryAgain(t) ==
  /\ pc[t] = "process"
  /\ queue' = [queue EXCEPT ![Worker(t)] = Append(@, cur[t])]
  /\ cur' = [cur EXCEPT ![t] = None]
  /\ pc' = [pc EXCEPT ![t] = After(t)]
  /\ UNCHANGED <<up, rest, flags, home, ledger, history>>

\* Mutated form: the flag stays set.
ReleaseKeeps(c) ==
  /\ pc[c] = "release"
  /\ UNCHANGED fallback_is_running
  /\ pc' = [pc EXCEPT ![c] = "stamp"]
  /\ overlaps' = IF Claiming = {} /\ Active = {c} THEN 0 ELSE overlaps
  /\ UNCHANGED <<up, rest, queue, due, saw_due, cur, home, ledger, given,
                 clashed, crashes>>

\* The end of a pool thread: it clears the flag, whoever has set it since,
\* and then sets last_fallback.
Release(c) ==
  /\ pc[c] = "release"
  /\ fallback_is_running' = FALSE
  /\ pc' = [pc EXCEPT ![c] = "stamp"]
  /\ overlaps' = IF Claiming = {} /\ Active = {c} THEN 0 ELSE overlaps
  /\ UNCHANGED <<up, rest, queue, due, saw_due, cur, home, ledger, given,
                 clashed, crashes>>

Stamp(c) ==
  /\ pc[c] = "stamp"
  /\ due' = FALSE
  /\ pc' = [pc EXCEPT ![c] = "idle"]
  /\ home' = [home EXCEPT ![c] = 0]
  /\ UNCHANGED <<up, rest, queue, fallback_is_running, saw_due, cur, ledger, history>>

IntervalElapses ==
  /\ up /\ ~due
  /\ due' = TRUE
  /\ UNCHANGED <<up, rest, queue, fallback_is_running, saw_due, threads, ledger, history>>
------------------------------------------------------------------------------
(* A crash takes everything that is in memory; a new process starts afresh.  *)

Fresh ==
  /\ queue_index' = 0
  /\ step' = [r \in RestThreads |-> "idle"]
  /\ body' = [r \in RestThreads |-> None]
  /\ pos' = [r \in RestThreads |-> 0]
  /\ queue' = [w \in Workers |-> <<>>]
  /\ pc' = [t \in Threads |-> "idle"]
  /\ cur' = [t \in Threads |-> None]
  /\ home' = [c \in Pools |-> 0]
  /\ saw_due' = [w \in Workers |-> FALSE]
  /\ fallback_is_running' = FALSE
  /\ due' = FALSE
  /\ given' = [w \in Workers |-> 0]
  /\ clashed' = FALSE
  /\ overlaps' = 0

Crash ==
  /\ up /\ crashes < MaxCrashes
  /\ up' = FALSE
  /\ crashes' = crashes + 1
  /\ vanished' = vanished \cup ((1..posted) \ settled)
  /\ Fresh
  /\ UNCHANGED <<acked, posted, settled>>

Restart ==
  /\ ~up
  /\ up' = TRUE
  /\ UNCHANGED <<rest, queue, flags, threads, ledger, history>>

Init ==
  /\ up = TRUE
  /\ queue_index = 0
  /\ step = [r \in RestThreads |-> "idle"]
  /\ body = [r \in RestThreads |-> None]
  /\ pos = [r \in RestThreads |-> 0]
  /\ queue = [w \in Workers |-> <<>>]
  /\ pc = [t \in Threads |-> "idle"]
  /\ cur = [t \in Threads |-> None]
  /\ home = [c \in Pools |-> 0]
  /\ saw_due = [w \in Workers |-> FALSE]
  /\ fallback_is_running = FALSE
  /\ due = FALSE
  /\ posted = 0 /\ acked = {} /\ settled = {} /\ vanished = {}
  /\ given = [w \in Workers |-> 0]
  /\ clashed = FALSE
  /\ overlaps = 0
  /\ crashes = 0

RestStep(r)   == Load(r) \/ Store(r) \/ Enqueue(r)
WorkerStep(w) == \/ Fetch(w) \/ Test(w) \/ Settle(w) \/ TryAgain(w)
                 \/ \E c \in Pools : Claim(w, c)
PoolStep(c)   == Settle(c) \/ TryAgain(c) \/ Release(c) \/ Stamp(c)

Next ==
  \/ \E r \in RestThreads : RestStep(r)
  \/ \E w \in Workers : WorkerStep(w)
  \/ \E c \in Pools : PoolStep(c)
  \/ IntervalElapses \/ Crash \/ Restart

Spec == Init /\ [][Next]_vars

\* Threads go on, and a payment that is processed again and again is settled
\* at last (PaymentService's EveryPaymentSettled).
FairSpec ==
  /\ Spec
  /\ \A r \in RestThreads : WF_vars(Store(r) \/ Enqueue(r))
  /\ \A w \in Workers : WF_vars(WorkerStep(w))
  /\ \A c \in Pools : WF_vars(PoolStep(c))
  /\ \A p \in Payments : SF_vars(\E t \in Threads : cur[t] = p /\ Settle(t))
------------------------------------------------------------------------------
\* Every variable has its type.
TypeOK ==
  /\ up \in BOOLEAN
  /\ queue_index \in Nat
  /\ step \in [RestThreads -> {"idle", "store", "enqueue"}]
  /\ body \in [RestThreads -> Payments \cup {None}]
  /\ pos \in [RestThreads -> Nat]
  /\ queue \in [Workers -> Seq(Payments)]
  /\ pc \in [Threads -> {"idle", "test", "claim", "process", "release", "stamp"}]
  /\ cur \in [Threads -> Payments \cup {None}]
  /\ home \in [Pools -> Workers]
  /\ saw_due \in [Workers -> BOOLEAN]
  /\ fallback_is_running \in BOOLEAN /\ due \in BOOLEAN
  /\ posted \in 0..MaxPayments /\ acked \subseteq Payments
  /\ settled \subseteq Payments /\ vanished \subseteq Payments
  /\ given \in [Workers -> Nat]
  /\ clashed \in BOOLEAN
  /\ overlaps \in 0..MaxOverlaps
  /\ crashes \in 0..MaxCrashes

\* Payments are dealt out evenly: unless two increments of queue_index
\* overlapped, no worker has been given two payments more than another.
Balanced ==
  ~clashed => \A v, w \in Workers : given[v] <= given[w] + 1

\* The flag keeps the pool to one thread, plus one for every time a worker
\* tested it while another one was between its test and its set.  Threads that
\* clear the flag for each other do not let the number grow any further, and
\* once the pool has been empty the count starts again.
PoolBounded ==
  overlaps < MaxOverlaps => Cardinality(Active) <= overlaps + 1

\* The places in memory a payment can be in.
Places(p) ==
  {<<"rest", r>> : r \in {s \in RestThreads : body[s] = p}}
    \cup {<<"held", t>> : t \in {u \in Threads : cur[u] = p}}
    \cup (UNION {{<<"queued", w, i>> : i \in {j \in DOMAIN queue[w] : queue[w][j] = p}}
                 : w \in Workers})
    \cup {<<"settled", x>> : x \in {p} \cap settled}
    \cup {<<"vanished", x>> : x \in {p} \cap vanished}

\* A payment that was acknowledged is in one place: in memory once, whatever
\* the workers and the pool hand to each other, or settled; and it is gone
\* only if a crash found it in memory.
AckedIsSomewhere ==
  \A p \in 1..posted : Cardinality(Places(p)) = 1

\* Every payment that was answered 202 is settled, unless the process crashed
\* with it: again and again, nothing acknowledged is left in memory.
EveryAckedSettled == []<>(acked \subseteq settled \cup vanished)

\* The flag is not left set: the fallback pool can always run again.
FlagIsCleared == []<>~fallback_is_running
==============================================================================
