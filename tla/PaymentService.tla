---------------------------- MODULE PaymentService ----------------------------
(***************************************************************************)
(* The life of a payment in one worker of PaymentService: posted, fetched, *)
(* sent to one or two processors, then stored, discarded or enqueued       *)
(* again; by the worker thread and by the fallback-pool threads it starts. *)
(*                                                                         *)
(* The worker and its pool threads use the same curl handle for a          *)
(* processor (curl_handles is indexed by the worker's number), without a   *)
(* lock: setting the body, performing the request and asking for the       *)
(* response code are separate steps on shared state.                       *)
(*                                                                         *)
(* The queue is the FIFO that WorkerQueue shows it to be in the absence of *)
(* unsynchronised accesses.  Which processor is called first is Failover's *)
(* subject; here any two labels may be read.  Time is one bit: whether     *)
(* fallback_interval_ms has elapsed since last_fallback.                   *)
(***************************************************************************)
EXTENDS Integers, Sequences, FiniteSets

CONSTANTS
  Payments,  \* the payments clients post, one POST each
  Worker,    \* the thread that runs worker_loop
  Pools,     \* the detached threads it starts
  None       \* no payment, no thread; as a body: not a payment

ASSUME ServiceAssumption ==
  /\ Worker \notin Pools
  /\ None \notin Payments
  /\ None \notin Pools \cup {Worker}

Threads    == Pools \cup {Worker}
Processors == {"default", "fallback"}
Codes      == {0, 200, 422, 500}

VARIABLES
  queue,        \* WorkerQueue: payments to be fetched, oldest first
  posted,       \* the payments clients have posted
  fallback_enabled,
  fallback_is_running,
  due,          \* fallback_interval_ms has elapsed since last_fallback
  saw_due,      \* the worker's local: elapsed >= fallback_interval_ms
  pc,           \* per thread: its next step
  cur,          \* per thread: the payment it processes
  first,        \* per thread: primary_label_local
  second,       \* per thread: secondary_label_local
  leg,          \* per thread: 1 for the first call, 2 for the second
  sent,         \* per thread: the body of its request in flight
  res,          \* per thread: curl_easy_perform returned CURLE_OK
  payload,      \* per processor's handle: CURLOPT_POSTFIELDS
  busy,         \* per processor's handle: the thread inside perform
  info,         \* per processor's handle: CURLINFO_RESPONSE_CODE
  stored,       \* processed_default, processed_fallback: what they count
  discarded,    \* history: payments given up after a 422
  charged,      \* per processor: the payments it accepted (environment)
  lost,         \* history: payments accepted in a response that got lost
  shared        \* history: two threads have used one handle at a time

pool    == <<fallback_is_running, due, saw_due>>
calls   == <<first, second, leg, sent, res>>
handles == <<payload, busy, info>>
books   == <<stored, discarded>>
world   == <<charged, lost, posted, fallback_enabled>>
vars    == <<queue, pool, pc, cur, calls, handles, books, world, shared>>

Called(t)    == IF leg[t] = 1 THEN first[t] ELSE second[t]
Using(t, q)  == pc[t] \in {"perform", "wait", "info"} /\ Called(t) = q

\* process_payment reads the labels: any two, as trigger_switch may run in
\* another thread between the two reads.  With the fallback disabled nothing
\* ever switches the labels.
StartCalls(t) ==
  /\ \E a, b \in Processors :
       /\ fallback_enabled \/ (a = "default" /\ b = "fallback")
       /\ first' = [first EXCEPT ![t] = a]
       /\ second' = [second EXCEPT ![t] = b]
  /\ leg' = [leg EXCEPT ![t] = 1]
  /\ UNCHANGED <<sent, res>>

\* What a call leaves in a handle is not read again: the next call sets the
\* body, and perform resets the code.  It is cleared, to save states, unless
\* another thread is in the middle of using the handle.
LetGo(t) ==
  LET q == Called(t) IN
  /\ IF \E u \in Threads \ {t} : Using(u, q)
     THEN UNCHANGED <<payload, info>>
     ELSE /\ payload' = [payload EXCEPT ![q] = None]
          /\ info' = [info EXCEPT ![q] = 0]
  /\ res' = [res EXCEPT ![t] = FALSE]
  /\ UNCHANGED <<busy, sent>>

\* process is over for t; a pool thread still has its flags to reset.
Done(t) ==
  /\ cur' = [cur EXCEPT ![t] = None]
  /\ pc' = [pc EXCEPT ![t] = IF t \in Pools THEN "release" ELSE "idle"]
  /\ first' = [first EXCEPT ![t] = "default"]
  /\ second' = [second EXCEPT ![t] = "default"]
  /\ leg' = [leg EXCEPT ![t] = 1]
  /\ LetGo(t)
------------------------------------------------------------------------------
(* Mutated forms of the definitions below: plausible bugs of this code.     *)

TryAgainKeeps(t) ==
  /\ pc[t] = "info" /\ leg[t] = 2
  /\ ~(res[t] /\ info[Called(t)] = 200)
  /\ queue' = Append(queue, cur[t])
  /\ pc' = [pc EXCEPT ![t] = IF t \in Pools THEN "release" ELSE "idle"]
  /\ UNCHANGED <<pool, cur, calls, handles, books, world, shared>>

StoreUnderFirst(t) ==
  /\ pc[t] = "info" /\ res[t] /\ info[Called(t)] = 200
  /\ stored' = [stored EXCEPT ![first[t]] = @ \cup {cur[t]}]
  /\ Done(t)
  /\ UNCHANGED <<queue, pool, discarded, world, shared>>

StoreUnlessSecond(t) ==
  /\ pc[t] = "info" /\ leg[t] = 1 /\ res[t] /\ info[Called(t)] = 200
  /\ stored' = [stored EXCEPT ![Called(t)] = @ \cup {cur[t]}]
  /\ Done(t)
  /\ UNCHANGED <<queue, pool, discarded, world, shared>>

DiscardOnError(t) ==
  /\ pc[t] = "info" /\ leg[t] = 1 /\ info[Called(t)] \in {422, 500}
  /\ discarded' = discarded \cup {cur[t]}
  /\ Done(t)
  /\ UNCHANGED <<queue, pool, stored, world, shared>>

SecondCallEvenIfOk(t) ==
  /\ pc[t] = "info" /\ leg[t] = 1
  /\ info[Called(t)] # 422
  /\ leg' = [leg EXCEPT ![t] = 2]
  /\ pc' = [pc EXCEPT ![t] = "payload"]
  /\ UNCHANGED <<queue, pool, cur, first, second, sent, res,
                 handles, books, world, shared>>

HandOffUnflagged(c) ==
  /\ pc[Worker] = "choose" /\ saw_due /\ ~fallback_is_running
  /\ pc[c] = "idle"
  /\ cur' = [cur EXCEPT ![c] = cur[Worker], ![Worker] = None]
  /\ pc' = [pc EXCEPT ![c] = "payload", ![Worker] = "idle"]
  /\ StartCalls(c)
  /\ UNCHANGED <<queue, pool, handles, books, world, shared>>
------------------------------------------------------------------------------
(* post_payment_handler: enqueue, then 202.                                 *)

Post(p) ==
  /\ p \notin posted
  /\ posted' = posted \cup {p}
  /\ queue' = Append(queue, p)
  /\ UNCHANGED <<pool, pc, cur, calls, handles, books, charged, lost,
                 fallback_enabled, shared>>
------------------------------------------------------------------------------
(* worker_loop                                                              *)

\* fetch_next, then `elapsed` is computed from last_fallback.
Fetch ==
  /\ pc[Worker] = "idle" /\ queue # <<>>
  /\ cur' = [cur EXCEPT ![Worker] = Head(queue)]
  /\ queue' = Tail(queue)
  /\ saw_due' = due
  /\ pc' = [pc EXCEPT ![Worker] = "choose"]
  /\ UNCHANGED <<fallback_is_running, due, calls, handles, books, world, shared>>

\* `!fallback_is_running && elapsed >= fallback_interval_ms`, if the fallback
\* is enabled: start a pool thread with the payment, continue with the next.
HandOff(c) ==
  /\ pc[Worker] = "choose" /\ fallback_enabled /\ saw_due /\ ~fallback_is_running
  /\ pc[c] = "idle"
  /\ fallback_is_running' = TRUE
  /\ cur' = [cur EXCEPT ![c] = cur[Worker], ![Worker] = None]
  /\ pc' = [pc EXCEPT ![c] = "payload", ![Worker] = "idle"]
  /\ StartCalls(c)
  /\ saw_due' = FALSE
  /\ UNCHANGED <<queue, due, handles, books, world, shared>>

\* Otherwise the worker processes the payment itself.
ProcessHere ==
  /\ pc[Worker] = "choose"
  /\ fallback_enabled /\ saw_due => fallback_is_running
  /\ pc' = [pc EXCEPT ![Worker] = "payload"]
  /\ StartCalls(Worker)
  /\ saw_due' = FALSE
  /\ UNCHANGED <<queue, fallback_is_running, due, cur, handles, books, world, shared>>
------------------------------------------------------------------------------
(* send_to_processor, on the handle that the worker and its pool share.     *)

SetPayload(t) ==
  /\ pc[t] = "payload"
  /\ payload' = [payload EXCEPT ![Called(t)] = cur[t]]
  /\ shared' = (shared \/ \E u \in Threads : Using(u, Called(t)))
  /\ pc' = [pc EXCEPT ![t] = "perform"]
  /\ UNCHANGED <<queue, pool, cur, calls, busy, info, books, world>>

\* curl_easy_perform takes the body the handle points to.  If another thread
\* replaced it and has finished since, the pointer dangles and the body may
\* be anything.
Perform(t) ==
  LET q == Called(t) IN
  /\ pc[t] = "perform" /\ busy[q] = None
  /\ \E b \in {payload[q]}
              \cup {x \in {None} : \A u \in Threads : cur[u] # payload[q]} :
       sent' = [sent EXCEPT ![t] = b]
  /\ busy' = [busy EXCEPT ![q] = t]
  /\ info' = [info EXCEPT ![q] = 0]
  /\ pc' = [pc EXCEPT ![t] = "wait"]
  /\ UNCHANGED <<queue, pool, cur, first, second, leg, res,
                 payload, books, world, shared>>

\* curl refuses to perform a handle that is being performed.
PerformRefused(t) ==
  /\ pc[t] = "perform" /\ busy[Called(t)] # None
  /\ res' = [res EXCEPT ![t] = FALSE]
  /\ pc' = [pc EXCEPT ![t] = "info"]
  /\ UNCHANGED <<queue, pool, cur, first, second, leg, sent,
                 handles, books, world, shared>>

\* The transfer of t ends with code c, or with none (c = 0).
Answered(t, c) ==
  /\ pc[t] = "wait"
  /\ busy' = [busy EXCEPT ![Called(t)] = None]
  /\ info' = [info EXCEPT ![Called(t)] = c]
  /\ res' = [res EXCEPT ![t] = (c # 0)]
  /\ sent' = [sent EXCEPT ![t] = None]
  /\ pc' = [pc EXCEPT ![t] = "info"]
  /\ UNCHANGED <<queue, pool, cur, first, second, leg,
                 payload, books, posted, fallback_enabled, shared>>

\* The processor accepts a payment it does not have yet ...
Accept(t) ==
  /\ sent[t] # None /\ sent[t] \notin charged[Called(t)]
  /\ Answered(t, 200)
  /\ charged' = [charged EXCEPT ![Called(t)] = @ \cup {sent[t]}]
  /\ UNCHANGED lost

\* ... answers 422 to one it has ...
Duplicate(t) ==
  /\ sent[t] # None /\ sent[t] \in charged[Called(t)]
  /\ Answered(t, 422)
  /\ UNCHANGED <<charged, lost>>

\* ... or takes nothing: an error, or no connection.
Refuse(t) ==
  /\ \E c \in {0, 500} : Answered(t, c)
  /\ UNCHANGED <<charged, lost>>

\* The processor accepts the payment and the connection breaks before the
\* response has arrived.
LoseResponse(t) ==
  /\ sent[t] # None /\ sent[t] \notin charged[Called(t)]
  /\ Answered(t, 0)
  /\ charged' = [charged EXCEPT ![Called(t)] = @ \cup {sent[t]}]
  /\ lost' = lost \cup {sent[t]}
------------------------------------------------------------------------------
(* process_payment and process, after curl_easy_getinfo has read the code   *)
(* from the handle.  ok is `res == CURLE_OK && code == 200`.                *)

Ok(t) == res[t] /\ info[Called(t)] = 200

\* store_processed under the processor that was called.
Store(t) ==
  /\ pc[t] = "info" /\ Ok(t)
  /\ stored' = [stored EXCEPT ![Called(t)] = @ \cup {cur[t]}]
  /\ Done(t)
  /\ UNCHANGED <<queue, pool, discarded, world, shared>>

\* ProcessorResult::Discard: the first call answered 422.
Discard(t) ==
  /\ pc[t] = "info" /\ ~Ok(t) /\ leg[t] = 1 /\ info[Called(t)] = 422
  /\ discarded' = discarded \cup {cur[t]}
  /\ Done(t)
  /\ UNCHANGED <<queue, pool, stored, world, shared>>

SecondCall(t) ==
  /\ pc[t] = "info" /\ ~Ok(t) /\ leg[t] = 1 /\ info[Called(t)] # 422
  /\ fallback_enabled
  /\ leg' = [leg EXCEPT ![t] = 2]
  /\ pc' = [pc EXCEPT ![t] = "payload"]
  /\ LetGo(t)
  /\ UNCHANGED <<queue, pool, cur, first, second, books, world, shared>>

\* ProcessorResult::TryAgain: the second call failed, or the first with the
\* fallback disabled.  The second call's own 422 is not looked at: the code
\* tests `code`, the first call's, which is not 422 here.
TryAgain(t) ==
  /\ pc[t] = "info" /\ ~Ok(t)
  /\ leg[t] = 2 \/ (~fallback_enabled /\ info[Called(t)] # 422)
  /\ queue' = Append(queue, cur[t])
  /\ Done(t)
  /\ UNCHANGED <<pool, books, world, shared>>

\* The end of a pool thread: `fallback_is_running = false;` and then
\* `last_fallback = get_now();`.
Release(c) ==
  /\ pc[c] = "release"
  /\ fallback_is_running' = FALSE
  /\ pc' = [pc EXCEPT ![c] = "stamp"]
  /\ UNCHANGED <<queue, due, saw_due, cur, calls, handles, books, world, shared>>

Stamp(c) ==
  /\ pc[c] = "stamp"
  /\ due' = FALSE
  /\ pc' = [pc EXCEPT ![c] = "idle"]
  /\ UNCHANGED <<queue, fallback_is_running, saw_due, cur, calls, handles,
                 books, world, shared>>

\* Time passes until fallback_interval_ms after last_fallback.
IntervalElapses ==
  /\ ~due
  /\ due' = TRUE
  /\ UNCHANGED <<queue, fallback_is_running, saw_due, pc, cur, calls, handles,
                 books, world, shared>>
------------------------------------------------------------------------------
Init ==
  /\ queue = <<>>
  /\ posted = {}
  /\ fallback_enabled \in BOOLEAN
  /\ fallback_is_running = FALSE
  /\ due = FALSE
  /\ saw_due = FALSE
  /\ pc = [t \in Threads |-> "idle"]
  /\ cur = [t \in Threads |-> None]
  /\ first = [t \in Threads |-> "default"]
  /\ second = [t \in Threads |-> "default"]
  /\ leg = [t \in Threads |-> 1]
  /\ sent = [t \in Threads |-> None]
  /\ res = [t \in Threads |-> FALSE]
  /\ payload = [q \in Processors |-> None]
  /\ busy = [q \in Processors |-> None]
  /\ info = [q \in Processors |-> 0]
  /\ stored = [q \in Processors |-> {}]
  /\ discarded = {}
  /\ charged = [q \in Processors |-> {}]
  /\ lost = {}
  /\ shared = FALSE

Conclude(t) == Store(t) \/ Discard(t) \/ SecondCall(t) \/ TryAgain(t)
Answer(t)   == Accept(t) \/ Duplicate(t) \/ Refuse(t) \/ LoseResponse(t)
Call(t)     == SetPayload(t) \/ Perform(t) \/ PerformRefused(t)

Next ==
  \/ \E p \in Payments : Post(p)
  \/ Fetch
  \/ ProcessHere
  \/ \E c \in Pools : HandOff(c) \/ Release(c) \/ Stamp(c)
  \/ \E t \in Threads : Call(t) \/ Answer(t) \/ Conclude(t)
  \/ IntervalElapses

Spec == Init /\ [][Next]_vars

\* The behaviours in which no two threads use one handle at a time.
Exclusive == Init /\ [][Next /\ ~shared']_vars

\* Every thread goes on, and a payment that is sent in a first call again and
\* again is answered 200 or 422 at last.  Answers to second calls are not
\* enough: after a 422 there the payment is tried again.
FairExclusive ==
  /\ Exclusive
  /\ WF_vars((Fetch \/ ProcessHere \/ \E c \in Pools : HandOff(c)) /\ ~shared')
  /\ \A t \in Threads : WF_vars((Call(t) \/ Answer(t) \/ Conclude(t)) /\ ~shared')
  /\ \A c \in Pools : WF_vars((Release(c) \/ Stamp(c)) /\ ~shared')
  /\ \A p \in Payments :
       SF_vars(\E t \in Threads : /\ leg[t] = 1 /\ sent[t] = p
                                 /\ (Accept(t) \/ Duplicate(t))
                                 /\ ~shared')
------------------------------------------------------------------------------
\* Every variable has its type; a payment is sent at most twice before it is
\* enqueued again.
TypeOK ==
  /\ queue \in Seq(Payments) /\ posted \subseteq Payments
  /\ fallback_enabled \in BOOLEAN
  /\ fallback_is_running \in BOOLEAN /\ due \in BOOLEAN /\ saw_due \in BOOLEAN
  /\ pc \in [Threads -> {"idle", "choose", "payload", "perform", "wait", "info",
                         "release", "stamp"}]
  /\ cur \in [Threads -> Payments \cup {None}]
  /\ first \in [Threads -> Processors] /\ second \in [Threads -> Processors]
  /\ leg \in [Threads -> {1, 2}]
  /\ sent \in [Threads -> Payments \cup {None}]
  /\ res \in [Threads -> BOOLEAN]
  /\ payload \in [Processors -> Payments \cup {None}]
  /\ busy \in [Processors -> Threads \cup {None}]
  /\ info \in [Processors -> Codes]
  /\ stored \in [Processors -> SUBSET Payments]
  /\ discarded \subseteq Payments
  /\ charged \in [Processors -> SUBSET Payments]
  /\ lost \subseteq Payments
  /\ shared \in BOOLEAN

\* The places a payment can be in.
Places(p) ==
  {<<"queued", i>> : i \in {j \in DOMAIN queue : queue[j] = p}}
    \cup {<<"held", t>> : t \in {u \in Threads : cur[u] = p}}
    \cup {<<"stored", q>> : q \in {r \in Processors : p \in stored[r]}}
    \cup {<<"discarded", x>> : x \in {p} \cap discarded}

\* Every posted payment is in exactly one place, whatever the threads do to
\* the handles: a retry, the hand-over to a pool thread or a mixed-up answer
\* never drops it, counts it twice or processes it in two threads.
OnePlace ==
  \A p \in Payments : Cardinality(Places(p)) = IF p \in posted THEN 1 ELSE 0

\* As long as no handle was shared: a payment is counted under a processor
\* only if that processor accepted it.
StoredWasCharged ==
  ~shared => \A q \in Processors : stored[q] \subseteq charged[q]

\* As long as no handle was shared: a payment is accepted by both processors,
\* or discarded, only if a response accepting it was lost.
OnlyLossDuplicates ==
  ~shared => (charged["default"] \cap charged["fallback"]) \cup discarded
               \subseteq lost

\* No work is left.
Quiet == queue = <<>> /\ \A t \in Threads : cur[t] = None

\* As long as no handle was shared and no response lost: when no work is left
\* the service has counted exactly what each processor accepted.
BooksBalance ==
  Quiet /\ ~shared /\ lost = {} => stored = charged

\* fallback_is_running lets at most one pool thread process a payment.
OnePoolProcesses ==
  Cardinality({c \in Pools : pc[c] \notin {"idle", "stamp"}}) <= 1

\* The payments as PaymentLedger sees them.
StatusOf(p) ==
  CASE p \notin posted -> "new"
    [] p \in discarded -> "dropped"
    [] \E q \in Processors : p \in stored[q] -> "booked"
    [] OTHER -> "open"

Ledger == INSTANCE PaymentLedger WITH
            status <- [p \in Payments |-> StatusOf(p)],
            charges <- charged,
            books <- stored

\* As long as threads do not share a handle, the service implements the
\* ledger: a payment is booked only under a processor that charged it, and
\* dropped only if some processor did.
LedgerSpec == Ledger!Spec

\* Every posted payment is stored or discarded in the end.
EveryPaymentSettled ==
  \A p \in Payments : (p \in posted) ~> (StatusOf(p) \in {"booked", "dropped"})
------------------------------------------------------------------------------
(* What the documentation claims.                                           *)

\* "Uses atomic variables for thread safety": a payment is counted under a
\* processor only if that processor accepted it.
CountedWasCharged == \A q \in Processors : stored[q] \subseteq charged[q]

==============================================================================
