# A TLA+ model of rinha-backend-2025

The program (`src/src/main.cpp`) accepts payments over HTTP, forwards each one to
one of two payment processors, and reports how many it forwarded to which. Two
instances run behind a balancer. Its HTTP server is restbed, whose source is in the
repository (`src/restbed-docker`). This directory holds TLA+ models of its parts, the
TLC runs that check them and TLAPS proofs of the facts that matter most.

Almost everything in this program that can go wrong goes wrong between threads or callbacks:
the REST threads, a worker thread and the detached "fallback pool" threads share
plain members without a lock. The models therefore split the code at every access to
shared memory that another thread can interleave with, and the properties say
either what holds under every interleaving, or what holds *until* a named
unsynchronised access happens (recorded in a history variable).

## 1. Inventory

| Part | State | Operations | Interacts with | What makes it hard |
|---|---|---|---|---|
| Worker queue (771-776) | `queue`, `head`, `tail` | `enqueue`, `fetch_next` | REST threads, worker, pool threads | plain increments and stores by several threads; no check against overrun |
| Failover (502-663, 782-801) | labels, URLs, `*_down`, `*_time_ms`, `fallback_evaluated` | routing, `handle_response`, `update_time`, `trigger_switch`, `evaluate_switch` | worker, pool threads, processors | swaps that overlap; stale times; failures without a status code |
| Life of a payment (424-548, 697-732) | `fallback_is_running`, `last_fallback`, curl handles | `worker_loop`, `process`, `process_payment`, `send_to_processor` | queue, processors, totals | handles shared by threads; lost responses and retries; pace of the pool |
| Totals (361-391, 735-769) | buckets per second and processor | `store_processed`, `query` | worker, pool threads, REST threads | plain additions; scans during writes; unsigned wrap-around; fixed size |
| Distributed summary (832-920) | REST threads | `payments_summary_handler`, `call_other_instance` | the other instance | blocking a REST thread on a call to a peer that may be doing the same; crashes |
| Several workers (802-830, 432-475) | `queue_index`, a queue per worker, the shared flag and time stamp | `post_payment_handler`, `worker_loop` | REST threads, workers, pool threads | a counter and a test-and-set without a lock; a crash takes what was acknowledged |
| A connection (restbed: `ipc_socket_impl`, `session`, `service_impl`; handlers of `main.cpp`) | socket, timer, pending writes, read buffer, posted callbacks | read, write, retry, timeout, route, fetch, yield, close | clients, handlers | one timer for reads and writes; completions in any order; requests cut anywhere; keep-alive |
| Start-up (260-340, 923-991) | configuration | constructor, `main` | all | gives initial states and constants |
| Profiler, purger (125-258, 413-421) | none in this build | their two HTTP handlers | a connection | compiled out, no-op; what they do to the connection remains |
| `service_health` (393-409) | | | | never called |
| RapidJSON, libcurl, asio, haproxy | | | | external; modelled by how `main.cpp` and restbed use them |

`PROJECT.json` lists the same parts with their status, and every hazard with the line
at which it bites and the properties that would catch it.

## 2. Modules

```
Connection      <- ConnectionProofs       one keep-alive connection, and the handlers
                <- ConnectionAnswersProofs  what its client gets
Dispatch        <- DispatchProofs         several workers, their shared flag, a crash
WorkerQueue     <- WorkerQueueProofs      the ring buffer
Failover        <- FailoverProofs         which processor is called first
PaymentService  <- PaymentServiceProofs   life of a payment
  -> PaymentLedger                        what it promises; implemented by PaymentService
Summary         <- SummaryProofs          totals per second, and query
SummaryFanout   <- SummaryFanoutProofs    summary over two instances
MC*.tla, *.cfg                            instances for TLC
```

The modules meet at interfaces that one of them justifies for the other.
`PaymentService` uses a FIFO as its queue, which is what `WorkerQueue` shows the
ring to be in the absence of unsynchronised accesses. It lets a thread read *any* two
labels, which covers all that `Failover` can produce. `Dispatch` calls `process` in one
step with any outcome, and takes from `PaymentService` that a payment processed again
and again is settled. `Connection` ends where `Dispatch` begins: with a payment handed to
`enqueue`. `Summary` lets any processor
take a payment at any time after its timestamp was read, and `SummaryFanout`
counts payments per instance.

### Connection

One connection as restbed sees it. All its callbacks run in a strand, one at a time
in the order they were posted (`conn.strand`); what posts them is concurrent: reads and
writes that complete or fail (`ReadCompletes`, `ReadFails`, `WriteCompletes`,
`WriteFails`), the timer (`Expire`), the client (`Send`, `SendBody`, `Leave`). A callback is
one action (`RunStartRead`, `RunWriteHelper`, `RunReadDone`, `RunWritten`, `RunTimeout`)
with every call it makes; the calls are operators on the connection named after the
functions (`WriteHelper`, `Write`, `Fetch`, `FetchBody`, `Yield`, `SessionClose`,
`ParseRequest`, `Router`, ...). A request is a head and, for some kinds, a body of `Length`
units that arrive in any pieces, with the next request possibly right behind. The kinds
are those the program tells apart: a payment, `/purge-payments` with and without a body,
a summary, the profiler, an unknown path, an unknown method, a malformed head.

Two things of the code are easily missed and are kept: the read handler of a *closed*
socket still runs and its error handler finds the session closed; and a write that
fails both calls back and is retried, so that a session can have an error response
and a retried response pending at once.

### Dispatch

An instance with `WorkerCount` workers. `queue_index++ % queue_size` is a load and a
store; a worker tests `fallback_is_running` in one step (`Test`) and sets it in another
(`Claim`), so that two of them can start a pool thread each and clear each other's flag.
`Crash` takes all that is in memory. `clashed`, `overlaps` and `vanished` record what
happened. Deployed is one worker; the code, its start-up and its README support more.

### WorkerQueue

State: `head`, `tail`, `slots`, and per thread its position and the stores it still owes. `enqueue` is
`EnqueueClaim` (load `tail`), `StoreTail` (write it back), `StoreSlot` (copy the
payment); `fetch_next` is `FetchNext` (test, load and advance `head`) and `CopySlot`.
The worker hands payments to pool threads (`HandOff`), and any of them may enqueue
again (`TryAgain`). `hazard` records the kinds of unsynchronised accesses so far: two
increments of `tail` that overlap, a slot copied before it was stored, a slot
overwritten before it was fetched.

### Failover

One action per C++ statement that reads or writes the shared members, from the reads
of the labels (`Begin`, `Route`) over the call (`Send`, with the processor's health
as environment) and `handle_response` (`Response` ... `CheckOther`) to `evaluate_switch`
and the six loads and stores of the two `swap`s. `overlapped` records that two threads
were inside `trigger_switch` at once. The module is about FALLBACK_ENABLED=1; without it
every function returns at once. Durations are small numbers; `def / fb >=
fee_difference` is kept as a product.

### PaymentService and PaymentLedger

A payment is posted, fetched, possibly handed to a pool thread, sent once or twice,
and stored, discarded or enqueued again. A call is `SetPayload`, `Perform`, an answer,
and a conclusion that reads the response code *from the handle*, which the worker
and its pool threads share. The processors are the environment: they accept a payment
they do not have (200), answer 422 to one they have, fail (500 or no connection),
or accept a payment in a response that is lost. `shared` records that two threads
used one handle at a time, `lost` the payments with a lost response. `PaymentLedger`
is what the service promises: a payment stays open until it is booked under a
processor that charged it or dropped because some processor did.

### Summary

The clock, the buckets per processor and field (requests, amount), the two writers
and one scan. An addition is a load and a store. `query`'s indices are computed as
the code does, in unsigned arithmetic that wraps at `Word`. `stored` is the history
of completed additions by the payment's own timestamp, against which buckets and
answers are compared; the reference for an interval is the half-open (from, to].
A store outside the vector is undefined behaviour: `StoreOutside` sets `outside` and
writes to memory of no bucket or to any bucket of either vector, and what the passing
properties say of the contents of buckets ends there. `SummaryBetween` is the summary the
documentation promises, without that condition.

### SummaryFanout

Two instances with `Concurrency` REST threads each, client requests and the internal
requests they cause, payments stored meanwhile, a crash and a restart, calls that fail
although the other instance is up (`CallFails`), and a network that swallows a call so that
it never returns (`GoSilent`: no timeout is set). `own_low` and `peer_low` are the totals when
the request came in, against which the two parts of an answer are compared; a crash that wipes
out the peer's totals before they are read clears `peer_low`. That restbed
has exactly `worker_limit` threads for all handlers comes from
`Service::start`; a handler that blocks holds its thread, the connection timer
included, as it runs on the same threads.

## 3. Runs

Bounds are the constants of the cfg files. `CHECK_DEADLOCK FALSE` is set where a
behaviour ends because all payments or requests the bounds allow are done.

| Run | Shows |
|---|---|
| `queue` | A REST thread, the worker and a pool thread (which enqueues again) on a ring of two slots: no fetch of what was not pushed; no position lost unless increments of `tail` overlapped; FIFO and every payment in exactly one place unless a hazard occurred; every push is fetched unless enqueues overlapped. Two slots are enough for wrap-around and overrun, two enqueuing threads for the overlap. |
| `failover_sequential` | One payment at a time, by a worker or a pool thread; the processors are well, answer 500, cannot be reached or answer 200 or 500 at random, and change at any time: labels and URLs agree after every switch; a 500 from the primary fails over if the other is up; a probe decides by the times measured; a primary that keeps answering 500 does not stay the primary. |
| `failover_outage` (violated) | A primary without a response (code 0) is never failed over. README.md:41. |
| `payments` | Two payments, three threads: each payment in exactly one place under every interleaving; books are right until a handle is shared or a response lost; at most one pool thread processes. |
| `payments_refine` | Without shared handles the service implements `PaymentLedger` and settles every payment, with and without the fallback. |
| `payments_shared` (violated) | A shared handle gets a payment counted that nobody accepted. README.md:42. |
| `summary` | All intervals over a clock that passes the last bucket: until a store leaves the vector, buckets are exact unless additions overlapped, and never too high; the scan stays in the vector, always; an answer for an interval that does not end before the start lies between what was stored when it began and when it ended. |
| `summary_documented` (violated) | The same instance, with the answer compared for every interval and at every time: a payment processed `Capacity` seconds after the start is missing from the summary of its interval. README.md:29, :50, main.cpp:734. |
| `fanout` | Three client requests, two threads per instance, a payment processed meanwhile, a crash, calls that fail, one that never returns: the two instances never block all their threads on each other; an answer covers the totals both had, a failed call adding nothing; every summary but the one whose own call is lost is answered, while client requests are fewer than threads (3 of 4). |
| `fanout_deployed` (violated) | One thread each, two requests: each waits for the other for ever. README.md:29, infra/docker-compose.yml:15, :40. |
| `connection` | Three requests of five kinds, two of them possibly pipelined, a body of two units, one failed write, one retry: one write and one request at a time; answers in order and of the right kind; a payment is enqueued once, with its own body, and answered; the server closes only for a stated reason; an operation under way has its timer; no request is left hanging. Three requests are enough for a body left in the buffer to meet the request behind it and for an answer to be overtaken; one failed write for callback and retry to go on side by side. |
| `dispatch` | Two REST threads, two workers, two pool threads, three payments, a crash: even dealing until increments overlap; pool threads bounded by overlaps of the test; an acknowledged payment in exactly one place, settled unless the process crashed with it; the flag does not stay set. |

The conditions of the passing properties are needed, and name what else the code does:

* `FifoUntilHazard` needs "no slot copied before it was stored": `enqueue` publishes `tail`
  before it stores the slot, so that even with one REST thread and one worker, as
  deployed, the worker can copy the slot's previous payment (src/README.md:39 calls
  the queue a lock-free ring buffer, and :42 gives atomic variables as its thread safety).
* `QueryAnswers` needs "the interval does not end before the start": otherwise line 375 wraps
  around, the clamp of line 378 makes it the last bucket, and `query` answers with
  everything (theorem `EarlyIntervalReadsAll`). `SummaryBetween` fails that way too: with
  `LastSecond = 3`, where no store can leave the vector, TLC finds such an interval.
* `AnswerComplete` does not count a failed call: it adds zeros, and the client is sent a 200
  that does not tell.
* `RightAnswer` needs its 400: `purger_handler` does not fetch its request's body, which
  stays in the buffer and spoils the head of the next request.
* `TimerGuards` and `EveryRequestResolved` need "no failed write": callback and retry share
  the timer, and the completion of one cancels the other's.
* `AcceptedIsAnswered` and `CloseExplained` need "raced": the timer's handler, once posted,
  closes the socket even if a request arrived meanwhile and no new operation has set
  the timer again.
* `CloseExplained` names summaries: their handler closes the connection although
  the response says keep-alive.
* `PoolBounded` needs the count of overlapping tests, `AckedIsSomewhere` its `vanished`:
  202 is sent before anything is persisted, and nothing ever is.
* `RolesAgree` needs "no two switches overlapped": overlapping swaps can make both
  labels name one processor, and `LostForGood` says that this is permanent. The run has one
  payment at a time, where switches cannot overlap; for threads that interleave both
  are proved.
* `BooksBalance` needs "no response lost": after a lost acceptance the retry is
  answered 422, the payment is discarded and never counted.
* `OnePoolProcesses` leaves out a thread that has only its time stamp left to write:
  lines 474 and 475 let the next pool thread start before `last_fallback` is set.
* `BucketsExact` needs "no two additions overlapped": plain additions lose payments. With
  `NeverOvercounts` and `QueryAnswers` it needs "no store has left the vector", which
  is undefined behaviour and may change any bucket; `VectorLasts` says that this does not
  happen in the first `Capacity` seconds.
* `FailoverOn500` is about a processor that fails. On recovery `handle_response` swaps
  without looking who is the primary (lines 585, 593): after both were down, the
  primary's recovery makes the other, still down, the primary until its next 500.

Scaling in `Summary`: 2 ms per second, 2 buckets and a 6-bit word stand for 1000, 3000
and 64 bits; the word is larger than twice every timestamp, as in the code, so that
only the difference to `processed_start` wraps.

### Fairness

Threads of the program are scheduled (weak fairness per thread). The worker polls its
queue for ever. `EveryPaymentSettled` also needs the processors: a payment whose first
call is made again and again is answered 200 or 422 at last (strong fairness). Answers
to second calls would not do, because the code tests the *first* call's code after the
second call, so that a 422 there leads to another attempt. Clients, crashes, restarts
and the processors' health are not fair. Calls to the processors are assumed to end: no
timeout is set on any handle, and one that never returned would hold its thread, and the
curl handle that thread shares, for ever. `SummaryFanout` does not assume it: calls
to the other instance may never return.

`Dispatch` assumes its threads to be scheduled, and what `PaymentService` shows of payments
that are processed again and again (strong fairness of settling); `EveryAckedSettled` and
`FlagIsCleared` then say that again and again nothing acknowledged is left over and the flag
is clear. `Connection` assumes that the strand runs its callbacks, that data that is there is
read, that a running timer expires, and that a write to a client that has gone ends. It
assumes nothing of a client that stays: one that stops in the middle of a body or
does not receive is what the timer is for.

## 4. Proofs

For every value of the constants (numbers of threads, workers, requests and retries,
capacity, sets of payments, lengths of bodies):

* `WorkerQueueProofs`: `TypeCorrect`, `FetchesBounded`, `PositionsKept`, `QueueIsFifo`,
  `PaymentInOnePlace`.
  `FifoUntilHazard` is not inductive: the invariant `IInv` adds how `tail` relates to the
  number of claims and to a pending increment (`TailInv`), what each slot between
  `head` and `tail` holds (`RingInv`), and that an idle thread holds nothing
  (`BusyInv`). That distinct waiting positions have distinct slots (`SlotOfInjective`) is the
  arithmetic behind it. `PlaceInv` adds where payments are: no two waiting positions, hands or
  the done ones hold the same payment, and every payment pushed is in one of them. It
  rests on `RingInv`, as what a thread is given is what is at the position it fetched.
* `FailoverProofs`: `TypeCorrect`, `RolesStayInAgreement`, `ProcessorLostForGood`, for any
  number of threads that interleave statement by statement (`Spec`). The invariant describes each of the six intermediate points of a switch, by the thread
  that is inside it. For the specification with one payment at a time (`Sequential`):
  `FailoverAfterError` and `ProbeDecidesPrimary`. `SeqInv` follows one call through
  `handle_response` and `evaluate_switch`: after a 500 what its locals still say of the labels
  (`After500`), during a probe that no switch has been made for it before it decides, and
  that the decision is the one the times call for (`Probing`).
* `SummaryProofs`: `QuerySelectsInterval` (the indices of `query` select exactly the
  seconds of (from, to], by the bounds that characterise a quotient, if the interval does
  not end before the start), `EarlyIntervalReadsAll` (if it does, every bucket is read,
  though none of their seconds is in it), `TypeCorrect`,
  `TotalsAreExact`, `TotalsNeverTooHigh`, `VectorLasts`, `ScanStaysInside`. The invariant
  adds that a writer inside an addition has a bucket of the vector and loaded no more
  than was stored (`WriterInv`), that until a clash or a store outside the vector what it loaded is still the total and
  nobody else is inside that addition (`LoadedInv`), and that the scan's last bucket
  exists (`ScanInv`).
  `QueriesAnswer` is about sums over a set of seconds: `QInv` says that what was stored
  when the query began is no more than what it has read and has still to read, and that what
  it has read is no more than what is stored. That sums over finite sets can be split,
  compared and changed in one place is proved first, from the recursive function over
  subsets that defines them, by taking a smallest set for which it would fail.
* `PaymentServiceProofs`: `TypeCorrect`, `OnePoolThread`, `PaymentInOnePlace`,
  `CountedWasAccepted`, `LossExplainsDuplicates`, `BooksAreBalanced`, `ImplementsLedger` (while no
  handle is shared every step is a step of `PaymentLedger` or leaves it alone). The
  invariant adds where a payment can be (`PlaceInv`); that while no handle was shared each
  handle in use belongs to one thread, and what a thread inside `send_to_processor` can
  therefore rely on (`HandleInv`); and that what a processor accepted is counted, about
  to be counted by the thread that was told, or in a lost response (`ChargedInv`).
* `DispatchProofs`: `TypeCorrect`, `PoolIsBounded`, `FlagHasHolder`, `PaymentsBalanced`,
  `PaymentsKept`. The pool's bound needs the workers between test and set counted together with
  the active threads, the balance that the counter modulo the number of workers tells who
  got one more. `FlagHasHolder` is the safety half of `FlagIsCleared`: whenever the flag is set
  some pool thread has still to clear it.
* `SummaryFanoutProofs`: `TypeCorrect`, `AnswersAreComplete`, `NoGridlock`, with crashes, failed
  and silent calls. `PartInv` says what the parts of an answer are once they have been read: at
  least the totals when the request came in, as totals only grow between crashes, and the peer's
  part zero until the peer has replied. It has no condition on crashes.
  `NoGridlock` is the safety half of `EverySummaryAnswered`: with fewer client requests than the
  instances have threads (|Requests| < 2 * Concurrency) and fewer lost replies than one of
  them has (MaxSilences < Concurrency), some handler can take a step while a client waits for
  a reply that can come. If none could, an instance's threads would all be held by clients,
  one of them by a call that is not lost, so the other instance would be full of clients
  too (`BothFull`). Neither bound can be relaxed by one: with the values of
  `MCSummaryFanout.cfg`, a fourth request or a second silent call lets TLC reach a state where
  no request satisfies `CanGoOn`. The invariant is that requests and calls are under way only at
  instances that are up (`CallInv`), and how many calls are silent (`SilenceInv`).
* `ConnectionProofs`: `TypeCorrect`, `WritesOneAtATime`, `RequestsOneAtATime`. Type correctness is
  not a formality here: `parse_request` takes a head and `fetch_body` takes `Length` units
  from the buffer without looking, so it needs that a completed read leaves in the buffer
  what it was to get (`Fills`), which needs that nothing else takes from the buffer
  before its callback runs (`AtMost`), which in turn is `OneRequest`. Callbacks are
  characterised once, by what they may post (`Adds`), and lemmas about sequences with
  no or one element of a kind (`Zero`, `One`) replace counting. The module goes on with
  lemmas about what the client sends, for the next one: how the operators that answer, read,
  close and write move the place in it (`ReadDoneOutcome` and the ones that follow it).
* `ConnectionAnswersProofs`: `PaymentsHaveTheirBody`, `AnswersAreRight`, `AnswersInOrder`,
  `AcceptedPaymentsAnswered`, `ClosesAreExplained`, `OperationsAreTimed`. Two invariants are added.
  `FInv` holds whatever fails: buffer and wire together are the rest of the requests sent,
  each head followed by its body (`Chain`), and begin with the body that is to be read, with
  the next head, or with the body that `/purge-payments` left behind, in front of that head.
  What is enqueued, to be sent and sent is right for its request. `CInv` is about a connection
  on which no write failed, to a client that stays (`Calm`): it rests, reads, writes or has one
  callback to run, and each of the four says whose turn it is, which payments are not
  answered yet, whether the timer runs and, at rest, why it was closed. All six properties
  need it or `FInv` because each speaks of one moment (a response written, a socket
  closed) whose reason lies several callbacks back.

A fact that several proofs need is a lemma; in the two modules about the connection, one that only
one invariant's proof needs is a named step of that proof (`<1>CutStream` inside
`ReadDoneOutcome`). Besides keeping a fact next to its use this keeps the provers fast,
as every lemma above an obligation is part of its context. A leaf cites `Zenon` or
`ZenonT(40)` where that backend is the one that finds it, and `SMT, SMTT(20)` where only the SMT
solver does and may need a second attempt with more time.

Types are proved in every module (`TypeCorrect`), so that the runs leave `TypeOK` out, but for
`connection`, where it says more than types.

The assumptions are the `ASSUME`s of the modules, which say what constants are
(positive capacity, distinct thread names). Every safety property of the passing runs is
proved. Only checked by TLC is liveness, since TLAPS has no proof rules for fairness and
`ENABLED`: `EveryPushIsFetched`, `FailoverFromErrors`, `EveryPaymentSettled`,
`EverySummaryAnswered`, `EveryRequestResolved`, `EveryAckedSettled`, `FlagIsCleared`.

## 5. Not modelled

* Of `main.cpp`: payload strings and JSON, the profiler's counters (compiled out),
  `service_health` (never called), the destructor (the service is a static that lives as
  long as the process), logging and sleeps (a sleep is a step not taken). Amounts are
  all 1. Bodies are as long as their Content-Length says and fit a `RawPayment`.
* Of restbed: what the program does not use (TLS, WebSocket, authentication, rules, signals,
  streamed and chunked bodies), the default session manager (it keeps nothing), URI and
  string utilities, and the text of heads. An unknown method's 501 is the model's 405: both
  close the session. The TCP socket (`socket_impl.cpp`) is the same code as
  the modelled one for another address family; the balancer uses the IPC one. Several
  connections share only the REST threads, whose limit is `SummaryFanout`'s.
* Vendored code the program does not run: RocksDB's headers (included nowhere), most of
  RapidJSON, and a second copy of restbed. They are most of the repository's lines and
  have no behaviour here to model.

## 6. Plan

1. Composition of `WorkerQueue` with `PaymentService`: the FIFO replaced by the ring.
2. Several connections that share the REST threads, in one module with `SummaryFanout`.
3. Overlapping switches in `Failover` with more than two threads, as several workers have.
