------------------------------- MODULE Summary --------------------------------
(***************************************************************************)
(* The counters behind GET /payments-summary: processed_default and        *)
(* processed_fallback, one bucket per second since the service started;    *)
(* store_processed, by the worker and the fallback-pool thread; and query, *)
(* by a REST thread, which scans the buckets while they are written.       *)
(*                                                                         *)
(* Nothing is locked.  totalRequests++ and totalAmount += amount are each  *)
(* a load and a store, and a scan reads one field after the other.  Every  *)
(* amount is 1, so both fields of a bucket should count its payments.      *)
(* Unsigned arithmetic wraps at Word (2^64 in the code) and a second has   *)
(* Ms milliseconds (1000).                                                 *)
(***************************************************************************)
EXTENDS Integers, FiniteSetsExt

CONSTANTS
  Writers,      \* the worker and its fallback-pool thread
  Capacity,     \* PROCESSED_CAPACITY, the number of buckets
  Ms,           \* milliseconds in a second
  Word,         \* uint64_t wraps here
  Start,        \* processed_start, in seconds
  FallbackEnabled, \* FALLBACK_ENABLED
  LastSecond,   \* bound: the clock stops here
  MaxStores     \* bound: calls of store_processed in a behaviour

ASSUME SummaryAssumption ==
  /\ Capacity \in Nat \ {0}
  /\ FallbackEnabled \in BOOLEAN
  /\ Ms \in Nat \ {0}
  /\ Start \in Nat /\ LastSecond \in Nat /\ Start <= LastSecond
  /\ MaxStores \in Nat
  /\ Word \in Nat /\ Word % 2 = 0
  /\ (LastSecond + 2) * Ms < Word \div 2 /\ Capacity < Word \div 2

Processors == {"default", "fallback"}
Buckets    == 0..Capacity-1
Seconds    == Start..LastSecond
Times      == 0..(LastSecond + 1) * Ms   \* timestamps a query may ask for

\* uint64_t and int64_t
Unsigned(n) == n % Word
Signed(n)   == IF Unsigned(n) < Word \div 2 THEN Unsigned(n) ELSE Unsigned(n) - Word

\* Mutated forms: an inclusive lower end, and an upper end not clamped.
FirstIndexInclusive(from) ==
  LET i == Signed(Signed(from \div Ms) - Start) IN IF i < 0 THEN 0 ELSE i

LastIndexUnclamped(to) == Unsigned(to \div Ms - Start)

\* query: from_sec and to_sec, the first and the last bucket to scan.  The
\* difference of int64_t and uint64_t is computed unsigned.
FirstIndex(from) ==
  LET i == Signed(Signed((from + Ms) \div Ms) - Start) IN IF i < 0 THEN 0 ELSE i

LastIndex(to) ==
  LET i == Unsigned(to \div Ms - Start) IN IF i >= Capacity THEN Capacity - 1 ELSE i

Fields == {"requests", "amount"}
Cells  == Processors \X Fields
Zero   == [c \in Cells |-> 0]

VARIABLES
  clock,     \* time(nullptr)
  bucket,    \* per processor, field and second since Start: the totals
  pc,        \* per writer: idle, called (has its timestamp), load, write
  ts,        \* per writer: the timestamp of its payment
  cell,      \* per writer: the processor and the field it is adding to
  tmp,       \* per writer: the total it loaded
  stored,    \* history: per cell and second, payments added, to whatever memory
  begun,     \* number of payments begun
  clash,     \* history: two writers were inside one addition
  outside,   \* history: a store outside the buckets
  scan,      \* the query under way, or NoScan
  low        \* history: what the query should have answered when it began

local == <<pc, ts, cell, tmp>>
hist  == <<begun, clash, outside>>
query == <<scan, low>>
vars  == <<clock, bucket, local, stored, hist, query>>

NoCell == <<"default", "requests">>
NoScan == [on |-> FALSE, from |-> 0, to |-> 0, next |-> 0, last |-> 0,
           todo |-> {}, sum |-> Zero]

\* What a query for (from, to] is to answer: the completed additions of the
\* payments whose requestedAt, a whole second, lies in that interval.
Between(c, from, to) ==
  MapThenSumSet(LAMBDA s : stored[c][s],
                {s \in Seconds : from < s * Ms /\ s * Ms <= to})

\* An interval that ends before the service started: to_sec wraps.
EndsBeforeStart(from, to) == from <= to /\ to < Start * Ms

------------------------------------------------------------------------------
\* Mutated form: buckets counted from one.
IndexFromOne(t) == Unsigned(ts[t] - Start + 1)

\* timestamp - processed_start; nothing keeps it below Capacity.
Index(t) == Unsigned(ts[t] - Start)

Init ==
  /\ clock = Start
  /\ bucket = [c \in Cells |-> [i \in Buckets |-> 0]]
  /\ pc = [t \in Writers |-> "idle"]
  /\ ts = [t \in Writers |-> Start]
  /\ cell = [t \in Writers |-> NoCell]
  /\ tmp = [t \in Writers |-> 0]
  /\ stored = [c \in Cells |-> [s \in Seconds |-> 0]]
  /\ begun = 0
  /\ clash = FALSE
  /\ outside = FALSE
  /\ scan = NoScan
  /\ low = Zero

Tick ==
  /\ clock < LastSecond
  /\ clock' = clock + 1
  /\ UNCHANGED <<bucket, local, stored, hist, query>>

\* create_processor_payload reads the clock; the call to a processor follows.
CreatePayload(t) ==
  /\ pc[t] = "idle" /\ begun < MaxStores
  /\ begun' = begun + 1
  /\ pc' = [pc EXCEPT ![t] = "called"]
  /\ ts' = [ts EXCEPT ![t] = clock]
  /\ UNCHANGED <<clock, bucket, cell, tmp, stored, clash, outside, query>>

Leave(t) ==
  /\ pc' = [pc EXCEPT ![t] = "idle"]
  /\ ts' = [ts EXCEPT ![t] = Start]
  /\ cell' = [cell EXCEPT ![t] = NoCell]
  /\ tmp' = [tmp EXCEPT ![t] = 0]

\* The vector store_processed picks: with the fallback disabled everything is
\* booked as default.
Booked(q) == IF FallbackEnabled THEN q ELSE "default"

\* Both fields of processor p at index i of f go up.
AddAt(f, p, i) ==
  [c \in Cells |-> IF c[1] = p THEN [f[c] EXCEPT ![i] = @ + 1] ELSE f[c]]

\* The processor q took the payment: store_processed picks the bucket.
StoreProcessed(t, q) ==
  /\ pc[t] = "called" /\ Index(t) \in Buckets
  /\ pc' = [pc EXCEPT ![t] = "load"]
  /\ cell' = [cell EXCEPT ![t] = <<Booked(q), "requests">>]
  /\ UNCHANGED <<clock, bucket, ts, tmp, stored, hist, query>>

\* ... a bucket the vector does not have.  The additions are undefined there:
\* they go to memory of no bucket, or to a bucket of either vector.
StoreOutside(t, q) ==
  /\ pc[t] = "called" /\ Index(t) \notin Buckets
  /\ outside' = TRUE
  /\ stored' = AddAt(stored, Booked(q), ts[t])
  /\ \/ UNCHANGED bucket
     \/ \E p \in Processors, i \in Buckets : bucket' = AddAt(bucket, p, i)
  /\ Leave(t)
  /\ UNCHANGED <<clock, begun, clash, query>>

\* The processor refused the payment: nothing is stored.
Refused(t) ==
  /\ pc[t] = "called"
  /\ Leave(t)
  /\ UNCHANGED <<clock, bucket, stored, hist, query>>

Load(t) ==
  /\ pc[t] = "load"
  /\ pc' = [pc EXCEPT ![t] = "write"]
  /\ tmp' = [tmp EXCEPT ![t] = bucket[cell[t]][Index(t)]]
  /\ clash' = (clash \/ \E u \in Writers \ {t} :
                  pc[u] = "write" /\ cell[u] = cell[t] /\ Index(u) = Index(t))
  /\ UNCHANGED <<clock, bucket, ts, cell, stored, begun, outside, query>>

\* Mutated form: the total loaded for totalRequests serves totalAmount too.
WriteReusing(t) ==
  /\ pc[t] = "write"
  /\ bucket' = [bucket EXCEPT ![cell[t]][Index(t)] = tmp[t] + 1]
  /\ stored' = [stored EXCEPT ![cell[t]][ts[t]] = @ + 1]
  /\ \/ /\ cell[t][2] = "requests"
        /\ cell' = [cell EXCEPT ![t] = <<cell[t][1], "amount">>]
        /\ UNCHANGED <<pc, tmp, ts>>
     \/ /\ cell[t][2] = "amount"
        /\ Leave(t)
  /\ UNCHANGED <<clock, hist, query>>

\* totalRequests first, then totalAmount.
Write(t) ==
  /\ pc[t] = "write"
  /\ bucket' = [bucket EXCEPT ![cell[t]][Index(t)] = tmp[t] + 1]
  /\ stored' = [stored EXCEPT ![cell[t]][ts[t]] = @ + 1]
  /\ \/ /\ cell[t][2] = "requests"
        /\ pc' = [pc EXCEPT ![t] = "load"]
        /\ cell' = [cell EXCEPT ![t] = <<cell[t][1], "amount">>]
        /\ tmp' = [tmp EXCEPT ![t] = 0]
        /\ UNCHANGED ts
     \/ /\ cell[t][2] = "amount"
        /\ Leave(t)
  /\ UNCHANGED <<clock, hist, query>>

\* query, up to its loop.  An inverted interval answers zeros.
Query(from, to) ==
  /\ ~scan.on
  /\ scan' = [on   |-> TRUE, from |-> from, to |-> to,
              next |-> IF to < from THEN 1 ELSE FirstIndex(from),
              last |-> IF to < from THEN 0 ELSE LastIndex(to),
              todo |-> Cells,
              sum  |-> Zero]
  /\ low' = [c \in Cells |-> Between(c, from, to)]
  /\ UNCHANGED <<clock, bucket, local, stored, hist>>

\* The loop's body copies the default bucket, then the fallback one; the two
\* fields of a bucket are copied in either order.
ScanCell(c) ==
  /\ scan.on /\ scan.next <= scan.last
  /\ c \in scan.todo
  /\ c[1] = "fallback" => \A d \in scan.todo : d[1] = "fallback"
  /\ scan' = [scan EXCEPT !.sum[c] = @ + bucket[c][scan.next],
                          !.todo = IF @ = {c} THEN Cells ELSE @ \ {c},
                          !.next = IF scan.todo = {c} THEN @ + 1 ELSE @]
  /\ UNCHANGED <<clock, bucket, local, stored, hist, low>>

Answered == scan.on /\ scan.next > scan.last

Answer ==
  /\ Answered
  /\ scan' = NoScan
  /\ low' = Zero
  /\ UNCHANGED <<clock, bucket, local, stored, hist>>

Next ==
  \/ Tick
  \/ \E t \in Writers :
       \/ CreatePayload(t) \/ Refused(t) \/ Load(t) \/ Write(t)
       \/ \E q \in Processors : StoreProcessed(t, q) \/ StoreOutside(t, q)
  \/ \E from, to \in Times : Query(from, to)
  \/ \E c \in Cells : ScanCell(c)
  \/ Answer

Spec == Init /\ [][Next]_vars

------------------------------------------------------------------------------
(* Properties *)

\* Type invariant of the buckets, the writers and the scan.
TypeOK ==
  /\ clock \in Seconds
  /\ bucket \in [Cells -> [Buckets -> Nat]]
  /\ pc \in [Writers -> {"idle", "called", "load", "write"}]
  /\ ts \in [Writers -> Seconds]
  /\ cell \in [Writers -> Cells]
  /\ tmp \in [Writers -> Nat]
  /\ stored \in [Cells -> [Seconds -> Nat]]
  /\ begun \in 0..MaxStores
  /\ clash \in BOOLEAN /\ outside \in BOOLEAN
  /\ scan \in [on : BOOLEAN, from : Times, to : Times, next : Nat, last : Nat,
               todo : SUBSET Cells, sum : [Cells -> Nat]]

\* As long as no two writers were inside store_processed's addition to one
\* total at once, and none left the vector, every bucket holds exactly the
\* payments of its second, by the timestamp sent to the processor, however late
\* they are stored.
BucketsExact ==
  ~clash /\ ~outside => \A c \in Cells, i \in Buckets :
    bucket[c][i] = IF Start + i \in Seconds THEN stored[c][Start + i] ELSE 0

\* Additions of the worker and the pool that do overlap lose payments, but
\* never make up one: as long as no writer left the vector, no total exceeds
\* the payments stored.
NeverOvercounts ==
  ~outside => \A c \in Cells, i \in Buckets :
    bucket[c][i] <= IF Start + i \in Seconds THEN stored[c][Start + i] ELSE 0

\* store_processed leaves the vector only for payments sent in second
\* Start + Capacity or later.
BucketsLast == outside => clock >= Start + Capacity

\* query's loop only reads buckets that exist, whatever interval is asked for.
ScanInBounds == scan.on /\ scan.next <= scan.last => scan.next \in Buckets

\* What the documentation says of query ("Aggregate processed payments between
\* two timestamps"; the README: the endpoint "Returns total requests and amounts
\* for each processor between two timestamps"), of a query that runs while
\* payments are stored: for every total, no less than what was stored in
\* (from, to] when it began and no more than what is stored when it ends.
SummaryBetween ==
  Answered /\ ~clash
    => \A c \in Cells : /\ low[c] <= scan.sum[c]
                        /\ scan.sum[c] <= Between(c, scan.from, scan.to)

\* query does so as long as every payment found its bucket, for every interval
\* but one that ends before the service started.
QueryAnswers ==
  ~outside /\ ~EndsBeforeStart(scan.from, scan.to) => SummaryBetween
==============================================================================
