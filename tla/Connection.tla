------------------------------ MODULE Connection ------------------------------
(***************************************************************************)
(* One keep-alive connection of the REST server: restbed's socket (the     *)
(* IPC one, which the balancer uses), its session, and the handlers of     *)
(* main.cpp, seen as a queue of callbacks.                                 *)
(*                                                                         *)
(* Every callback of a connection runs in its strand: one at a time, in    *)
(* the order they were posted.  What is concurrent is everything that      *)
(* posts them: reads and writes that complete or fail, the timer, the      *)
(* client.  A callback is one action here, with every call it makes; the   *)
(* operators on a connection c below are those calls.                      *)
(*                                                                         *)
(* A request is a head (up to the blank line) and, for some kinds, a body  *)
(* of Length units that arrive one by one; a response is one unit.         *)
(***************************************************************************)
EXTENDS Integers, Sequences, FiniteSets

CONSTANTS
  Kinds,         \* the kinds of requests the client may send
  Length,        \* Content-Length of a body, in units
  MaxRequests,   \* bound: requests on the connection
  Window,        \* requests the client sends before it waits for an answer
  MaxRetries,    \* MAX_WRITE_RETRIES
  MaxErrors      \* bound: failures of a write while the client is there

AllKinds == {"payment", "purge", "purgeBody", "summary", "profiler",
             "unknown", "method", "malformed"}

ASSUME ConnectionAssumption ==
  /\ Kinds \subseteq AllKinds
  /\ Length \in Nat \ {0}
  /\ MaxRequests \in Nat /\ Window \in Nat
  /\ MaxRetries \in Nat /\ MaxErrors \in Nat

VARIABLES
  conn,    \* the socket and the session, see TypeOK
  asked,   \* the kinds of the requests sent so far
  owes,    \* units of the last body that the client has not sent yet
  wire,    \* units sent by the client and not read yet
  gone,    \* the client has closed its end
  log,     \* responses the client has received: [n, status]
  errors   \* number of failed writes

client == <<asked, owes, wire, gone>>
vars   == <<conn, client, log, errors>>

------------------------------------------------------------------------------
(* Requests and their units.                                                *)

HeadOf(n) == [part |-> "head", n |-> n]
BodyOf(n) == [part |-> "body", n |-> n]
Match(s, i) == s[i].part = "head" /\ \A j \in 1..(i - 1) : s[j].part # "head"
HasHead(s) == \E i \in DOMAIN s : Match(s, i)
FirstHead(s) == CHOOSE i \in DOMAIN s : Match(s, i)
Drop(s, k) == SubSeq(s, k + 1, Len(s))

BodyLength(kind) == IF kind \in {"payment", "purgeBody"} THEN Length ELSE 0

\* Requests whose answer ends the connection: all but POST /payments and
\* POST /purge-payments.
Closing(kind) == kind \notin {"payment", "purge", "purgeBody"}

\* 405 stands for method_not_implemented's 501 too: both close the session.
Status(kind) ==
  CASE kind = "payment"                          -> 202
    [] kind \in {"purge", "purgeBody"}           -> 200
    [] kind \in {"summary", "profiler"}          -> 200
    [] kind = "unknown"                          -> 404
    [] kind = "method"                           -> 405
    [] kind = "malformed"                        -> 400
------------------------------------------------------------------------------
(* IPCSocketImpl                                                            *)

Post(c, h) == [c EXCEPT !.strand = Append(@, h)]

CancelTimer(c) == [c EXCEPT !.timer = FALSE]

\* m_timer->cancel(), expires_from_now(m_timeout), async_wait(...).
ArmTimer(c) == [c EXCEPT !.timer = TRUE, !.expired = FALSE]

\* close(): outstanding operations complete with operation_aborted.
CloseSocket(c, why) ==
  [CancelTimer(c) EXCEPT
     !.open = FALSE, !.fd = FALSE,
     !.ended = IF @ = "no" THEN why ELSE @,
     !.reading = "none", !.writing = FALSE,
     !.strand = @ \o (IF c.reading = "none" THEN <<>>
                      ELSE <<[op |-> "read", of |-> c.reading, result |-> "aborted"]>>)
                  \o (IF c.writing THEN <<[op |-> "written", result |-> "aborted"]>>
                      ELSE <<>>)]

\* write(): the front of m_pending_writes, or, once closed, drop them all.
Write(c) ==
  IF c.open THEN [ArmTimer(c) EXCEPT !.writing = TRUE]
            ELSE [c EXCEPT !.pending = <<>>]

\* Mutated forms of write_helper and read: a write that does not look whether
\* one is under way, one that waits for company, a body read without timer.
WriteHelperAlways(c, r) == Write([c EXCEPT !.pending = Append(@, r)])

WriteHelperLate(c, r) ==
  LET d == [c EXCEPT !.pending = Append(@, r)] IN
  IF Len(d.pending) = 2 THEN Write(d) ELSE d

ReadUntimed(c, what, need) ==
  [(IF what = "body" THEN c ELSE ArmTimer(c)) EXCEPT !.reading = what, !.need = need]

WriteHelper(c, r) ==
  LET d == [c EXCEPT !.pending = Append(@, r)] IN
  IF Len(d.pending) = 1 THEN Write(d) ELSE d

\* read(): not guarded by m_is_open.
Read(c, what, need) == [ArmTimer(c) EXCEPT !.reading = what, !.need = need]
------------------------------------------------------------------------------
(* Session and SessionImpl                                                  *)

\* transmit: start_write posts the response.
Transmit(c, n, status, then) ==
  Post(c, [op |-> "write_helper",
           resp |-> [n |-> n, status |-> status, then |-> then, tries |-> 0]])

\* get_error_handler() and default_error_handler: once per session, and only
\* if it is open.
SessionError(c, n) ==
  LET d == [c EXCEPT !.handled = TRUE] IN
  IF c.open /\ ~c.handled THEN Transmit(d, n, 500, "close") ELSE d

\* close(response) and yield(response) of an open session; on a closed one
\* the error handler finds it closed.
SessionClose(c, status) ==
  IF c.open THEN Transmit(c, c.cur, status, "close") ELSE SessionError(c, c.cur)

\* Mutated form of yield: reads on without having answered.
YieldSilently(c, status) ==
  Post(c, [op |-> "start_read", of |-> "head", need |-> 0])

Yield(c, status) ==
  IF c.open THEN Transmit(c, c.cur, status, "read") ELSE SessionError(c, c.cur)

\* Mutated form of fetch_body: the last unit stays in the buffer.
FetchBodyLeavesOne(c) ==
  Yield([c EXCEPT
           !.buffer = Drop(@, Length - 1),
           !.queued = Append(@, [n |-> c.cur, body |-> SubSeq(c.buffer, 1, Length)])],
        202)

\* post_payment_handler's callback, called by fetch_body: take Length units,
\* enqueue them as the payment, answer 202.
FetchBody(c) ==
  Yield([c EXCEPT
           !.buffer = Drop(@, Length),
           !.queued = Append(@, [n |-> c.cur, body |-> SubSeq(c.buffer, 1, Length)])],
        202)

\* fetch(length, ...).
Fetch(c) ==
  IF Length > Len(c.buffer)
  THEN Post(c, [op |-> "start_read", of |-> "body", need |-> Length - Len(c.buffer)])
  ELSE FetchBody(c)
------------------------------------------------------------------------------
(* ServiceImpl                                                              *)

ServiceError(c, status) ==
  IF c.open THEN Transmit(c, c.cur, status, "close") ELSE c

\* router, and the handlers that answer at once.
Router(c, kind) ==
  CASE ~c.open                     -> c
    [] c.open /\ kind = "payment"  -> Fetch(c)
    [] c.open /\ kind \in {"purge", "purgeBody"} -> Yield(c, Status(kind))
    [] OTHER                       -> SessionClose(c, Status(kind))

\* Mutated form of parse_request: takes the head from behind what was left.
ParseRequestAnywhere(c) ==
  LET i == FirstHead(c.buffer)
      n == c.buffer[i].n
      d == [c EXCEPT !.buffer = SubSeq(@, 1, i - 1) \o Drop(@, i), !.cur = n]
  IN  IF asked[n] # "malformed" THEN Router(d, asked[n]) ELSE ServiceError(d, 400)

\* parse_request.  The request line begins where the buffer does: units that
\* a handler left there spoil it.
ParseRequest(c) ==
  LET i == FirstHead(c.buffer)
      n == c.buffer[i].n
      d == [c EXCEPT !.buffer = Drop(@, i), !.cur = n]
  IN  IF i = 1 /\ asked[n] # "malformed" THEN Router(d, asked[n])
                                         ELSE ServiceError(d, 400)

\* The completion handler of read().
ReadDone(c, of, result) ==
  LET d == [CancelTimer(c) EXCEPT !.open = @ /\ result = "ok"] IN
  CASE result = "aborted"                 -> d
    [] result = "failed" /\ of = "head"   -> ServiceError([d EXCEPT !.buffer = <<>>], 400)
    [] result = "failed" /\ of = "body"   -> SessionError(d, d.cur)
    [] result = "ok" /\ of = "head"       -> ParseRequest(d)
    [] result = "ok" /\ of = "body"       -> FetchBody(d)

\* The front of m_pending_writes is left there, with one more retry.
Retried(p) == [p EXCEPT ![1].tries = @ + 1]

\* Mutated forms of the completion handler of write(): one retry more than
\* allowed, a retry of what succeeded, a read after a failure, a socket closed
\* after every response.
WrittenOneMore(c, result) ==
  LET r == Head(c.pending)
      d == [CancelTimer(c) EXCEPT
              !.pending = IF result = "failed" /\ r.tries <= MaxRetries
                          THEN Retried(@) ELSE Tail(@)]
      e == CASE result = "aborted"                  -> d
             [] result = "failed"                   -> SessionError(d, r.n)
             [] result = "ok" /\ r.then = "close"  -> CloseSocket(d, "answer")
             [] OTHER ->
                  Post(d, [op |-> "start_read", of |-> "head", need |-> 0])
  IN  IF e.pending = <<>> THEN e ELSE Write(e)

WrittenAgain(c, result) ==
  LET r == Head(c.pending)
      d == [CancelTimer(c) EXCEPT
              !.pending = IF r.tries < MaxRetries
                          THEN Retried(@) ELSE Tail(@)]
      e == CASE result = "aborted"                  -> d
             [] result = "failed"                   -> SessionError(d, r.n)
             [] result = "ok" /\ r.then = "close"  -> CloseSocket(d, "answer")
             [] OTHER ->
                  Post(d, [op |-> "start_read", of |-> "head", need |-> 0])
  IN  IF e.pending = <<>> THEN e ELSE Write(e)

WrittenReadsOn(c, result) ==
  LET r == Head(c.pending)
      d == [CancelTimer(c) EXCEPT
              !.pending = IF result = "failed" /\ r.tries < MaxRetries
                          THEN Retried(@) ELSE Tail(@)]
      e == CASE result = "aborted"                  -> d
             [] result = "failed"                   -> SessionError(
                  Post(d, [op |-> "start_read", of |-> "head", need |-> 0]), r.n)
             [] result = "ok" /\ r.then = "close"  -> CloseSocket(d, "answer")
             [] OTHER ->
                  Post(d, [op |-> "start_read", of |-> "head", need |-> 0])
  IN  IF e.pending = <<>> THEN e ELSE Write(e)

WrittenCloses(c, result) ==
  LET r == Head(c.pending)
      d == [CancelTimer(c) EXCEPT
              !.pending = IF result = "failed" /\ r.tries < MaxRetries
                          THEN Retried(@) ELSE Tail(@)]
      e == CASE result = "aborted"                  -> d
             [] result = "failed"                   -> SessionError(d, r.n)
             [] result = "ok" /\ r.then \in {"read", "close"}  -> CloseSocket(d, "answer")
             [] OTHER ->
                  Post(d, [op |-> "start_read", of |-> "head", need |-> 0])
  IN  IF e.pending = <<>> THEN e ELSE Write(e)

\* The completion handler of write(): retry or drop the front, call back, and
\* go on with what is pending.
Written(c, result) ==
  LET r == Head(c.pending)
      d == [CancelTimer(c) EXCEPT
              !.pending = IF result = "failed" /\ r.tries < MaxRetries
                          THEN Retried(@) ELSE Tail(@)]
      e == CASE result = "aborted"                  -> d
             [] result = "failed"                   -> SessionError(d, r.n)
             [] result = "ok" /\ r.then = "close"   -> CloseSocket(d, "answer")
             [] result = "ok" /\ r.then = "read"    ->
                  Post(d, [op |-> "start_read", of |-> "head", need |-> 0])
  IN  IF e.pending = <<>> THEN e ELSE Write(e)

\* connection_timeout_handler: unless the timer was set again meanwhile.
TimeoutHandler(c) ==
  IF ~c.expired THEN c
  ELSE CloseSocket(c, IF c.reading # "none" \/ c.writing THEN "stalled" ELSE "raced")
------------------------------------------------------------------------------
(* The strand runs the oldest callback.                                     *)

Run(op) ==
  /\ conn.strand # <<>> /\ Head(conn.strand).op = op
  /\ UNCHANGED <<client, log, errors>>

Popped == [conn EXCEPT !.strand = Tail(@)]

RunStartRead ==
  /\ Run("start_read")
  /\ LET h == Head(conn.strand) IN conn' = Read(Popped, h.of, h.need)

RunWriteHelper ==
  /\ Run("write_helper")
  /\ conn' = WriteHelper(Popped, Head(conn.strand).resp)

RunReadDone ==
  /\ Run("read")
  /\ LET h == Head(conn.strand) IN conn' = ReadDone(Popped, h.of, h.result)

RunWritten ==
  /\ Run("written")
  /\ conn' = Written(Popped, Head(conn.strand).result)

RunTimeout ==
  /\ Run("timeout")
  /\ conn' = TimeoutHandler(Popped)

StrandStep ==
  RunStartRead \/ RunWriteHelper \/ RunReadDone \/ RunWritten \/ RunTimeout
------------------------------------------------------------------------------
(* Operations complete and post their handlers.                             *)

Enough(k) ==
  IF conn.reading = "head"
  THEN /\ HasHead(conn.buffer \o SubSeq(wire, 1, k))
       /\ HasHead(conn.buffer) => k = 0
  ELSE k >= conn.need

\* async_read_until or async_read has what it needs, and maybe more.
ReadCompletes(k) ==
  /\ conn.reading # "none" /\ Enough(k)
  /\ conn.fd \/ k = 0
  /\ conn' = Post([conn EXCEPT !.buffer = @ \o SubSeq(wire, 1, k), !.reading = "none"],
                  [op |-> "read", of |-> conn.reading, result |-> "ok"])
  /\ wire' = Drop(wire, k)
  /\ UNCHANGED <<asked, owes, gone, log, errors>>

\* End of file or reset, or a descriptor that is closed.
ReadFails ==
  /\ conn.reading # "none" /\ ~Enough(0)
  /\ gone \/ ~conn.fd
  /\ conn' = Post([conn EXCEPT !.reading = "none"],
                  [op |-> "read", of |-> conn.reading, result |-> "failed"])
  /\ UNCHANGED <<client, log, errors>>

WriteCompletes ==
  /\ conn.writing
  /\ conn' = Post([conn EXCEPT !.writing = FALSE], [op |-> "written", result |-> "ok"])
  /\ log' = IF gone THEN log
            ELSE Append(log, [n |-> conn.pending[1].n, status |-> conn.pending[1].status])
  /\ UNCHANGED <<client, errors>>

WriteFails ==
  /\ conn.writing /\ (gone \/ errors < MaxErrors)
  /\ conn' = Post([conn EXCEPT !.writing = FALSE], [op |-> "written", result |-> "failed"])
  /\ errors' = IF gone THEN errors ELSE errors + 1
  /\ UNCHANGED <<client, log>>

Posted(op) == {i \in DOMAIN conn.strand : conn.strand[i].op = op}

\* The time of the timer comes.  Its handler is posted if it still waits; if
\* it was cancelled, only a handler posted earlier can notice.
Expire ==
  /\ conn.timer \/ (~conn.expired /\ Posted("timeout") # {})
  /\ conn' = LET d == [conn EXCEPT !.timer = FALSE, !.expired = TRUE]
             IN  IF conn.timer THEN Post(d, [op |-> "timeout"]) ELSE d
  /\ UNCHANGED <<client, log, errors>>

\* No operation, callback or pending write refers to the session: it is
\* destroyed, and the descriptor with it.
Idle ==
  conn.strand = <<>> /\ conn.reading = "none" /\ ~conn.writing /\ conn.pending = <<>>

Destroy ==
  /\ Idle /\ conn.fd
  /\ conn' = [conn EXCEPT !.open = FALSE, !.fd = FALSE, !.ended = "dropped"]
  /\ UNCHANGED <<client, log, errors>>
------------------------------------------------------------------------------
(* The client.                                                              *)

Send(kind) ==
  /\ ~gone /\ owes = 0 /\ Len(asked) < MaxRequests /\ Len(asked) < Len(log) + Window
  /\ asked' = Append(asked, kind)
  /\ owes' = BodyLength(kind)
  /\ wire' = Append(wire, HeadOf(Len(asked) + 1))
  /\ UNCHANGED <<conn, gone, log, errors>>

SendBody ==
  /\ ~gone /\ owes > 0
  /\ owes' = owes - 1
  /\ wire' = Append(wire, BodyOf(Len(asked)))
  /\ UNCHANGED <<conn, asked, gone, log, errors>>

Leave ==
  /\ ~gone
  /\ gone' = TRUE
  /\ UNCHANGED <<conn, asked, owes, wire, log, errors>>

\* create_ipc_session has posted the first read.
Init ==
  /\ conn = [open |-> TRUE, fd |-> TRUE, timer |-> FALSE, expired |-> FALSE,
             strand |-> <<[op |-> "start_read", of |-> "head", need |-> 0]>>,
             reading |-> "none", need |-> 0, writing |-> FALSE, pending |-> <<>>,
             buffer |-> <<>>, cur |-> 0, handled |-> FALSE, queued |-> <<>>,
             ended |-> "no"]
  /\ asked = <<>> /\ owes = 0 /\ wire = <<>> /\ gone = FALSE
  /\ log = <<>>
  /\ errors = 0

Next ==
  \/ RunStartRead \/ RunWriteHelper \/ RunReadDone \/ RunWritten \/ RunTimeout
  \/ \E k \in 0..Len(wire) : ReadCompletes(k)
  \/ ReadFails \/ WriteCompletes \/ WriteFails \/ Expire \/ Destroy
  \/ \E kind \in Kinds : Send(kind)
  \/ SendBody \/ Leave

Spec == Init /\ [][Next]_vars

\* Callbacks run, data that is there is read, time passes, and a write to a
\* client that has gone ends.  Nothing is assumed of a client that stays: it
\* may stop sending or receiving.
FairSpec ==
  /\ Spec
  /\ WF_vars(StrandStep) /\ WF_vars(Expire) /\ WF_vars(Destroy)
  /\ WF_vars(ReadFails \/ \E k \in 0..Len(wire) : ReadCompletes(k))
  /\ WF_vars(gone /\ (WriteCompletes \/ WriteFails))
------------------------------------------------------------------------------
Results == {"ok", "failed", "aborted"}
Units   == [part : {"head", "body"}, n : 1..MaxRequests]
Resps   == [n : 0..MaxRequests, status : {200, 202, 400, 404, 405, 500},
            then : {"read", "close"}, tries : 0..MaxRetries]
Handlers ==
  [op : {"start_read"}, of : {"head", "body"}, need : 0..Length]
    \cup [op : {"write_helper"}, resp : Resps]
    \cup [op : {"read"}, of : {"head", "body"}, result : Results]
    \cup [op : {"written"}, result : Results]
    \cup [op : {"timeout"}]

\* The members of the socket and of the session have their types.
TypeOK ==
  /\ conn \in [open : BOOLEAN, fd : BOOLEAN, timer : BOOLEAN, expired : BOOLEAN,
               strand : Seq(Handlers), reading : {"none", "head", "body"},
               need : 0..Length, writing : BOOLEAN, pending : Seq(Resps),
               buffer : Seq(Units), cur : 0..MaxRequests, handled : BOOLEAN,
               queued : Seq([n : 0..MaxRequests, body : Seq(Units)]),
               ended : {"no", "answer", "stalled", "raced", "dropped"}]
  /\ asked \in Seq(Kinds) /\ owes \in 0..Length /\ wire \in Seq(Units)
  /\ gone \in BOOLEAN /\ errors \in 0..MaxErrors
  /\ log \in Seq([n : 0..MaxRequests, status : {200, 202, 400, 404, 405, 500}])

\* One write is under way exactly when a response is pending: async_write is
\* never called twice at a time, and the completion handler always finds
\* the front of m_pending_writes that it takes, whatever was retried, dropped
\* or aborted before.
OneWrite ==
  Cardinality(Posted("written")) + (IF conn.writing THEN 1 ELSE 0)
    = (IF conn.pending = <<>> THEN 0 ELSE 1)

\* At most one thing can make the connection handle a request: a read that is
\* asked for, under way or complete, or a response after which it reads on.
\* The session's single Request is never in use twice.
OneRequest ==
  LET readOn(s) == Cardinality({i \in DOMAIN s : s[i].then = "read"})
      waiting   == {i \in Posted("write_helper") : conn.strand[i].resp.then = "read"}
  IN  Cardinality(Posted("start_read")) + Cardinality(Posted("read"))
        + (IF conn.reading = "none" THEN 0 ELSE 1)
        + readOn(conn.pending) + Cardinality(waiting) <= 1

\* Unless a write failed: the i-th response answers the i-th request.
InOrder == errors = 0 => \A i \in DOMAIN log : log[i].n = i

\* A payment is enqueued once and with its own body, never with a part of
\* another request, however the units were cut into reads.
OwnBody ==
  /\ \A i \in DOMAIN conn.queued :
       /\ asked[conn.queued[i].n] = "payment"
       /\ conn.queued[i].body = [u \in 1..Length |-> BodyOf(conn.queued[i].n)]
  /\ \A i, j \in DOMAIN conn.queued : conn.queued[i].n = conn.queued[j].n => i = j

\* A request gets the answer of its kind.  The exceptions: a 400 after a
\* request to /purge-payments with a body, which the handler leaves in the
\* buffer, and a 500 after a failed write.
RightAnswer ==
  \A i \in DOMAIN log :
    LET n == log[i].n IN
    \/ log[i].status = Status(asked[n])
    \/ log[i].status = 400 /\ \E m \in 1..(n - 1) : asked[m] = "purgeBody"
    \/ log[i].status = 500 /\ (errors > 0 \/ gone)

\* A payment that was enqueued is answered, or its answer is on its way,
\* unless the client left, a write failed, or the timer closed the socket:
\* on a client that does not receive, or because its handler was already
\* posted when the request arrived.
AcceptedIsAnswered ==
  \A i \in DOMAIN conn.queued :
    LET n == conn.queued[i].n IN
    \/ \E j \in DOMAIN log : log[j] = [n |-> n, status |-> 202]
    \/ \E j \in DOMAIN conn.pending : conn.pending[j].n = n
    \/ \E j \in Posted("write_helper") : conn.strand[j].resp.n = n
    \/ gone \/ errors > 0 \/ conn.ended \in {"stalled", "raced"}

\* The server closes the connection of a client that stays only after the
\* answer to a request whose handler closes (every response announces
\* "Connection: keep-alive"), after a timeout or a failed write, or because
\* it met a body that was left in the buffer.
CloseExplained ==
  ~conn.fd /\ ~gone /\ errors = 0 =>
    \/ conn.ended \in {"stalled", "raced"}
    \/ /\ log # <<>>
       /\ \/ Closing(asked[log[Len(log)].n])
          \/ log[Len(log)].status = 400

\* Unless a write failed: while a read or a write is under way the timer runs,
\* or it has expired and its handler is about to close the socket.  Read and
\* write use one timer, which either's completion cancels: it is enough only
\* because no read is under way beside a write.  After a failed write one is:
\* callback and retry both go on.
TimerGuards ==
  errors = 0 /\ ~gone /\ (conn.reading # "none" \/ conn.writing) =>
    \/ conn.timer
    \/ conn.expired /\ Posted("timeout") # {}

\* No request is left hanging: it is answered or the connection is closed,
\* even if the client stops in the middle of a body or does not receive.  The
\* exception is a failed write to a client that stays and does not receive:
\* the response that is still pending may have lost its timer.
EveryRequestResolved ==
  \A n \in 1..MaxRequests :
    (Len(asked) >= n)
      ~> (~conn.fd \/ errors > 0 \/ \E i \in DOMAIN log : log[i].n = n)
==============================================================================
