--------------------------- MODULE ConnectionProofs ---------------------------
(***************************************************************************)
(* What holds of a connection for every number of requests, retries and    *)
(* failures, every length of a body and every way to cut it into reads,    *)
(* whatever fails: the members have their types, and one write and one     *)
(* request are under way at a time (IInv).  Then what a read, and every    *)
(* other handler, does to the place in what the client sends: the units in *)
(* the buffer and on the wire, taken together, are the rest of the         *)
(* requests, in order and each with its body, and begin where the next     *)
(* read expects them to.                                                   *)
(*                                                                         *)
(* A fact that only one proof needs is a named step of that proof.         *)
(***************************************************************************)
EXTENDS Connection, TLAPS

Statuses == {200, 202, 400, 404, 405, 500}
Bodies   == [n : 0..MaxRequests, body : Seq(Units)]
Conns    == [open : BOOLEAN, fd : BOOLEAN, timer : BOOLEAN, expired : BOOLEAN,
             strand : Seq(Handlers), reading : {"none", "head", "body"},
             need : 0..Length, writing : BOOLEAN, pending : Seq(Resps),
             buffer : Seq(Units), cur : 0..MaxRequests, handled : BOOLEAN,
             queued : Seq(Bodies),
             ended : {"no", "answer", "stalled", "raced", "dropped"}]

(***************************************************************************)
(* Counting in sequences: no member of T, or exactly one.                  *)
(***************************************************************************)

Zero(s, T) == \A i \in DOMAIN s : s[i] \notin T
One(s, T)  == \E i \in DOMAIN s : s[i] \in T /\ \A j \in DOMAIN s : s[j] \in T => j = i

\* The empty sequence has none.
LEMMA ZeroEmpty ==
  ASSUME NEW T
  PROVE  Zero(<<>>, T)
BY SMT, SMTT(20) DEF Zero

\* Adding an element.
LEMMA CountAppend ==
  ASSUME NEW S, NEW s \in Seq(S), NEW e \in S, NEW T
  PROVE  /\ Append(s, e) \in Seq(S) /\ Append(s, e) # <<>>
         /\ Zero(s, T) /\ e \notin T => Zero(Append(s, e), T)
         /\ One(s, T) /\ e \notin T => One(Append(s, e), T)
         /\ Zero(s, T) /\ e \in T => One(Append(s, e), T)
<1>1. /\ Append(s, e) \in Seq(S) /\ Append(s, e) # <<>>
      /\ DOMAIN Append(s, e) = 1..(Len(s) + 1) /\ DOMAIN s = 1..Len(s) /\ Len(s) \in Nat
      /\ Append(s, e)[Len(s) + 1] = e
      /\ \A i \in DOMAIN s : Append(s, e)[i] = s[i]
  BY SMT, SMTT(20)
<1>2. \A i \in DOMAIN Append(s, e) : i \in DOMAIN s \/ i = Len(s) + 1
  BY <1>1, SMT, SMTT(20)
<1>3. Len(s) + 1 \in DOMAIN Append(s, e) /\ Len(s) + 1 \notin DOMAIN s
      /\ \A i \in DOMAIN s : i \in DOMAIN Append(s, e)
  BY <1>1, SMT, SMTT(20)
<1> QED
  BY <1>1, <1>2, <1>3, SMT, SMTT(20) DEF Zero, One

\* Taking the first element away.
LEMMA CountTail ==
  ASSUME NEW S, NEW s \in Seq(S), s # <<>>, NEW T
  PROVE  /\ Head(s) \in S /\ Tail(s) \in Seq(S) /\ Head(s) = s[1] /\ 1 \in DOMAIN s
         /\ Zero(s, T) => Zero(Tail(s), T) /\ Head(s) \notin T
         /\ One(s, T) /\ Head(s) \in T => Zero(Tail(s), T)
         /\ One(s, T) /\ Head(s) \notin T => One(Tail(s), T)
<1>1. /\ Head(s) \in S /\ Tail(s) \in Seq(S) /\ Head(s) = s[1]
      /\ DOMAIN s = 1..Len(s) /\ Len(s) \in Nat /\ Len(s) > 0
      /\ DOMAIN Tail(s) = 1..(Len(s) - 1)
      /\ \A i \in DOMAIN Tail(s) : Tail(s)[i] = s[i + 1]
  BY SMT, SMTT(20)
<1>2. 1 \in DOMAIN s
  BY <1>1, SMT, SMTT(20)
<1>3. \A i \in DOMAIN Tail(s) : i + 1 \in DOMAIN s /\ i + 1 # 1 /\ i \in Nat
  BY <1>1, SMT, SMTT(20)
<1>4. Zero(s, T) => Zero(Tail(s), T) /\ Head(s) \notin T
  BY <1>1, <1>2, <1>3 DEF Zero
<1>5. One(s, T) /\ Head(s) \in T => Zero(Tail(s), T)
  <2> SUFFICES ASSUME One(s, T), Head(s) \in T, NEW i \in DOMAIN Tail(s), Tail(s)[i] \in T
               PROVE  FALSE
    BY DEF Zero
  <2>1. s[i + 1] \in T /\ s[1] \in T
    BY <1>1
  <2> QED
    BY <1>2, <1>3, <2>1 DEF One
<1>6. One(s, T) /\ Head(s) \notin T => One(Tail(s), T)
  <2> SUFFICES ASSUME One(s, T), Head(s) \notin T
               PROVE  One(Tail(s), T)
    OBVIOUS
  <2>1. PICK k \in DOMAIN s : s[k] \in T /\ \A j \in DOMAIN s : s[j] \in T => j = k
    BY DEF One
  <2>2. k # 1 /\ k \in Nat
    BY <1>1, <2>1, SMT, SMTT(20)
  <2>3. k - 1 \in DOMAIN Tail(s) /\ (k - 1) + 1 = k
    BY <1>1, <2>1, <2>2, SMT, SMTT(20)
  <2>4. Tail(s)[k - 1] \in T
    BY <1>1, <2>1, <2>3
  <2>5. ASSUME NEW j \in DOMAIN Tail(s), Tail(s)[j] \in T
        PROVE  j = k - 1
    <3>1. j + 1 = k
      BY <1>1, <1>3, <2>1, <2>5
    <3> QED
      BY <1>3, <2>2, <3>1, SMT, SMTT(20)
  <2> QED
    BY <2>3, <2>4, <2>5 DEF One
<1> QED
  BY <1>1, <1>2, <1>4, <1>5, <1>6

\* Changing the first element without changing what it is.
LEMMA CountReplace ==
  ASSUME NEW S, NEW s \in Seq(S), s # <<>>, NEW e \in S, NEW T, e \in T <=> s[1] \in T
  PROVE  /\ [s EXCEPT ![1] = e] \in Seq(S) /\ [s EXCEPT ![1] = e] # <<>>
         /\ Zero(s, T) => Zero([s EXCEPT ![1] = e], T)
         /\ One(s, T) => One([s EXCEPT ![1] = e], T)
<1>1. /\ [s EXCEPT ![1] = e] \in Seq(S) /\ [s EXCEPT ![1] = e] # <<>>
      /\ DOMAIN [s EXCEPT ![1] = e] = DOMAIN s
  BY SMT, SMTT(20)
<1>2. 1 \in DOMAIN s /\ \A i \in DOMAIN s : [s EXCEPT ![1] = e][i] = IF i = 1 THEN e ELSE s[i]
  BY SMT, SMTT(20)
<1> QED
  BY <1>1, <1>2 DEF Zero, One

\* The cardinalities of the empty set and of a set with one member.
LEMMA CardSmall ==
  ASSUME NEW x
  PROVE  Cardinality({}) = 0 /\ Cardinality({x}) = 1
<1> DEFINE Count(S, f) ==
             f = [T \in SUBSET S |->
                    IF T = {} THEN 0 ELSE 1 + f[T \ {CHOOSE y : y \in T}]]
<1>1. ASSUME NEW S
      PROVE  Cardinality(S) = (CHOOSE f : Count(S, f))[S]
  BY Zenon DEF Cardinality
<1>2. ASSUME NEW S, NEW f, Count(S, f)
      PROVE  Count(S, CHOOSE g : Count(S, g))
  BY <1>2, Zenon
<1>3. Cardinality({}) = 0
  <2> DEFINE g == CHOOSE f : Count({}, f)
             e == [T \in SUBSET {} |-> 0]
  <2>1. Count({}, e)
    OBVIOUS
  <2>2. Count({}, g)
    BY <1>2, <2>1, Zenon
  <2> HIDE DEF g
  <2>3. g[{}] = 0
    BY <2>2
  <2> QED
    BY <1>1, <2>3, Zenon DEF g
<1>4. Cardinality({x}) = 1
  <2> DEFINE g == CHOOSE f : Count({x}, f)
             e == [T \in SUBSET {x} |-> IF T = {} THEN 0 ELSE 1]
  <2>1. \A T \in SUBSET {x} : T = {} \/ (T = {x} /\ (CHOOSE y : y \in T) = x)
    OBVIOUS
  <2>2. Count({x}, e)
    <3>1. ASSUME NEW T \in SUBSET {x}
          PROVE  e[T] = IF T = {} THEN 0 ELSE 1 + e[T \ {CHOOSE y : y \in T}]
      BY <2>1, SMT, SMTT(20)
    <3> QED
      BY <3>1
  <2>3. Count({x}, g)
    BY <1>2, <2>2, Zenon
  <2> HIDE DEF g
  <2>4. g[{}] = 0
    BY <2>3
  <2>5. g[{x}] = 1 + g[{}]
    <3>1. {x} \ {CHOOSE y : y \in {x}} = {}
      BY <2>1
    <3>2. {x} \in SUBSET {x} /\ {x} # {}
      OBVIOUS
    <3> QED
      BY <2>3, <3>1, <3>2
  <2>6. g[{x}] = 1
    BY <2>4, <2>5, SMT, SMTT(20)
  <2> QED
    BY <1>1, <2>6, Zenon DEF g
<1> QED
  BY <1>3, <1>4

\* One or none, as cardinalities.
LEMMA CountCard ==
  ASSUME NEW s, NEW T
  PROVE  /\ Zero(s, T) => Cardinality({i \in DOMAIN s : s[i] \in T}) = 0
         /\ One(s, T) => Cardinality({i \in DOMAIN s : s[i] \in T}) = 1
<1>1. Zero(s, T) => {i \in DOMAIN s : s[i] \in T} = {}
  BY DEF Zero
<1>2. ASSUME One(s, T)
      PROVE  \E i : {j \in DOMAIN s : s[j] \in T} = {i}
  BY <1>2 DEF One
<1> QED
  BY <1>1, <1>2, CardSmall, Zenon

(***************************************************************************)
(* Handlers by what they stand for.                                        *)
(***************************************************************************)

\* The completion handlers of writes; what can make the connection handle a
\* request; responses that do not read on.
Marks   == {h \in Handlers : h.op = "written"}
Toks    == {h \in Handlers : \/ h.op \in {"start_read", "read"}
                             \/ h.op = "write_helper" /\ h.resp.then = "read"}
Closers == {h \in Handlers : h.op = "write_helper" /\ h.resp.then = "close"}
Ons     == {r \in Resps : r.then = "read"}

\* What a handler relies on: the buffer b has what was waited for.
GoodTok(h, b) ==
  /\ h.op = "read" /\ h.result = "ok" /\ h.of = "head" => HasHead(b)
  /\ h.op = "read" /\ h.result = "ok" /\ h.of = "body" => Len(b) >= Length
  /\ h.op = "start_read" /\ h.of = "body" => h.need + Len(b) >= Length

\* Handlers that a request's callbacks may post.
Movers(b) == {h \in Handlers : h \notin Marks /\ GoodTok(h, b)}

\* A read request.
LEMMA StartReadHandler ==
  ASSUME NEW of \in {"head", "body"}, NEW need \in 0..Length
  PROVE  LET h == [op |-> "start_read", of |-> of, need |-> need]
         IN  h \in Handlers /\ h \in Toks /\ h \notin Marks
BY DEF Handlers, Toks, Marks

\* A completed read.
LEMMA ReadHandler ==
  ASSUME NEW of \in {"head", "body"}, NEW result \in Results
  PROVE  LET h == [op |-> "read", of |-> of, result |-> result]
         IN  h \in Handlers /\ h \in Toks /\ h \notin Marks
BY DEF Handlers, Toks, Marks

\* A completed write, and the timer.
LEMMA WrittenHandler ==
  /\ \A result \in Results : LET h == [op |-> "written", result |-> result]
                             IN  h \in Handlers /\ h \notin Toks /\ h \in Marks
  /\ LET h == [op |-> "timeout"] IN h \in Handlers /\ h \notin Toks /\ h \notin Marks
BY DEF Handlers, Toks, Marks, Results

\* A response to be written.
LEMMA WriteHandler ==
  ASSUME NEW r \in Resps
  PROVE  LET h == [op |-> "write_helper", resp |-> r]
         IN  /\ h \in Handlers /\ h \notin Marks /\ \A b : h \in Movers(b)
             /\ r.then = "read" => h \in Toks
             /\ r.then = "close" => h \in Closers
BY DEF Handlers, Toks, Marks, Closers, Movers, GoodTok

\* Only what can make the connection handle a request relies on the buffer.
LEMMA OtherHandler ==
  ASSUME NEW h \in Handlers, h \notin Toks, NEW b
  PROVE  GoodTok(h, b)
BY DEF Toks, GoodTok

\* The members of a handler, by its kind.
LEMMA HandlerParts ==
  ASSUME NEW h \in Handlers
  PROVE  /\ h.op = "start_read" => h.of \in {"head", "body"} /\ h.need \in 0..Length /\ h \in Toks
         /\ h.op = "write_helper" => /\ h.resp \in Resps
                                     /\ h \in Toks <=> h.resp.then = "read"
         /\ h.op = "read" => h.of \in {"head", "body"} /\ h.result \in Results /\ h \in Toks
         /\ h.op = "written" => h.result \in Results /\ h \notin Toks
         /\ h.op = "timeout" => h \notin Toks
         /\ h.op = "written" <=> h \in Marks
BY DEF Handlers, Toks, Marks

\* Dropping units from the front.
LEMMA DropSeq ==
  ASSUME NEW S, NEW s \in Seq(S), NEW k \in 0..Len(s)
  PROVE  /\ Drop(s, k) \in Seq(S) /\ Len(Drop(s, k)) = Len(s) - k
         /\ \A i \in DOMAIN Drop(s, k) : i + k \in DOMAIN s /\ Drop(s, k)[i] = s[i + k]
BY SMT, SMTT(20) DEF Drop

\* The front of a sequence.
LEMMA FrontSeq ==
  ASSUME NEW S, NEW s \in Seq(S), NEW k \in 0..Len(s)
  PROVE  /\ SubSeq(s, 1, k) \in Seq(S) /\ Len(SubSeq(s, 1, k)) = k
         /\ \A i \in DOMAIN SubSeq(s, 1, k) : i \in DOMAIN s /\ SubSeq(s, 1, k)[i] = s[i]
BY SMT, SMTT(20)

\* The first head, when there is one.
LEMMA HeadFound ==
  ASSUME NEW s \in Seq(Units), HasHead(s)
  PROVE  FirstHead(s) \in DOMAIN s /\ s[FirstHead(s)].part = "head"
BY DEF HasHead, FirstHead, Match

(***************************************************************************)
(* What the callbacks of a request do to a connection: they post at most   *)
(* one handler, and leave reads and writes alone.                          *)
(***************************************************************************)

Same(c, d) ==
  /\ d.pending = c.pending /\ d.writing = c.writing
  /\ d.reading = c.reading /\ d.need = c.need

Adds(c, d, H) ==
  /\ d \in Conns /\ Same(c, d)
  /\ d.strand = c.strand \/ \E h \in H : d.strand = Append(c.strand, h)
(***************************************************************************)
(* The callbacks of a completed read.                                      *)
(***************************************************************************)

\* Units belong to requests that were sent.
Bounded(b) == \A i \in DOMAIN b : b[i].n <= Len(asked)

Req(c, d) == Adds(c, d, Movers(d.buffer)) /\ Bounded(d.buffer)

\* Answers of known kinds.
LEMMA StatusType ==
  ASSUME NEW kind \in Kinds
  PROVE  Status(kind) \in Statuses
BY ConnectionAssumption, SMT, SMTT(20) DEF Status, Statuses, AllKinds

(***************************************************************************)
(* The invariant.                                                          *)
(***************************************************************************)

\* Responses are pending exactly if one write is under way or complete.
Lone(c) ==
  \/ c.pending = <<>> /\ ~c.writing /\ Zero(c.strand, Marks)
  \/ c.pending # <<>> /\ c.writing /\ Zero(c.strand, Marks)
  \/ c.pending # <<>> /\ ~c.writing /\ One(c.strand, Marks)

\* Inside the completion handler of a write.
Owed(c) == ~c.writing /\ Zero(c.strand, Marks)

\* Nothing, or one thing, can make the connection handle a request.
Free(c) == c.reading = "none" /\ Zero(c.strand, Toks) /\ Zero(c.pending, Ons)
AtMost(c) ==
  \/ Free(c)
  \/ c.reading # "none" /\ Zero(c.strand, Toks) /\ Zero(c.pending, Ons)
  \/ c.reading = "none" /\ One(c.strand, Toks) /\ Zero(c.pending, Ons)
  \/ c.reading = "none" /\ Zero(c.strand, Toks) /\ One(c.pending, Ons)

\* The buffer has what the completed read was to get, or will have.
Fills(c) ==
  /\ \A i \in DOMAIN c.strand : GoodTok(c.strand[i], c.buffer)
  /\ c.reading = "body" => c.need + Len(c.buffer) >= Length

Good(c) == c \in Conns /\ AtMost(c) /\ Fills(c)

\* Adding a handler whose needs are met keeps all needs met.
LEMMA FillsAppend ==
  ASSUME NEW s \in Seq(Handlers), NEW h \in Handlers, NEW b, GoodTok(h, b),
         \A i \in DOMAIN s : GoodTok(s[i], b)
  PROVE  \A i \in DOMAIN Append(s, h) : GoodTok(Append(s, h)[i], b)
<1>1. ASSUME NEW i \in DOMAIN Append(s, h)
      PROVE  GoodTok(Append(s, h)[i], b)
  <2>1. (i \in DOMAIN s /\ Append(s, h)[i] = s[i]) \/ Append(s, h)[i] = h
    BY SMT, SMTT(20)
  <2> QED
    BY <2>1
<1> QED
  BY <1>1

\* Taking the first handler leaves the needs of the others met.
LEMMA FillsTail ==
  ASSUME NEW s \in Seq(Handlers), s # <<>>, NEW b, \A i \in DOMAIN s : GoodTok(s[i], b)
  PROVE  GoodTok(Head(s), b) /\ \A i \in DOMAIN Tail(s) : GoodTok(Tail(s)[i], b)
<1>1. 1 \in DOMAIN s /\ Head(s) = s[1]
  BY SMT, SMTT(20)
<1>2. \A i \in DOMAIN Tail(s) : i + 1 \in DOMAIN s /\ Tail(s)[i] = s[i + 1]
  BY SMT, SMTT(20)
<1> QED
  BY <1>1, <1>2

(***************************************************************************)
(* The socket's operations.                                                *)
(***************************************************************************)

\* close(): what was under way becomes a completed operation.
LEMMA CloseKeeps ==
  ASSUME NEW c \in Conns, NEW why \in {"answer", "stalled", "raced"}
  PROVE  LET d == CloseSocket(c, why) IN
         /\ d \in Conns /\ d.buffer = c.buffer
         /\ Good(c) => Good(d)
         /\ Lone(c) => Lone(d)
         /\ Owed(c) => Owed(d)
<1> DEFINE rd == [op |-> "read", of |-> c.reading, result |-> "aborted"]
           wr == [op |-> "written", result |-> "aborted"]
           s1 == IF c.reading = "none" THEN c.strand ELSE Append(c.strand, rd)
           s2 == IF c.writing THEN Append(s1, wr) ELSE s1
           d  == CloseSocket(c, why)
<1>1. /\ c.strand \in Seq(Handlers) /\ c.reading \in {"none", "head", "body"}
      /\ c.ended \in {"no", "answer", "stalled", "raced", "dropped"}
  BY DEF Conns
<1>2. /\ wr \in Handlers /\ wr \notin Toks /\ wr \in Marks /\ GoodTok(wr, c.buffer)
  BY WrittenHandler, OtherHandler DEF Results
<1>3. c.reading # "none" => /\ rd \in Handlers /\ rd \in Toks /\ rd \notin Marks
                            /\ GoodTok(rd, c.buffer)
  <2>1. c.reading # "none" => /\ rd \in Handlers /\ rd \in Toks /\ rd \notin Marks
    BY <1>1, ReadHandler DEF Results
  <2>2. GoodTok(rd, c.buffer)
    BY DEF GoodTok
  <2> QED
    BY <2>1, <2>2
<1> HIDE DEF rd, wr
<1>4. /\ s1 \in Seq(Handlers)
      /\ Zero(c.strand, Marks) => Zero(s1, Marks)
      /\ One(c.strand, Marks) => One(s1, Marks)
      /\ (\A i \in DOMAIN c.strand : GoodTok(c.strand[i], c.buffer))
           => \A i \in DOMAIN s1 : GoodTok(s1[i], c.buffer)
      /\ c.reading = "none" => s1 = c.strand
      /\ c.reading # "none" /\ Zero(c.strand, Toks) => One(s1, Toks)
  BY <1>1, <1>3, CountAppend, FillsAppend
<1> HIDE DEF s1
<1>5. /\ s2 \in Seq(Handlers)
      /\ Zero(s1, Toks) => Zero(s2, Toks)
      /\ One(s1, Toks) => One(s2, Toks)
      /\ (\A i \in DOMAIN s1 : GoodTok(s1[i], c.buffer))
           => \A i \in DOMAIN s2 : GoodTok(s2[i], c.buffer)
      /\ ~c.writing => s2 = s1
      /\ c.writing /\ Zero(s1, Marks) => One(s2, Marks)
  BY <1>2, <1>4, CountAppend, FillsAppend
<1> HIDE DEF s2
<1>6. /\ d \in Conns /\ d.buffer = c.buffer /\ d.strand = s2
      /\ d.reading = "none" /\ d.writing = FALSE /\ d.pending = c.pending
  <2>1. c.strand \o (IF c.reading = "none" THEN <<>> ELSE <<rd>>) = s1
    <3>1. c.strand \o <<>> = c.strand
      BY <1>1, SMT, SMTT(20)
    <3>2. c.reading # "none" => c.strand \o <<rd>> = Append(c.strand, rd)
      BY <1>1, <1>3, SMT, SMTT(20)
    <3> QED
      BY <3>1, <3>2, Zenon DEF s1
  <2>2. s1 \o (IF c.writing THEN <<wr>> ELSE <<>>) = s2
    <3>1. s1 \o <<wr>> = Append(s1, wr) /\ s1 \o <<>> = s1
      BY <1>2, <1>4, SMT, SMTT(20)
    <3> QED
      BY <3>1, Zenon DEF s2
  <2>3. c.strand \o (IF c.reading = "none" THEN <<>>
                     ELSE <<[op |-> "read", of |-> c.reading, result |-> "aborted"]>>)
                 \o (IF c.writing THEN <<[op |-> "written", result |-> "aborted"]>>
                     ELSE <<>>) = s2
    BY <2>1, <2>2, Zenon DEF rd, wr
  <2>4. d = [CancelTimer(c) EXCEPT !.open = FALSE, !.fd = FALSE,
               !.ended = IF c.ended = "no" THEN why ELSE c.ended,
               !.reading = "none", !.writing = FALSE, !.strand = s2]
    <3>1. CancelTimer(c).strand = c.strand /\ CancelTimer(c).ended = c.ended
      BY DEF CancelTimer, Conns
    <3> QED
      BY <2>3, <3>1, Zenon DEF CloseSocket, CancelTimer, Conns
  <2> HIDE DEF d
  <2> QED
    BY <1>1, <1>5, <2>4, ZenonT(40) DEF CancelTimer, Conns
<1> HIDE DEF d
<1>7. Good(c) => Good(d)
  BY <1>4, <1>5, <1>6 DEF Good, AtMost, Free, Fills
<1>8. Lone(c) => Lone(d)
  BY <1>4, <1>5, <1>6 DEF Lone
<1>9. Owed(c) => Owed(d)
  BY <1>4, <1>5, <1>6 DEF Owed
<1> QED
  BY <1>6, <1>7, <1>8, <1>9 DEF d

\* The strand takes its oldest handler.
LEMMA PoppedKeeps ==
  ASSUME Good(conn), Lone(conn), conn.strand # <<>>
  PROVE  LET h == Head(conn.strand) IN
         /\ Good(Popped) /\ Popped.buffer = conn.buffer
         /\ h \in Handlers /\ GoodTok(h, conn.buffer)
         /\ h \in Toks => Free(Popped)
         /\ h \in Marks => Owed(Popped) /\ Popped.pending # <<>>
         /\ h \notin Marks => Lone(Popped)
<1> DEFINE s == conn.strand
           h == Head(s)
           p == Popped
<1>1. conn \in Conns /\ s \in Seq(Handlers) /\ s # <<>>
  BY DEF Good, Conns
<1>2. /\ h \in Handlers /\ Tail(s) \in Seq(Handlers)
      /\ \A T : /\ Zero(s, T) => Zero(Tail(s), T) /\ h \notin T
                /\ One(s, T) /\ h \in T => Zero(Tail(s), T)
                /\ One(s, T) /\ h \notin T => One(Tail(s), T)
  BY <1>1, CountTail
<1>3. GoodTok(h, conn.buffer) /\ \A i \in DOMAIN Tail(s) : GoodTok(Tail(s)[i], conn.buffer)
  BY <1>1, FillsTail DEF Good, Fills
<1> HIDE DEF h
<1>4. /\ p \in Conns /\ p.strand = Tail(s) /\ p.buffer = conn.buffer /\ Same(conn, p)
  BY <1>1, <1>2, Zenon DEF Popped, Conns, Same
<1> HIDE DEF p
<1>5. AtMost(p) /\ (h \in Toks => Free(p))
  BY <1>2, <1>4 DEF Good, AtMost, Free, Same
<1>6. Fills(p)
  BY <1>3, <1>4 DEF Good, Fills, Same
<1>7. (h \in Marks => Owed(p) /\ p.pending # <<>>) /\ (h \notin Marks => Lone(p))
  BY <1>2, <1>4 DEF Lone, Owed, Same
<1> QED
  BY <1>2, <1>3, <1>4, <1>5, <1>6, <1>7 DEF Good, h, p

\* A response after another try.
LEMMA RespTries ==
  ASSUME NEW x \in Resps, NEW k \in 0..MaxRetries
  PROVE  [x EXCEPT !.tries = k] \in Resps /\ [x EXCEPT !.tries = k].then = x.then
BY SMT, SMTT(20) DEF Resps

\* The front of the pending responses is dropped, or kept for another try.
LEMMA PendingMoves ==
  ASSUME NEW p \in Seq(Resps), p # <<>>, NEW again \in BOOLEAN,
         again => p[1].tries < MaxRetries
  PROVE  LET q == IF again THEN Retried(p) ELSE Tail(p) IN
         /\ Head(p) \in Resps /\ q \in Seq(Resps)
         /\ Zero(p, Ons) => Zero(q, Ons)
         /\ One(p, Ons) => Zero(q, Ons) \/ One(q, Ons)
         /\ ~again /\ Head(p) \in Ons => (One(p, Ons) => Zero(q, Ons)) /\ ~Zero(p, Ons)
<1>1. /\ Head(p) \in Resps /\ Tail(p) \in Seq(Resps) /\ Head(p) = p[1] /\ 1 \in DOMAIN p
      /\ Zero(p, Ons) => Zero(Tail(p), Ons) /\ Head(p) \notin Ons
      /\ One(p, Ons) /\ Head(p) \in Ons => Zero(Tail(p), Ons)
      /\ One(p, Ons) /\ Head(p) \notin Ons => One(Tail(p), Ons)
  BY CountTail
<1>2. CASE ~again
  BY <1>1, <1>2
<1>3. CASE again
  <2> DEFINE r == [p[1] EXCEPT !.tries = @ + 1]
  <2>1. r \in Resps /\ (r \in Ons <=> p[1] \in Ons)
    <3>1. p[1] \in Resps
      BY <1>1
    <3>2. p[1].tries + 1 \in 0..MaxRetries
      BY <1>3, <3>1, ConnectionAssumption, SMT, SMTT(20) DEF Resps
    <3>3. r = [p[1] EXCEPT !.tries = p[1].tries + 1]
      OBVIOUS
    <3>4. r \in Resps /\ r.then = p[1].then
      BY <3>1, <3>2, <3>3, RespTries
    <3> QED
      BY <3>1, <3>4, Zenon DEF Ons
  <2>2. Retried(p) = [p EXCEPT ![1] = r]
    BY <1>1 DEF Retried
  <2> HIDE DEF r
  <2>3. /\ [p EXCEPT ![1] = r] \in Seq(Resps)
        /\ Zero(p, Ons) => Zero([p EXCEPT ![1] = r], Ons)
        /\ One(p, Ons) => One([p EXCEPT ![1] = r], Ons)
    BY <2>1, CountReplace
  <2> QED
    BY <1>1, <1>3, <2>2, <2>3
<1> QED
  BY <1>2, <1>3

\* A body belongs to a request.
Sent == Len(asked) <= MaxRequests /\ (owes > 0 => asked # <<>>)

IInv ==
  /\ TypeOK /\ Sent
  /\ Bounded(wire) /\ Bounded(conn.buffer)
  /\ Good(conn) /\ Lone(conn)

\* The variables beside the connection.
ClientOK ==
  /\ asked \in Seq(Kinds) /\ owes \in 0..Length /\ wire \in Seq(Units)
  /\ gone \in BOOLEAN /\ errors \in 0..MaxErrors
  /\ log \in Seq([n : 0..MaxRequests, status : Statuses])

\* TypeOK, by its parts.
LEMMA TypeParts == TypeOK <=> conn \in Conns /\ ClientOK
BY DEF TypeOK, Conns, ClientOK, Bodies, Statuses

\* The invariant holds at first.
LEMMA InitInv == Init => IInv
<1> SUFFICES ASSUME Init PROVE IInv
  OBVIOUS
<1> DEFINE h == [op |-> "start_read", of |-> "head", need |-> 0]
<1>1. h \in Handlers /\ h \in Toks /\ h \notin Marks /\ \A b : GoodTok(h, b)
  BY StartReadHandler, ConnectionAssumption, SMT, SMTT(20) DEF GoodTok
<1>2. conn.strand = <<h>>
  BY DEF Init
<1> HIDE DEF h
<1>3. <<h>> \in Seq(Handlers) /\ DOMAIN <<h>> = {1} /\ <<h>>[1] = h
  BY <1>1, SMT, SMTT(20)
<1>4. conn \in Conns
  <2>1. <<>> \in Seq(Resps) /\ <<>> \in Seq(Units) /\ <<>> \in Seq(Bodies)
    BY SMT, SMTT(20)
  <2>2. 0 \in 0..Length /\ 0 \in 0..MaxRequests
    BY ConnectionAssumption, SMT, SMTT(20)
  <2> QED
    BY <1>2, <1>3, <2>1, <2>2 DEF Init, Conns, h
<1>5. ClientOK
  <2>1. /\ <<>> \in Seq(Kinds) /\ <<>> \in Seq(Units)
        /\ <<>> \in Seq([n : 0..MaxRequests, status : Statuses])
    BY SMT, SMTT(20)
  <2>2. 0 \in 0..Length /\ 0 \in 0..MaxErrors
    BY ConnectionAssumption, SMT, SMTT(20)
  <2> QED
    BY <2>1, <2>2, Zenon DEF Init, ClientOK
<1>6. conn.pending = <<>> /\ conn.writing = FALSE /\ conn.reading = "none" /\ conn.buffer = <<>>
  BY DEF Init
<1>7. One(conn.strand, Toks) /\ Zero(conn.strand, Marks)
  BY <1>1, <1>2, <1>3, SMT, SMTT(20) DEF One, Zero
<1>8. Zero(conn.pending, Ons)
  BY <1>6, ZeroEmpty
<1>9. AtMost(conn) /\ Lone(conn)
  BY <1>6, <1>7, <1>8 DEF AtMost, Lone
<1>10. Fills(conn)
  BY <1>1, <1>2, <1>3, <1>6, SMT, SMTT(20) DEF Fills
<1>11. Bounded(wire) /\ Bounded(conn.buffer)
  BY <1>6, SMT, SMTT(20) DEF Bounded, Init
<1>12. Sent
  BY ConnectionAssumption, SMT, SMTT(20) DEF Sent, Init
<1> QED
  BY <1>12, <1>4, <1>5, <1>9, <1>10, <1>11, TypeParts DEF IInv, Good

\* The parts of sequences that are put together.
LEMMA ConcatUnits ==
  ASSUME NEW b \in Seq(Units), NEW t \in Seq(Units)
  PROVE  /\ b \o t \in Seq(Units) /\ Len(b \o t) = Len(b) + Len(t)
         /\ Bounded(b) /\ Bounded(t) => Bounded(b \o t)
<1>1. b \o t \in Seq(Units) /\ Len(b \o t) = Len(b) + Len(t)
  BY SMT, SMTT(20)
<1>2. ASSUME NEW i \in DOMAIN (b \o t)
      PROVE  \/ i \in DOMAIN b /\ (b \o t)[i] = b[i]
             \/ i - Len(b) \in DOMAIN t /\ (b \o t)[i] = t[i - Len(b)]
  BY SMT, SMTT(20)
<1>3. Bounded(b) /\ Bounded(t) => Bounded(b \o t)
  BY <1>2 DEF Bounded
<1> QED
  BY <1>1, <1>3

\* Every step keeps the invariant.
LEMMA StepInv == IInv /\ [Next]_vars => IInv'
\* A response that closes is none of the others.
<1>CloserHandler.
  ASSUME NEW h \in Closers
  PROVE  h \in Handlers /\ h \notin Toks /\ h \notin Marks /\ \A b : h \in Movers(b)
  BY <1>CloserHandler DEF Toks, Marks, Closers, Movers, GoodTok

\* Post adds one handler.
<1>PostAdds.
  ASSUME NEW c \in Conns, NEW h \in Handlers
  PROVE  /\ Post(c, h) \in Conns /\ Same(c, Post(c, h))
         /\ Post(c, h).strand = Append(c.strand, h)
         /\ Post(c, h).buffer = c.buffer /\ Post(c, h).need = c.need
         /\ Post(c, h).open = c.open
  <2> USE <1>PostAdds
  <2>1. Append(c.strand, h) \in Seq(Handlers)
    BY SMT, SMTT(20) DEF Conns
  <2> QED
    BY <2>1, Zenon DEF Post, Conns, Same

\* transmit posts one write_helper.
<1>TransmitAdds.
  ASSUME NEW c \in Conns, NEW n \in 0..MaxRequests, NEW status \in Statuses,
         NEW then \in {"read", "close"}
  PROVE  /\ Transmit(c, n, status, then).buffer = c.buffer
         /\ \A b : Adds(c, Transmit(c, n, status, then), Movers(b))
         /\ then = "close" => Adds(c, Transmit(c, n, status, then), Closers)
  <2> USE <1>TransmitAdds
  <2> DEFINE r == [n |-> n, status |-> status, then |-> then, tries |-> 0]
             h == [op |-> "write_helper", resp |-> r]
  <2>1. r \in Resps /\ r.then = then
    BY ConnectionAssumption, SMT, SMTT(20) DEF Resps, Statuses
  <2>2. /\ h \in Handlers /\ \A b : h \in Movers(b)
        /\ then = "close" => h \in Closers
    <3> HIDE DEF r
    <3> QED
      BY <2>1, WriteHandler
  <2>3. Transmit(c, n, status, then) = Post(c, h)
    BY DEF Transmit
  <2> HIDE DEF h
  <2> QED
    BY <2>2, <2>3, <1>PostAdds, ZenonT(40) DEF Adds

\* The error handler posts at most a response that closes.
<1>SessionErrorAdds.
  ASSUME NEW c \in Conns, NEW n \in 0..MaxRequests
  PROVE  /\ SessionError(c, n).buffer = c.buffer
         /\ Adds(c, SessionError(c, n), Closers)
  <2> USE <1>SessionErrorAdds
  <2> DEFINE d == [c EXCEPT !.handled = TRUE]
  <2>1. /\ d \in Conns /\ Same(c, d) /\ d.buffer = c.buffer /\ d.strand = c.strand
    BY Zenon DEF Conns, Same
  <2>2. 500 \in Statuses
    BY SMT, SMTT(20) DEF Statuses
  <2>3. SessionError(c, n) = IF c.open /\ ~c.handled THEN Transmit(d, n, 500, "close") ELSE d
    BY DEF SessionError
  <2> HIDE DEF d
  <2>4. /\ Transmit(d, n, 500, "close").buffer = d.buffer
        /\ Adds(d, Transmit(d, n, 500, "close"), Closers)
    BY <2>1, <2>2, <1>TransmitAdds, SMT, SMTT(20)
  <2>5. CASE c.open /\ ~c.handled
    BY <2>1, <2>3, <2>4, <2>5, SMT, SMTT(20) DEF Adds, Same
  <2>6. CASE ~(c.open /\ ~c.handled)
    BY <2>1, <2>3, <2>6, SMT, SMTT(20) DEF Adds, Same
  <2> QED
    BY <2>5, <2>6

\* So what is added by an error handler is added by a request's callbacks.
<1>ClosersMove.
  ASSUME NEW c, NEW d, Adds(c, d, Closers), NEW b
  PROVE  Adds(c, d, Movers(b))
  BY <1>ClosersMove, <1>CloserHandler DEF Adds

\* close(response), yield(response) and the service's error handler.
<1>AnswerAdds.
  ASSUME NEW c \in Conns, NEW status \in Statuses, NEW b
  PROVE  /\ Adds(c, SessionClose(c, status), Movers(b)) /\ SessionClose(c, status).buffer = c.buffer
         /\ Adds(c, Yield(c, status), Movers(b)) /\ Yield(c, status).buffer = c.buffer
         /\ Adds(c, ServiceError(c, status), Closers)
         /\ Adds(c, ServiceError(c, status), Movers(b)) /\ ServiceError(c, status).buffer = c.buffer
  <2> USE <1>AnswerAdds
  <2>1. c.cur \in 0..MaxRequests
    BY DEF Conns
  <2>2. Adds(c, SessionError(c, c.cur), Movers(b)) /\ SessionError(c, c.cur).buffer = c.buffer
    BY <2>1, <1>SessionErrorAdds, <1>ClosersMove
  <2>3. Adds(c, c, Closers)
    BY DEF Adds, Same
  <2>4. \A then \in {"read", "close"} :
          /\ Adds(c, Transmit(c, c.cur, status, then), Movers(b))
          /\ Transmit(c, c.cur, status, then).buffer = c.buffer
          /\ then = "close" => Adds(c, Transmit(c, c.cur, status, then), Closers)
    BY <2>1, <1>TransmitAdds
  <2>5. Adds(c, ServiceError(c, status), Closers) /\ ServiceError(c, status).buffer = c.buffer
    BY <2>3, <2>4 DEF ServiceError
  <2>6. Adds(c, ServiceError(c, status), Movers(b))
    BY <2>5, <1>ClosersMove
  <2> QED
    BY <2>2, <2>4, <2>5, <2>6 DEF SessionClose, Yield

\* What follows a change of the buffer alone.
<1>ReqAfter.
  ASSUME NEW c, NEW d, NEW e, Same(c, d), d.strand = c.strand, Req(d, e)
  PROVE  Req(c, e)
  BY <1>ReqAfter DEF Req, Adds, Same

\* Dropping units keeps the rest.
<1>DropBounded.
  ASSUME NEW b \in Seq(Units), Bounded(b), NEW k \in 0..Len(b)
  PROVE  Drop(b, k) \in Seq(Units) /\ Bounded(Drop(b, k))
  BY <1>DropBounded, DropSeq, SMT, SMTT(20) DEF Bounded

\* fetch_body, when the body is there.
<1>FetchBodyReq.
  ASSUME NEW c \in Conns, Len(c.buffer) >= Length, Bounded(c.buffer)
  PROVE  Req(c, FetchBody(c))
  <2> USE <1>FetchBodyReq
  <2> DEFINE q == Append(c.queued, [n |-> c.cur, body |-> SubSeq(c.buffer, 1, Length)])
             d == [c EXCEPT !.buffer = Drop(@, Length),
                            !.queued = Append(@, [n |-> c.cur, body |-> SubSeq(c.buffer, 1, Length)])]
  <2>1. c.buffer \in Seq(Units) /\ c.queued \in Seq(Bodies) /\ c.cur \in 0..MaxRequests
    BY DEF Conns
  <2>2. Length \in 0..Len(c.buffer)
    BY <2>1, ConnectionAssumption, SMT, SMTT(20)
  <2>3. Drop(c.buffer, Length) \in Seq(Units) /\ Bounded(Drop(c.buffer, Length))
    BY <2>1, <2>2, <1>DropBounded
  <2>4. [n |-> c.cur, body |-> SubSeq(c.buffer, 1, Length)] \in Bodies
    BY <2>1, <2>2, FrontSeq DEF Bodies
  <2>5. q \in Seq(Bodies)
    BY <2>1, <2>4, SMT, SMTT(20)
  <2>6. /\ d \in Conns /\ Same(c, d) /\ d.strand = c.strand
        /\ d.buffer = Drop(c.buffer, Length)
    <3>1. d = [c EXCEPT !.buffer = Drop(c.buffer, Length), !.queued = q]
      BY DEF Conns
    <3> HIDE DEF d, q
    <3> QED
      BY <2>3, <2>5, <3>1, Zenon DEF Conns, Same
  <2>7. FetchBody(c) = Yield(d, 202)
    BY DEF FetchBody
  <2> HIDE DEF d
  <2>8. Adds(d, Yield(d, 202), Movers(Yield(d, 202).buffer)) /\ Yield(d, 202).buffer = d.buffer
    <3>1. 202 \in Statuses
      BY SMT, SMTT(20) DEF Statuses
    <3> QED
      BY <2>6, <3>1, <1>AnswerAdds, SMT, SMTT(20)
  <2>9. Req(d, Yield(d, 202))
    BY <2>3, <2>6, <2>8 DEF Req
  <2> QED
    BY <2>6, <2>7, <2>9, <1>ReqAfter

\* fetch: the body is there, or a read is asked for that gets the rest.
<1>FetchReq.
  ASSUME NEW c \in Conns, Bounded(c.buffer)
  PROVE  Req(c, Fetch(c))
  <2> USE <1>FetchReq
  <2>1. c.buffer \in Seq(Units) /\ Len(c.buffer) \in Nat /\ Length \in Nat
    BY ConnectionAssumption, SMT, SMTT(20) DEF Conns
  <2>2. CASE Length > Len(c.buffer)
    <3> DEFINE h == [op |-> "start_read", of |-> "body", need |-> Length - Len(c.buffer)]
    <3>1. Length - Len(c.buffer) \in 0..Length
      BY <2>1, <2>2, SMT, SMTT(20)
    <3>2. h \in Handlers /\ h \notin Marks
      BY <3>1, StartReadHandler
    <3>3. GoodTok(h, c.buffer)
      BY <2>1, SMT, SMTT(20) DEF GoodTok
    <3>4. Fetch(c) = Post(c, h)
      BY <2>2 DEF Fetch
    <3> HIDE DEF h
    <3>5. h \in Movers(c.buffer)
      BY <3>2, <3>3 DEF Movers
    <3> QED
      BY <3>2, <3>4, <3>5, <1>PostAdds, SMT, SMTT(20) DEF Req, Adds
  <2>3. CASE ~(Length > Len(c.buffer))
    <3>1. Len(c.buffer) >= Length /\ Fetch(c) = FetchBody(c)
      BY <2>1, <2>3, SMT, SMTT(20) DEF Fetch
    <3> QED
      BY <3>1, <1>FetchBodyReq
  <2> QED
    BY <2>2, <2>3

\* The router and the handlers.
<1>RouterReq.
  ASSUME NEW c \in Conns, Bounded(c.buffer), NEW kind \in Kinds
  PROVE  Req(c, Router(c, kind))
  <2> USE <1>RouterReq
  <2>1. Req(c, c)
    BY DEF Req, Adds, Same
  <2>2. Req(c, Fetch(c))
    BY <1>FetchReq
  <2>3. Req(c, Yield(c, Status(kind))) /\ Req(c, SessionClose(c, Status(kind)))
    BY StatusType, <1>AnswerAdds DEF Req
  <2>4. CASE ~c.open
    BY <2>1, <2>4 DEF Router
  <2>5. CASE c.open /\ kind = "payment"
    BY <2>2, <2>5 DEF Router
  <2>6. CASE c.open /\ kind \in {"purge", "purgeBody"}
    <3>1. Router(c, kind) = Yield(c, Status(kind))
      BY <2>6 DEF Router
    <3> QED
      BY <2>3, <3>1
  <2>7. CASE c.open /\ kind \notin {"payment", "purge", "purgeBody"}
    <3>1. Router(c, kind) = SessionClose(c, Status(kind))
      BY <2>7 DEF Router
    <3> QED
      BY <2>3, <3>1
  <2> QED
    BY <2>4, <2>5, <2>6, <2>7

\* parse_request, when the head is there.
<1>ParseRequestReq.
  ASSUME NEW c \in Conns, HasHead(c.buffer), Bounded(c.buffer), asked \in Seq(Kinds)
  PROVE  Req(c, ParseRequest(c))
  <2> USE <1>ParseRequestReq
  <2> DEFINE i == FirstHead(c.buffer)
             n == c.buffer[i].n
             d == [c EXCEPT !.buffer = Drop(@, i), !.cur = n]
  <2>1. c.buffer \in Seq(Units)
    BY DEF Conns
  <2>2. i \in DOMAIN c.buffer
    BY <2>1, HeadFound
  <2>3. n \in 1..MaxRequests /\ n <= Len(asked)
    <3> HIDE DEF i
    <3>1. c.buffer[i] \in Units
      BY <2>1, <2>2, SMT, SMTT(20)
    <3> QED
      BY <2>2, <3>1 DEF Units, Bounded
  <2>4. i \in 0..Len(c.buffer)
    BY <2>1, <2>2, SMT, SMTT(20)
  <2> HIDE DEF i, n
  <2>5. Drop(c.buffer, i) \in Seq(Units) /\ Bounded(Drop(c.buffer, i))
    BY <2>1, <2>4, <1>DropBounded
  <2>6. /\ d \in Conns /\ Same(c, d) /\ d.strand = c.strand /\ Bounded(d.buffer)
    <3>1. n \in 0..MaxRequests
      BY <2>3, ConnectionAssumption, SMT, SMTT(20)
    <3>2. /\ d \in Conns /\ Same(c, d) /\ d.strand = c.strand /\ d.buffer = Drop(c.buffer, i)
      BY <3>1, <2>5, Zenon DEF Conns, Same
    <3> QED
      BY <2>5, <3>2
  <2>7. asked[n] \in Kinds
    BY <2>3, SMT, SMTT(20)
  <2>8. ParseRequest(c) = IF i = 1 /\ asked[n] # "malformed" THEN Router(d, asked[n])
                                                             ELSE ServiceError(d, 400)
    BY DEF ParseRequest, i, n
  <2> HIDE DEF d
  <2>9. Req(d, Router(d, asked[n]))
    BY <2>6, <2>7, <1>RouterReq
  <2>10. Req(d, ServiceError(d, 400))
    <3>1. 400 \in Statuses
      BY DEF Statuses
    <3> QED
      BY <2>6, <3>1, <1>AnswerAdds, SMT, SMTT(20) DEF Req
  <2>11. Req(d, ParseRequest(c))
    BY <2>8, <2>9, <2>10
  <2> QED
    BY <2>6, <2>11, <1>ReqAfter

\* A strand on which nothing makes the connection handle a request needs
\* nothing of the buffer.
<1>FreeFills.
  ASSUME NEW s \in Seq(Handlers), Zero(s, Toks), NEW b
  PROVE  \A i \in DOMAIN s : GoodTok(s[i], b)
  <2> USE <1>FreeFills
  <2>1. \A i \in DOMAIN s : s[i] \in Handlers /\ s[i] \notin Toks
    BY SMT, SMTT(20) DEF Zero
  <2> QED
    BY <2>1, OtherHandler

\* The callbacks of a request keep the invariant.
<1>ReqKeeps.
  ASSUME NEW c \in Conns, Free(c), Lone(c), NEW d, Req(c, d)
  PROVE  Good(d) /\ Lone(d)
  <2> USE <1>ReqKeeps
  <2>1. d \in Conns /\ Same(c, d) /\ c.strand \in Seq(Handlers)
    BY DEF Req, Adds, Conns
  <2>2. \A i \in DOMAIN c.strand : GoodTok(c.strand[i], d.buffer)
    BY <2>1, <1>FreeFills, Zenon DEF Free
  <2>3. CASE d.strand = c.strand
    BY <2>1, <2>2, <2>3 DEF Good, Lone, AtMost, Free, Fills, Same
  <2>4. ASSUME NEW h \in Movers(d.buffer), d.strand = Append(c.strand, h)
        PROVE  Good(d) /\ Lone(d)
    <3>1. h \in Handlers /\ h \notin Marks /\ GoodTok(h, d.buffer)
      BY DEF Movers
    <3>2. \A i \in DOMAIN d.strand : GoodTok(d.strand[i], d.buffer)
      BY <2>1, <2>2, <2>4, <3>1, FillsAppend
    <3>3. Zero(d.strand, Toks) \/ One(d.strand, Toks)
      BY <2>1, <2>4, <3>1, CountAppend DEF Free
    <3>4. /\ Zero(c.strand, Marks) => Zero(d.strand, Marks)
          /\ One(c.strand, Marks) => One(d.strand, Marks)
      BY <2>1, <2>4, <3>1, CountAppend, Zenon
    <3>5. Lone(d)
      BY <2>1, <3>4 DEF Lone, Same
    <3>6. AtMost(d) /\ Fills(d)
      BY <2>1, <3>2, <3>3 DEF AtMost, Free, Fills, Same
    <3> QED
      BY <2>1, <3>5, <3>6 DEF Good
  <2> QED
    BY <2>3, <2>4 DEF Req, Adds

\* A response that closes, or another handler that is neither the completion
\* of a write nor makes the connection handle a request.
<1>OtherKeeps.
  ASSUME NEW c \in Conns, NEW d, d.buffer = c.buffer,
         NEW H, Adds(c, d, H), \A h \in H : h \in Handlers /\ h \notin Toks /\ h \notin Marks
  PROVE  /\ Good(c) => Good(d)
         /\ Lone(c) => Lone(d)
         /\ Owed(c) => Owed(d)
  <2> USE <1>OtherKeeps
  <2>1. d \in Conns /\ Same(c, d) /\ c.strand \in Seq(Handlers)
    BY Zenon DEF Adds, Conns
  <2>2. CASE d.strand = c.strand
    BY <2>1, <2>2, ZenonT(40) DEF Good, Lone, Owed, AtMost, Free, Fills, Same
  <2>3. ASSUME NEW h \in H, d.strand = Append(c.strand, h)
        PROVE  (Good(c) => Good(d)) /\ (Lone(c) => Lone(d)) /\ (Owed(c) => Owed(d))
    <3>1. GoodTok(h, d.buffer) /\ h \in Handlers
      BY OtherHandler
    <3>2. Fills(c) => Fills(d)
      BY <2>1, <2>3, <3>1, FillsAppend DEF Fills, Same
    <3>3. /\ Zero(c.strand, Toks) => Zero(d.strand, Toks)
          /\ One(c.strand, Toks) => One(d.strand, Toks)
          /\ Zero(c.strand, Marks) => Zero(d.strand, Marks)
          /\ One(c.strand, Marks) => One(d.strand, Marks)
      BY <2>1, <2>3, CountAppend
    <3> QED
      BY <2>1, <3>2, <3>3 DEF Good, Lone, Owed, AtMost, Free, Same
  <2> QED
    BY <2>2, <2>3 DEF Adds

\* write(): starts the write that is due, or drops what is pending.
<1>WriteKeeps.
  ASSUME NEW c, Good(c), Owed(c), c.pending # <<>>
  PROVE  Good(Write(c)) /\ Lone(Write(c)) /\ Write(c).buffer = c.buffer
  <2> USE <1>WriteKeeps
  <2>1. c \in Conns
    BY Zenon DEF Good
  <2>2. CASE c.open
    <3>1. /\ Write(c) \in Conns /\ Write(c).buffer = c.buffer /\ Write(c).strand = c.strand
          /\ Write(c).reading = c.reading /\ Write(c).need = c.need
          /\ Write(c).pending = c.pending /\ Write(c).writing = TRUE
      BY <2>1, <2>2, Zenon DEF Write, ArmTimer, Conns
    <3> QED
      BY <3>1 DEF Good, Owed, Lone, AtMost, Free, Fills
  <2>3. CASE ~c.open
    <3>1. /\ Write(c) \in Conns /\ Write(c).buffer = c.buffer /\ Write(c).strand = c.strand
          /\ Write(c).reading = c.reading /\ Write(c).need = c.need
          /\ Write(c).pending = <<>> /\ Write(c).writing = c.writing
      <4>1. <<>> \in Seq(Resps) /\ Write(c) = [c EXCEPT !.pending = <<>>]
        BY <2>3, SMT, SMTT(20) DEF Write
      <4> QED
        BY <2>1, <4>1, Zenon DEF Conns
    <3>2. Zero(Write(c).pending, Ons)
      BY <3>1, ZeroEmpty
    <3> QED
      BY <3>1, <3>2 DEF Good, Owed, Lone, AtMost, Free, Fills
  <2> QED
    BY <2>2, <2>3

\* write_helper: one more response is pending; if it reads on, nothing else
\* makes the connection handle a request.
<1>WriteHelperKeeps.
  ASSUME NEW c, Good(c), Lone(c), NEW r \in Resps, r.then = "read" => Free(c)
  PROVE  LET d == WriteHelper(c, r) IN Good(d) /\ Lone(d) /\ d.buffer = c.buffer
  <2> USE <1>WriteHelperKeeps
  <2> DEFINE p == Append(c.pending, r)
             e == [c EXCEPT !.pending = Append(@, r)]
  <2>1. c \in Conns /\ c.pending \in Seq(Resps)
    BY DEF Good, Conns
  <2>2. r \in Ons <=> r.then = "read"
    BY DEF Ons
  <2>3. /\ p \in Seq(Resps) /\ p # <<>>
        /\ Zero(c.pending, Ons) /\ r \notin Ons => Zero(p, Ons)
        /\ One(c.pending, Ons) /\ r \notin Ons => One(p, Ons)
        /\ Zero(c.pending, Ons) /\ r \in Ons => One(p, Ons)
    BY <2>1, CountAppend
  <2>4. Len(p) = 1 <=> c.pending = <<>>
    BY <2>1, SMT, SMTT(20)
  <2> HIDE DEF p
  <2>5. /\ e \in Conns /\ e.pending = p /\ e.strand = c.strand /\ e.reading = c.reading
        /\ e.writing = c.writing /\ e.buffer = c.buffer /\ e.need = c.need
    BY <2>1, <2>3, Zenon DEF Conns, p
  <2>6. WriteHelper(c, r) = IF Len(e.pending) = 1 THEN Write(e) ELSE e
    BY DEF WriteHelper
  <2> HIDE DEF e
  <2>7. AtMost(e)
    BY <2>2, <2>3, <2>5 DEF Good, AtMost, Free
  <2>8. Good(e)
    BY <2>5, <2>7 DEF Good, Fills
  <2>9. CASE c.pending = <<>>
    <3>1. Owed(e)
      BY <2>5, <2>9 DEF Lone, Owed
    <3> QED
      BY <2>3, <2>4, <2>5, <2>6, <2>8, <2>9, <3>1, <1>WriteKeeps
  <2>10. CASE c.pending # <<>>
    <3>1. Lone(e)
      BY <2>3, <2>5, <2>10 DEF Lone
    <3> QED
      BY <2>4, <2>5, <2>6, <2>8, <2>10, <3>1
  <2> QED
    BY <2>9, <2>10

\* read().
<1>ReadKeeps.
  ASSUME NEW c, Good(c), Lone(c), Free(c), NEW what \in {"head", "body"},
         NEW need \in 0..Length, what = "body" => need + Len(c.buffer) >= Length
  PROVE  LET d == Read(c, what, need) IN Good(d) /\ Lone(d) /\ d.buffer = c.buffer
  <2> USE <1>ReadKeeps
  <2> DEFINE d == Read(c, what, need)
  <2>1. /\ d \in Conns /\ d.buffer = c.buffer /\ d.strand = c.strand /\ d.reading = what
        /\ d.need = need /\ d.pending = c.pending /\ d.writing = c.writing
    BY Zenon DEF Good, Conns, Read, ArmTimer
  <2> HIDE DEF d
  <2>2. AtMost(d) /\ Lone(d)
    BY <2>1 DEF AtMost, Free, Lone
  <2>3. Fills(d)
    BY <2>1 DEF Fills, Good
  <2> QED
    BY <2>1, <2>2, <2>3 DEF Good, d

\* connection_timeout_handler.
<1>TimeoutKeeps.
  ASSUME NEW c, Good(c), Lone(c)
  PROVE  LET d == TimeoutHandler(c) IN Good(d) /\ Lone(d) /\ d.buffer = c.buffer
  <2> USE <1>TimeoutKeeps
  <2>1. c \in Conns
    BY DEF Good
  <2>2. \A why \in {"stalled", "raced"} :
          LET d == CloseSocket(c, why) IN Good(d) /\ Lone(d) /\ d.buffer = c.buffer
    BY <2>1, CloseKeeps
  <2> QED
    BY <2>2 DEF TimeoutHandler

\* The completion handler of read().
<1>ReadDoneKeeps.
  ASSUME NEW c, Good(c), Lone(c), Free(c), Bounded(c.buffer), asked \in Seq(Kinds),
         NEW of \in {"head", "body"}, NEW result \in Results,
         result = "ok" /\ of = "head" => HasHead(c.buffer),
         result = "ok" /\ of = "body" => Len(c.buffer) >= Length
  PROVE  LET d == ReadDone(c, of, result) IN Good(d) /\ Lone(d) /\ Bounded(d.buffer)
  <2> USE <1>ReadDoneKeeps
  <2> DEFINE d == [CancelTimer(c) EXCEPT !.open = @ /\ result = "ok"]
  <2>1. c \in Conns
    BY DEF Good
  <2>2. d \in Conns /\ Same(c, d) /\ d.strand = c.strand /\ d.buffer = c.buffer
    <3> DEFINE o == CancelTimer(c).open /\ result = "ok"
    <3>1. o \in BOOLEAN
      OBVIOUS
    <3>2. d = [CancelTimer(c) EXCEPT !.open = o]
      BY <2>1 DEF CancelTimer, Conns
    <3> HIDE DEF d, o
    <3> QED
      BY <2>1, <3>1, <3>2, Zenon DEF CancelTimer, Conns, Same
  <2>3. ReadDone(c, of, result) =
          CASE result = "aborted"                 -> d
            [] result = "failed" /\ of = "head"   -> ServiceError([d EXCEPT !.buffer = <<>>], 400)
            [] result = "failed" /\ of = "body"   -> SessionError(d, d.cur)
            [] result = "ok" /\ of = "head"       -> ParseRequest(d)
            [] result = "ok" /\ of = "body"       -> FetchBody(d)
    BY DEF ReadDone
  <2> HIDE DEF d
  <2>4. Req(d, ReadDone(c, of, result))
    <3>1. CASE result = "aborted"
      BY <2>2, <2>3, <3>1 DEF Req, Adds, Same
    <3>2. CASE result = "failed" /\ of = "head"
      <4> DEFINE f == [d EXCEPT !.buffer = <<>>]
      <4>0. <<>> \in Seq(Units) /\ Bounded(<<>>)
        BY SMT, SMTT(20) DEF Bounded
      <4>1. f \in Conns /\ Same(d, f) /\ f.strand = d.strand /\ f.buffer = <<>>
        BY <2>2, <4>0, Zenon DEF Conns, Same
      <4>2. ReadDone(c, of, result) = ServiceError(f, 400)
        BY <2>3, <3>2
      <4> HIDE DEF f
      <4>3. 400 \in Statuses
        BY SMT, SMTT(20) DEF Statuses
      <4>4. Req(f, ServiceError(f, 400))
        BY <4>0, <4>1, <4>3, <1>AnswerAdds, SMT, SMTT(20) DEF Req
      <4> QED
        BY <4>1, <4>2, <4>4, <1>ReqAfter
    <3>3. CASE result = "failed" /\ of = "body"
      <4>1. ReadDone(c, of, result) = SessionError(d, d.cur) /\ d.cur \in 0..MaxRequests
        BY <2>2, <2>3, <3>3 DEF Conns
      <4> QED
        BY <2>2, <4>1, <1>SessionErrorAdds, <1>ClosersMove DEF Req
    <3>4. CASE result = "ok" /\ of = "head"
      BY <2>2, <2>3, <3>4, <1>ParseRequestReq
    <3>5. CASE result = "ok" /\ of = "body"
      BY <2>2, <2>3, <3>5, <1>FetchBodyReq
    <3> QED
      BY <3>1, <3>2, <3>3, <3>4, <3>5 DEF Results
  <2>5. Free(d) /\ Lone(d)
    BY <2>2 DEF Free, Lone, Same
  <2> QED
    BY <2>2, <2>4, <2>5, <1>ReqKeeps DEF Req

\* The completion handler of write().
<1>WrittenKeeps.
  ASSUME NEW c, Good(c), Owed(c), c.pending # <<>>, NEW result \in Results
  PROVE  LET d == Written(c, result) IN Good(d) /\ Lone(d) /\ d.buffer = c.buffer
  <2> USE <1>WrittenKeeps
  <2> DEFINE r == Head(c.pending)
             again == result = "failed" /\ r.tries < MaxRetries
             q == IF again THEN Retried(c.pending) ELSE Tail(c.pending)
             d == [CancelTimer(c) EXCEPT
                     !.pending = IF result = "failed" /\ r.tries < MaxRetries
                                 THEN Retried(@) ELSE Tail(@)]
             h == [op |-> "start_read", of |-> "head", need |-> 0]
             e == CASE result = "aborted"                  -> d
                    [] result = "failed"                   -> SessionError(d, r.n)
                    [] result = "ok" /\ r.then = "close"   -> CloseSocket(d, "answer")
                    [] result = "ok" /\ r.then = "read"    -> Post(d, h)
  <2>1. c \in Conns /\ c.pending \in Seq(Resps)
    BY DEF Good, Conns
  <2>2. again \in BOOLEAN /\ (again => c.pending[1].tries < MaxRetries)
    BY <2>1, SMT, SMTT(20)
  <2> HIDE DEF again
  <2>3. /\ r \in Resps /\ q \in Seq(Resps)
        /\ Zero(c.pending, Ons) => Zero(q, Ons)
        /\ One(c.pending, Ons) => Zero(q, Ons) \/ One(q, Ons)
        /\ ~again /\ r \in Ons => (One(c.pending, Ons) => Zero(q, Ons)) /\ ~Zero(c.pending, Ons)
    BY <2>1, <2>2, PendingMoves
  <2>4. /\ d \in Conns /\ d.pending = q /\ d.strand = c.strand /\ d.writing = c.writing
        /\ d.reading = c.reading /\ d.need = c.need /\ d.buffer = c.buffer
    <3>1. d = [CancelTimer(c) EXCEPT !.pending = q]
      BY <2>1 DEF CancelTimer, Conns, again
    <3> HIDE DEF d, q
    <3> QED
      BY <2>1, <2>3, <3>1, Zenon DEF CancelTimer, Conns
  <2>5. Written(c, result) = IF e.pending = <<>> THEN e ELSE Write(e)
    BY Zenon DEF Written
  <2> HIDE DEF d, q, r
  <2>6. Good(d) /\ Owed(d)
    BY <2>3, <2>4 DEF Good, Owed, AtMost, Free, Fills
  <2>7. Good(e) /\ Owed(e) /\ e.buffer = c.buffer
    <3>1. CASE result = "aborted"
      <4>1. e = d
        BY <3>1, Zenon
      <4> QED
        BY <2>4, <2>6, <4>1, Zenon
    <3>2. CASE result = "failed"
      <4>1. e = SessionError(d, r.n)
        BY <3>2
      <4>2. r.n \in 0..MaxRequests
        BY <2>3, SMT, SMTT(20) DEF Resps
      <4>3. Adds(d, e, Closers) /\ e.buffer = d.buffer
        BY <2>4, <4>1, <4>2, <1>SessionErrorAdds, Zenon
      <4> HIDE DEF e
      <4> QED
        BY <2>4, <2>6, <4>3, <1>OtherKeeps, <1>CloserHandler
    <3>3. CASE result = "ok" /\ r.then = "close"
      <4>1. e = CloseSocket(d, "answer")
        BY <3>3
      <4> HIDE DEF e
      <4> QED
        BY <2>4, <2>6, <4>1, CloseKeeps
    <3>4. CASE result = "ok" /\ r.then = "read"
      <4>1. e = Post(d, h)
        BY <3>4
      <4>2. r \in Ons /\ ~again
        BY <2>3, <3>4 DEF Ons, again
      <4>3. Free(d)
        BY <2>3, <2>4, <4>2 DEF Good, AtMost, Free
      <4>4. h \in Handlers /\ h \in Toks /\ h \notin Marks /\ GoodTok(h, d.buffer)
        BY StartReadHandler, ConnectionAssumption, SMT, SMTT(20) DEF GoodTok
      <4> HIDE DEF h, e
      <4>5. /\ e \in Conns /\ Same(d, e) /\ e.strand = Append(d.strand, h) /\ e.buffer = d.buffer
            /\ d.strand \in Seq(Handlers)
        BY <2>4, <4>1, <4>4, <1>PostAdds, Zenon DEF Conns
      <4>6. One(e.strand, Toks) /\ Zero(e.strand, Marks)
        BY <2>6, <4>3, <4>4, <4>5, CountAppend, SMT, SMTT(20) DEF Free, Owed
      <4>7. \A i \in DOMAIN e.strand : GoodTok(e.strand[i], e.buffer)
        BY <2>6, <4>4, <4>5, FillsAppend, Zenon DEF Good, Fills
      <4>8. AtMost(e) /\ Fills(e)
        BY <2>6, <4>3, <4>5, <4>6, <4>7, Zenon DEF AtMost, Free, Fills, Good, Same
      <4> QED
        BY <2>4, <2>6, <4>5, <4>6, <4>8 DEF Good, Owed, Same
    <3>5. r.then \in {"read", "close"}
      BY <2>3, SMT, SMTT(20) DEF Resps
    <3> HIDE DEF e
    <3> QED
      BY <3>1, <3>2, <3>3, <3>4, <3>5 DEF Results
  <2> HIDE DEF e
  <2>8. CASE e.pending = <<>>
    BY <2>5, <2>7, <2>8, Zenon DEF Lone, Owed
  <2>9. CASE e.pending # <<>>
    BY <2>5, <2>7, <2>9, <1>WriteKeeps, ZenonT(40)
  <2> QED
    BY <2>8, <2>9

\* A step that leaves the client's side alone and the connection good.
<1>StepKeeps.
  ASSUME IInv, UNCHANGED <<client, log, errors>>, Good(conn'), Lone(conn'), Bounded(conn'.buffer)
  PROVE  IInv'
  <2> USE <1>StepKeeps
  <2>1. ClientOK
    BY TypeParts DEF IInv
  <2>2. ClientOK'
    BY <2>1, Zenon DEF ClientOK, client
  <2>3. TypeOK'
    BY <2>2, Zenon DEF Good, TypeOK, Conns, ClientOK, Bodies, Statuses
  <2> QED
    BY <2>3 DEF IInv, Sent, Good, Lone, AtMost, Free, Fills, Bounded, client

\* Posting the completion of what was under way.
<1>CompletionKeeps.
  ASSUME IInv, NEW d \in Conns, NEW h \in Handlers, GoodTok(h, d.buffer),
         d.strand = conn.strand, d.pending = conn.pending, d.need = conn.need,
         \/ /\ conn.reading # "none" /\ d.reading = "none" /\ d.writing = conn.writing
            /\ h \in Toks /\ h \notin Marks
         \/ /\ conn.writing /\ d.reading = conn.reading /\ ~d.writing
            /\ d.buffer = conn.buffer /\ h \notin Toks /\ h \in Marks
  PROVE  Good(Post(d, h)) /\ Lone(Post(d, h)) /\ Post(d, h).buffer = d.buffer
  <2> USE <1>CompletionKeeps
  <2> DEFINE e == Post(d, h)
  <2>1. /\ e \in Conns /\ Same(d, e) /\ e.buffer = d.buffer /\ e.strand = Append(conn.strand, h)
        /\ conn.strand \in Seq(Handlers)
    <3>1. d.strand \in Seq(Handlers)
      BY DEF Conns
    <3>2. /\ Post(d, h) \in Conns /\ Same(d, Post(d, h))
          /\ Post(d, h).strand = Append(d.strand, h) /\ Post(d, h).buffer = d.buffer
      BY <1>PostAdds
    <3>3. d.strand = conn.strand
      OBVIOUS
    <3> QED
      BY <3>1, <3>2, <3>3
  <2> HIDE DEF e
  <2>2. /\ AtMost(conn) /\ Fills(conn) /\ Lone(conn)
    BY DEF IInv, Good
  <2>3. \A T : /\ Zero(conn.strand, T) /\ h \notin T => Zero(e.strand, T)
               /\ One(conn.strand, T) /\ h \notin T => One(e.strand, T)
               /\ Zero(conn.strand, T) /\ h \in T => One(e.strand, T)
    BY <2>1, CountAppend, ZenonT(40)
  <2>4. AtMost(e)
    BY <2>1, <2>2, <2>3, Zenon DEF AtMost, Free, Same
  <2>5. Lone(e)
    BY <2>1, <2>2, <2>3 DEF Lone, Same
  <2>6. \A i \in DOMAIN conn.strand : GoodTok(conn.strand[i], d.buffer)
    <3>1. CASE conn.reading # "none"
      BY <2>1, <2>2, <3>1, <1>FreeFills DEF AtMost, Free
    <3>2. CASE d.buffer = conn.buffer
      BY <2>2, <3>2 DEF Fills
    <3> QED
      BY <3>1, <3>2, Zenon
  <2>7. \A i \in DOMAIN e.strand : GoodTok(e.strand[i], e.buffer)
    BY <2>1, <2>6, FillsAppend
  <2>8. e.reading = "body" => e.need + Len(e.buffer) >= Length
    BY <2>1, <2>2 DEF Fills, Same
  <2> QED
    BY <2>1, <2>4, <2>5, <2>7, <2>8, ZenonT(40) DEF Good, Fills, e

\* A read that completes.
<1>ReadCompletesStep.
  ASSUME IInv, NEW k \in 0..Len(wire), ReadCompletes(k)
  PROVE  IInv'
  <2> USE <1>ReadCompletesStep
  <2> DEFINE got == SubSeq(wire, 1, k)
             d == [conn EXCEPT !.buffer = @ \o SubSeq(wire, 1, k), !.reading = "none"]
             h == [op |-> "read", of |-> conn.reading, result |-> "ok"]
  <2>1. /\ conn \in Conns /\ conn.buffer \in Seq(Units) /\ wire \in Seq(Units)
        /\ conn.reading \in {"none", "head", "body"} /\ conn.need \in 0..Length /\ ClientOK
        /\ Bounded(wire) /\ Bounded(conn.buffer) /\ Fills(conn)
    BY TypeParts DEF IInv, Conns, ClientOK, Good
  <2>2. /\ got \in Seq(Units) /\ Len(got) = k /\ Bounded(got)
        /\ Drop(wire, k) \in Seq(Units) /\ Bounded(Drop(wire, k))
    <3>1. /\ got \in Seq(Units) /\ Len(got) = k
          /\ \A i \in DOMAIN got : i \in DOMAIN wire /\ got[i] = wire[i]
      BY <2>1, FrontSeq
    <3>2. Bounded(got)
      BY <2>1, <3>1 DEF Bounded
    <3> QED
      BY <2>1, <3>1, <3>2, <1>DropBounded
  <2> HIDE DEF got
  <2>3. /\ conn.buffer \o got \in Seq(Units) /\ Bounded(conn.buffer \o got)
        /\ Len(conn.buffer \o got) = Len(conn.buffer) + k
    BY <2>1, <2>2, ConcatUnits, Zenon
  <2>4. /\ d \in Conns /\ d.buffer = conn.buffer \o got /\ d.strand = conn.strand
        /\ d.pending = conn.pending /\ d.need = conn.need /\ d.reading = "none"
        /\ d.writing = conn.writing
    <3>1. d = [conn EXCEPT !.buffer = conn.buffer \o got, !.reading = "none"]
      BY <2>1 DEF got
    <3> HIDE DEF d
    <3> QED
      BY <2>1, <2>3, <3>1, Zenon DEF Conns
  <2>5. conn.reading # "none" /\ Enough(k)
    BY DEF ReadCompletes
  <2>6. h \in Handlers /\ h \in Toks /\ h \notin Marks
    BY <2>1, <2>5, ReadHandler DEF Results
  <2>7. GoodTok(h, d.buffer)
    <3>1. CASE conn.reading = "head"
      <4>1. HasHead(conn.buffer \o got)
        BY <2>5, <3>1 DEF Enough, got
      <4> QED
        BY <2>4, <3>1, <4>1, Zenon DEF GoodTok
    <3>2. CASE conn.reading = "body"
      <4>1. k >= conn.need /\ conn.need + Len(conn.buffer) >= Length
        BY <2>1, <2>5, <3>2 DEF Enough, Fills
      <4>2. Len(d.buffer) >= Length
        <5>1. Len(conn.buffer) \in Nat /\ k \in Nat /\ conn.need \in Nat /\ Length \in Nat
          BY <2>1, ConnectionAssumption, SMT, SMTT(20)
        <5> QED
          BY <2>3, <2>4, <4>1, <5>1, SMT, SMTT(20)
      <4> QED
        BY <3>2, <4>2 DEF GoodTok
    <3> QED
      BY <2>1, <2>5, <3>1, <3>2
  <2>8. conn' = Post(d, h) /\ wire' = Drop(wire, k) /\ UNCHANGED <<asked, owes, gone, log, errors>>
    BY DEF ReadCompletes
  <2> HIDE DEF d, h
  <2>9. Good(Post(d, h)) /\ Lone(Post(d, h)) /\ Post(d, h).buffer = d.buffer
    BY <2>4, <2>5, <2>6, <2>7, <1>CompletionKeeps, Zenon
  <2>10. ClientOK'
    BY <2>1, <2>2, <2>8 DEF ClientOK
  <2>11. Bounded(wire)' /\ Bounded(conn.buffer)'
    BY <2>2, <2>3, <2>4, <2>8, <2>9, Zenon DEF Bounded
  <2>12. Good(conn)' /\ Lone(conn)'
    BY <2>8, <2>9, Zenon DEF Good, Lone, AtMost, Free, Fills
  <2>13. TypeOK'
    BY <2>10, <2>12, Zenon DEF Good, TypeOK, Conns, ClientOK, Bodies, Statuses
  <2>14. Sent'
    BY <2>8 DEF IInv, Sent
  <2> QED
    BY <2>11, <2>12, <2>13, <2>14 DEF IInv

\* A read or a write that fails, and a write that completes.
<1>OtherCompletions.
  ASSUME IInv, ReadFails \/ WriteCompletes \/ WriteFails
  PROVE  IInv'
  <2> USE <1>OtherCompletions
  <2>1. /\ conn \in Conns /\ conn.reading \in {"none", "head", "body"} /\ ClientOK
        /\ conn.pending \in Seq(Resps) /\ Bounded(wire) /\ Bounded(conn.buffer)
    BY TypeParts, Zenon DEF IInv, Conns
  <2>2. CASE ReadFails
    <3> DEFINE d == [conn EXCEPT !.reading = "none"]
               h == [op |-> "read", of |-> conn.reading, result |-> "failed"]
    <3>1. conn.reading # "none" /\ conn' = Post(d, h) /\ UNCHANGED <<client, log, errors>>
      BY <2>2 DEF ReadFails
    <3>2. /\ d \in Conns /\ d.buffer = conn.buffer /\ d.strand = conn.strand
          /\ d.pending = conn.pending /\ d.need = conn.need /\ d.reading = "none"
          /\ d.writing = conn.writing
      BY <2>1 DEF Conns
    <3>3. h \in Handlers /\ h \in Toks /\ h \notin Marks
      BY <2>1, <3>1, ReadHandler DEF Results
    <3>4. GoodTok(h, d.buffer)
      BY DEF GoodTok
    <3> HIDE DEF d, h
    <3>5. Good(Post(d, h)) /\ Lone(Post(d, h)) /\ Post(d, h).buffer = d.buffer
      BY <3>1, <3>2, <3>3, <3>4, <1>CompletionKeeps, Zenon
    <3> QED
      BY <2>1, <3>1, <3>2, <3>5, <1>StepKeeps
  <2>3. ASSUME WriteCompletes \/ WriteFails
        PROVE  IInv'
    <3> DEFINE d == [conn EXCEPT !.writing = FALSE]
    <3>1. PICK result \in {"ok", "failed"} :
            conn' = Post(d, [op |-> "written", result |-> result])
      BY <2>3 DEF WriteCompletes, WriteFails
    <3> DEFINE h == [op |-> "written", result |-> result]
    <3>2. conn.writing /\ UNCHANGED client
      BY <2>3 DEF WriteCompletes, WriteFails
    <3>3. /\ d \in Conns /\ d.buffer = conn.buffer /\ d.strand = conn.strand
          /\ d.pending = conn.pending /\ d.need = conn.need /\ d.reading = conn.reading
          /\ ~d.writing
      BY <2>1, Zenon DEF Conns
    <3>4. h \in Handlers /\ h \notin Toks /\ h \in Marks /\ GoodTok(h, d.buffer)
      BY WrittenHandler, OtherHandler DEF Results
    <3>5. conn' = Post(d, h)
      BY <3>1
    <3> HIDE DEF d, h
    <3>6. Good(Post(d, h)) /\ Lone(Post(d, h)) /\ Post(d, h).buffer = d.buffer
      BY <3>2, <3>3, <3>4, <1>CompletionKeeps, Zenon
    <3>7. log' \in Seq([n : 0..MaxRequests, status : Statuses]) /\ errors' \in 0..MaxErrors
      <4>1. CASE WriteFails
        BY <2>1, <4>1, ConnectionAssumption, SMT, SMTT(20) DEF WriteFails, ClientOK
      <4>2. CASE WriteCompletes
        <5>1. conn.pending # <<>>
          BY <3>2 DEF IInv, Lone
        <5>2. conn.pending[1] \in Resps
          BY <2>1, <5>1, SMT, SMTT(20)
        <5>3. [n |-> conn.pending[1].n, status |-> conn.pending[1].status]
                \in [n : 0..MaxRequests, status : Statuses]
          BY <5>2, SMT, SMTT(20) DEF Resps, Statuses
        <5> DEFINE S == [n : 0..MaxRequests, status : Statuses]
                   x == [n |-> conn.pending[1].n, status |-> conn.pending[1].status]
        <5>4. log \in Seq(S) /\ errors \in 0..MaxErrors
          BY <2>1 DEF ClientOK
        <5>5. errors' = errors /\ (log' = log \/ log' = Append(log, x))
          BY <4>2 DEF WriteCompletes
        <5>6. x \in S
          BY <5>3
        <5> HIDE DEF S, x
        <5>7. log' \in Seq(S)
          BY <5>4, <5>5, <5>6, SMT, SMTT(20)
        <5> QED
          BY <5>4, <5>5, <5>7 DEF S
      <4> QED
        BY <2>3, <4>1, <4>2
    <3>8. ClientOK'
      BY <2>1, <3>2, <3>7 DEF ClientOK, client
    <3>9. Bounded(wire)' /\ Bounded(conn.buffer)'
      BY <2>1, <3>2, <3>3, <3>5, <3>6, Zenon DEF Bounded, client
    <3>10. Good(conn)' /\ Lone(conn)'
      BY <3>5, <3>6, Zenon DEF Good, Lone, AtMost, Free, Fills
    <3>11. TypeOK'
      BY <3>8, <3>10, Zenon DEF Good, TypeOK, Conns, ClientOK, Bodies, Statuses
    <3>12. Sent'
      BY <3>2 DEF IInv, Sent, client
    <3> QED
      BY <3>9, <3>10, <3>11, <3>12 DEF IInv
  <2> QED
    BY <2>2, <2>3, Zenon

\* The callbacks of the strand.
<1>StrandSteps.
  ASSUME IInv, RunStartRead \/ RunWriteHelper \/ RunReadDone \/ RunWritten \/ RunTimeout
  PROVE  IInv'
  <2> USE <1>StrandSteps
  <2> DEFINE h == Head(conn.strand)
             c == Popped
  <2>1. /\ conn.strand # <<>> /\ UNCHANGED <<client, log, errors>>
    BY Zenon DEF RunStartRead, RunWriteHelper, RunReadDone, RunWritten, RunTimeout, Run
  <2>2. /\ Good(c) /\ c.buffer = conn.buffer /\ h \in Handlers /\ GoodTok(h, conn.buffer)
        /\ h \in Toks => Free(c)
        /\ h \in Marks => Owed(c) /\ c.pending # <<>>
        /\ h \notin Marks => Lone(c)
    BY <2>1, PoppedKeeps DEF IInv
  <2>3. Bounded(conn.buffer) /\ asked \in Seq(Kinds)
    BY TypeParts DEF IInv, ClientOK
  <2>4. Good(conn') /\ Lone(conn') /\ Bounded(conn'.buffer)
    <3>1. CASE RunStartRead
      <4>1. h.op = "start_read" /\ conn' = Read(c, h.of, h.need)
        BY <3>1 DEF RunStartRead, Run
      <4>2. /\ h.of \in {"head", "body"} /\ h.need \in 0..Length /\ Free(c) /\ Lone(c)
            /\ h.of = "body" => h.need + Len(c.buffer) >= Length
        BY <2>2, <4>1, HandlerParts, Zenon DEF GoodTok
      <4> HIDE DEF c, h
      <4> QED
        BY <2>2, <2>3, <4>1, <4>2, <1>ReadKeeps, Zenon
    <3>2. CASE RunWriteHelper
      <4>1. h.op = "write_helper" /\ conn' = WriteHelper(c, h.resp)
        BY <3>2, Zenon DEF RunWriteHelper, Run
      <4>2. h.resp \in Resps /\ Lone(c) /\ (h.resp.then = "read" => Free(c))
        BY <2>2, <4>1, HandlerParts, Zenon
      <4> HIDE DEF c, h
      <4> QED
        BY <2>2, <2>3, <4>1, <4>2, <1>WriteHelperKeeps, Zenon
    <3>3. CASE RunReadDone
      <4>1. h.op = "read" /\ conn' = ReadDone(c, h.of, h.result)
        BY <3>3, Zenon DEF RunReadDone, Run
      <4>2. /\ h.of \in {"head", "body"} /\ h.result \in Results /\ Free(c) /\ Lone(c)
            /\ h.result = "ok" /\ h.of = "head" => HasHead(c.buffer)
            /\ h.result = "ok" /\ h.of = "body" => Len(c.buffer) >= Length
        BY <2>2, <4>1, HandlerParts, Zenon DEF GoodTok
      <4> HIDE DEF c, h
      <4> QED
        BY <2>2, <2>3, <4>1, <4>2, <1>ReadDoneKeeps
    <3>4. CASE RunWritten
      <4>1. h.op = "written" /\ conn' = Written(c, h.result)
        BY <3>4 DEF RunWritten, Run
      <4>2. h.result \in Results /\ Owed(c) /\ c.pending # <<>>
        BY <2>2, <4>1, HandlerParts, Zenon
      <4> HIDE DEF c, h
      <4> QED
        BY <2>2, <2>3, <4>1, <4>2, <1>WrittenKeeps, Zenon
    <3>5. CASE RunTimeout
      <4>1. h.op = "timeout" /\ conn' = TimeoutHandler(c)
        BY <3>5 DEF RunTimeout, Run
      <4>2. Lone(c)
        BY <2>2, <4>1, HandlerParts
      <4> HIDE DEF c, h
      <4> QED
        BY <2>2, <2>3, <4>1, <4>2, <1>TimeoutKeeps, Zenon
    <3> QED
      BY <3>1, <3>2, <3>3, <3>4, <3>5
  <2> QED
    BY <2>1, <2>4, <1>StepKeeps

\* The timer expires.
<1>ExpireStep.
  ASSUME IInv, Expire
  PROVE  IInv'
  <2> USE <1>ExpireStep
  <2> DEFINE d == [conn EXCEPT !.timer = FALSE, !.expired = TRUE]
             h == [op |-> "timeout"]
  <2>1. conn \in Conns /\ Good(conn) /\ Lone(conn) /\ Bounded(conn.buffer)
    BY DEF IInv, Good
  <2>2. d \in Conns /\ Same(conn, d) /\ d.buffer = conn.buffer /\ d.strand = conn.strand
    BY <2>1, Zenon DEF Conns, Same
  <2>3. h \in Handlers /\ h \notin Toks /\ h \notin Marks
    BY WrittenHandler
  <2>4. conn' = (IF conn.timer THEN Post(d, h) ELSE d) /\ UNCHANGED <<client, log, errors>>
    BY DEF Expire
  <2> HIDE DEF d, h
  <2>5. Adds(conn, conn', {h}) /\ conn'.buffer = conn.buffer
    <3>1. /\ Post(d, h) \in Conns /\ Same(d, Post(d, h))
          /\ Post(d, h).strand = Append(d.strand, h) /\ Post(d, h).buffer = d.buffer
      BY <2>2, <2>3, <1>PostAdds
    <3> QED
      BY <2>2, <2>4, <3>1 DEF Adds, Same
  <2>6. Good(conn') /\ Lone(conn')
    BY <2>1, <2>3, <2>5, <1>OtherKeeps, SMT, SMTT(20)
  <2> QED
    BY <2>1, <2>4, <2>5, <2>6, <1>StepKeeps

\* The session is destroyed.
<1>DestroyStep.
  ASSUME IInv, Destroy
  PROVE  IInv'
  <2> USE <1>DestroyStep
  <2>1. conn \in Conns /\ Good(conn) /\ Lone(conn) /\ Bounded(conn.buffer)
    BY DEF IInv, Good
  <2>2. /\ conn' \in Conns /\ Same(conn, conn') /\ conn'.buffer = conn.buffer
        /\ conn'.strand = conn.strand /\ UNCHANGED <<client, log, errors>>
    BY <2>1, Zenon DEF Destroy, Conns, Same
  <2>3. Good(conn') /\ Lone(conn')
    BY <2>1, <2>2, Zenon DEF Good, Lone, AtMost, Free, Fills, Same
  <2> QED
    BY <2>1, <2>2, <2>3, <1>StepKeeps

\* A step of the client that sends at most one unit.
<1>ClientKeeps.
  ASSUME IInv, conn' = conn, log' = log, errors' = errors,
         asked' \in Seq(Kinds), Len(asked) <= Len(asked'), Sent',
         owes' \in 0..Length, gone' \in BOOLEAN,
         \/ wire' = wire
         \/ \E u \in Units : u.n <= Len(asked') /\ wire' = Append(wire, u)
  PROVE  IInv'
  <2> USE <1>ClientKeeps
  <2>1. ClientOK /\ conn \in Conns /\ Bounded(wire) /\ Bounded(conn.buffer)
        /\ conn.buffer \in Seq(Units) /\ wire \in Seq(Units)
        /\ Len(asked) \in Nat /\ Len(asked') \in Nat
    BY TypeParts, SMT, SMTT(20) DEF IInv, ClientOK, Conns
  <2>2. ASSUME NEW b \in Seq(Units), Bounded(b), NEW i \in DOMAIN b
        PROVE  b[i].n <= Len(asked')
    <3>1. b[i] \in Units /\ b[i].n <= Len(asked)
      BY <2>2, SMT, SMTT(20) DEF Bounded
    <3>2. b[i].n \in Int
      BY <3>1, ConnectionAssumption, SMT, SMTT(20) DEF Units
    <3> QED
      BY <2>1, <3>1, <3>2, SMT, SMTT(20)
  <2>3. wire' \in Seq(Units) /\ \A i \in DOMAIN wire' : wire'[i].n <= Len(asked')
    <3>1. CASE wire' = wire
      BY <2>1, <2>2, <3>1
    <3>2. ASSUME NEW u \in Units, u.n <= Len(asked'), wire' = Append(wire, u)
          PROVE  <2>3!:
      <4>1. wire' \in Seq(Units)
        BY <2>1, <3>2, SMT, SMTT(20)
      <4>2. ASSUME NEW i \in DOMAIN wire'
            PROVE  wire'[i].n <= Len(asked')
        <5>1. (i \in DOMAIN wire /\ wire'[i] = wire[i]) \/ wire'[i] = u
          BY <2>1, <3>2, SMT, SMTT(20)
        <5> QED
          BY <2>1, <2>2, <3>2, <5>1
      <4> QED
        BY <4>1, <4>2
    <3> QED
      BY <3>1, <3>2
  <2>4. Bounded(wire)' /\ Bounded(conn.buffer)'
    <3>1. \A i \in DOMAIN conn.buffer : conn.buffer[i].n <= Len(asked')
      BY <2>1, <2>2
    <3> QED
      BY <2>3, <3>1 DEF Bounded
  <2>5. ClientOK'
    BY <2>1, <2>3, Zenon DEF ClientOK
  <2>6. Good(conn)' /\ Lone(conn)'
    BY Zenon DEF IInv, Good, Lone, AtMost, Free, Fills
  <2>7. TypeOK'
    BY <2>5, <2>6 DEF Good, TypeOK, Conns, ClientOK, Bodies, Statuses
  <2> QED
    BY <2>4, <2>6, <2>7, Zenon DEF IInv

\* The client's steps.
<1>ClientStep.
  ASSUME IInv, (\E kind \in Kinds : Send(kind)) \/ SendBody \/ Leave
  PROVE  IInv'
  <2> USE <1>ClientStep
  <2>1. /\ asked \in Seq(Kinds) /\ Len(asked) \in Nat /\ owes \in 0..Length /\ gone \in BOOLEAN
        /\ Length \in Nat /\ MaxRequests \in Nat /\ Sent
    BY TypeParts, ConnectionAssumption, SMT, SMTT(20) DEF IInv, ClientOK
  <2>2. conn' = conn /\ log' = log /\ errors' = errors
    BY DEF Send, SendBody, Leave
  <2>3. ASSUME NEW kind \in Kinds, Send(kind)
        PROVE  IInv'
    <3>1. /\ asked' = Append(asked, kind) /\ owes' = BodyLength(kind) /\ gone' = gone
          /\ wire' = Append(wire, HeadOf(Len(asked) + 1)) /\ Len(asked) < MaxRequests
      BY <2>3 DEF Send
    <3>2. asked' \in Seq(Kinds) /\ Len(asked') = Len(asked) + 1 /\ asked' # <<>>
      BY <2>1, <3>1, SMT, SMTT(20)
    <3>3. /\ HeadOf(Len(asked) + 1) \in Units /\ HeadOf(Len(asked) + 1).n <= Len(asked')
      BY <2>1, <3>1, <3>2, SMT, SMTT(20) DEF HeadOf, Units
    <3>4. owes' \in 0..Length /\ Sent' /\ Len(asked) <= Len(asked')
      BY <2>1, <3>1, <3>2, SMT, SMTT(20) DEF BodyLength, Sent
    <3> QED
      BY <2>1, <2>2, <3>1, <3>2, <3>3, <3>4, <1>ClientKeeps
  <2>4. CASE SendBody
    <3>1. /\ owes' = owes - 1 /\ wire' = Append(wire, BodyOf(Len(asked))) /\ owes > 0
          /\ asked' = asked /\ gone' = gone
      BY <2>4 DEF SendBody
    <3>2. Len(asked) \in 1..MaxRequests
      BY <2>1, <3>1, SMT, SMTT(20) DEF Sent
    <3>3. BodyOf(Len(asked)) \in Units /\ BodyOf(Len(asked)).n <= Len(asked')
      BY <3>1, <3>2, SMT, SMTT(20) DEF BodyOf, Units
    <3>4. owes' \in 0..Length /\ Sent' /\ Len(asked) <= Len(asked')
      BY <2>1, <3>1, SMT, SMTT(20) DEF Sent
    <3> QED
      BY <2>1, <2>2, <3>1, <3>3, <3>4, <1>ClientKeeps
  <2>5. CASE Leave
    <3>1. asked' = asked /\ owes' = owes /\ wire' = wire /\ gone' = TRUE
      BY <2>5 DEF Leave
    <3>2. Sent' /\ Len(asked) <= Len(asked')
      BY <2>1, <3>1, SMT, SMTT(20) DEF Sent
    <3> QED
      BY <2>1, <2>2, <3>1, <3>2, <1>ClientKeeps
  <2> QED
    BY <2>3, <2>4, <2>5

<1> SUFFICES ASSUME IInv, [Next]_vars PROVE IInv'
  OBVIOUS
<1>1. CASE UNCHANGED vars
  <2>1. Good(conn') /\ Lone(conn') /\ Bounded(conn'.buffer)
    BY <1>1 DEF vars, IInv
  <2> QED
    BY <1>1, <2>1, <1>StepKeeps DEF vars
<1>2. CASE Next
  BY <1>2, <1>StrandSteps, <1>ReadCompletesStep, <1>OtherCompletions, <1>ExpireStep, <1>DestroyStep,
     <1>ClientStep, Zenon DEF Next
<1> QED
  BY <1>1, <1>2

\* The invariant holds for ever.
LEMMA Invariance == Spec => []IInv
BY InitInv, StepInv, PTL DEF Spec

\* The members of the socket and of the session have their types, whatever the
\* client does and however its data is cut: parse_request and fetch_body find
\* what they take, and no write is retried more often than allowed.
THEOREM TypeCorrect == Spec => []TypeOK
<1>1. IInv => TypeOK
  BY DEF IInv
<1> QED
  BY <1>1, Invariance, PTL

\* One write is under way exactly when a response is pending: the completion
\* handler of write() always finds the front of m_pending_writes.
THEOREM WritesOneAtATime == Spec => []OneWrite
<1>1. ASSUME IInv
      PROVE  OneWrite
  <2>1. conn \in Conns /\ conn.strand \in Seq(Handlers) /\ Lone(conn)
    BY <1>1 DEF IInv, Good, Conns
  <2>2. \A i \in DOMAIN conn.strand : conn.strand[i].op = "written" <=> conn.strand[i] \in Marks
    BY <2>1, HandlerParts, SMT, SMTT(20)
  <2>3. Posted("written") = {i \in DOMAIN conn.strand : conn.strand[i] \in Marks}
    BY <2>2 DEF Posted
  <2>4. /\ Zero(conn.strand, Marks) => Cardinality(Posted("written")) = 0
        /\ One(conn.strand, Marks) => Cardinality(Posted("written")) = 1
    BY <2>3, CountCard
  <2> QED
    BY <2>1, <2>4, SMT, SMTT(20) DEF OneWrite, Lone
<1> QED
  BY <1>1, Invariance, PTL

\* At most one read, asked for, under way or complete, or response after
\* which the connection reads on: the session's Request is never in use twice,
\* even though a failed write both calls back and is retried.
THEOREM RequestsOneAtATime == Spec => []OneRequest
<1>1. ASSUME IInv
      PROVE  OneRequest
  <2> DEFINE s == conn.strand
             A == Posted("start_read")
             B == Posted("read")
             W == {i \in Posted("write_helper") : conn.strand[i].resp.then = "read"}
             P == {i \in DOMAIN conn.pending : conn.pending[i].then = "read"}
  <2>1. /\ conn \in Conns /\ s \in Seq(Handlers) /\ conn.pending \in Seq(Resps)
        /\ AtMost(conn)
    BY <1>1 DEF IInv, Good, Conns
  <2>2. \A i \in DOMAIN s : s[i] \in Toks <=> i \in A \/ i \in B \/ i \in W
    <3>1. \A i \in DOMAIN s : s[i] \in Handlers
      BY <2>1, SMT, SMTT(20)
    <3> QED
      BY <3>1 DEF Posted, Toks
  <2>3. A \subseteq DOMAIN s /\ B \subseteq DOMAIN s /\ W \subseteq DOMAIN s
    BY DEF Posted
  <2>4. A \cap B = {} /\ A \cap W = {} /\ B \cap W = {}
    BY DEF Posted
  <2>5. P = {i \in DOMAIN conn.pending : conn.pending[i] \in Ons}
    <3>1. \A i \in DOMAIN conn.pending : conn.pending[i] \in Resps
      BY <2>1, SMT, SMTT(20)
    <3> QED
      BY <3>1 DEF Ons
  <2>6. /\ Zero(conn.pending, Ons) => Cardinality(P) = 0
        /\ One(conn.pending, Ons) => Cardinality(P) = 1
    <3> HIDE DEF P
    <3> QED
      BY <2>5, CountCard
  <2>7. OneRequest <=> Cardinality(A) + Cardinality(B)
                         + (IF conn.reading = "none" THEN 0 ELSE 1)
                         + Cardinality(P) + Cardinality(W) <= 1
    BY DEF OneRequest
  <2> HIDE DEF A, B, W, P, s
  <2>8. Zero(s, Toks) => Cardinality(A) = 0 /\ Cardinality(B) = 0 /\ Cardinality(W) = 0
    <3>1. Zero(s, Toks) => A = {} /\ B = {} /\ W = {}
      BY <2>2, <2>3 DEF Zero
    <3> QED
      BY <3>1, CardSmall, Zenon
  <2>9. One(s, Toks) =>
          \/ Cardinality(A) = 1 /\ Cardinality(B) = 0 /\ Cardinality(W) = 0
          \/ Cardinality(A) = 0 /\ Cardinality(B) = 1 /\ Cardinality(W) = 0
          \/ Cardinality(A) = 0 /\ Cardinality(B) = 0 /\ Cardinality(W) = 1
    <3> SUFFICES ASSUME One(s, Toks) PROVE <2>9!2
      OBVIOUS
    <3>1. PICK x \in DOMAIN s : s[x] \in Toks /\ \A j \in DOMAIN s : s[j] \in Toks => j = x
      BY DEF One
    <3>2. \A y : y \in A \/ y \in B \/ y \in W <=> y = x
      BY <2>2, <2>3, <3>1
    <3>3. \/ A = {x} /\ B = {} /\ W = {}
          \/ A = {} /\ B = {x} /\ W = {}
          \/ A = {} /\ B = {} /\ W = {x}
      BY <2>4, <3>2, SMT, SMTT(20)
    <3> QED
      BY <3>3, CardSmall, Zenon
  <2>10. AtMost(conn) => \/ conn.reading = "none" /\ Zero(s, Toks) /\ Zero(conn.pending, Ons)
                         \/ conn.reading # "none" /\ Zero(s, Toks) /\ Zero(conn.pending, Ons)
                         \/ conn.reading = "none" /\ One(s, Toks) /\ Zero(conn.pending, Ons)
                         \/ conn.reading = "none" /\ Zero(s, Toks) /\ One(conn.pending, Ons)
    BY DEF AtMost, Free, s
  <2> QED
    BY <2>1, <2>6, <2>7, <2>8, <2>9, <2>10, SMT, SMTT(20)
<1> QED
  BY <1>1, Invariance, PTL

(***************************************************************************)
(* The units a connection has not taken yet.                               *)
(***************************************************************************)

\* What follows a head in u: the body of its request, then the next head.
Heads(a, u) ==
  \A i \in 1..Len(u) : u[i].part = "head" =>
    /\ \A j \in 1..Len(u) : i < j /\ j <= i + BodyLength(a[u[i].n]) => u[j] = BodyOf(u[i].n)
    /\ i + BodyLength(a[u[i].n]) < Len(u)
         => u[i + BodyLength(a[u[i].n]) + 1] = HeadOf(u[i].n + 1)

\* The first r units of u are the rest of request m, then comes the next head.
Start(u, m, r) ==
  /\ \A j \in 1..Len(u) : j <= r => u[j] = BodyOf(m)
  /\ r < Len(u) => u[r + 1] = HeadOf(m + 1)

\* Of the last request of a, o units of the body are missing at the end of u.
End(a, o, u, m, r) ==
  \/ Len(u) <= r /\ m = Len(a) /\ Len(u) + o = r
  \/ Len(u) > r /\ \E i \in 1..Len(u) : /\ u[i] = HeadOf(Len(a))
                                       /\ Len(u) + o = i + BodyLength(a[Len(a)])

Chain(a, o, u, m, r) == Start(u, m, r) /\ Heads(a, u) /\ End(a, o, u, m, r)

\* What is used of a sequence of units.
List(u) == Len(u) \in Nat /\ DOMAIN u = 1..Len(u)

\* v is u without its first k units.
Shift(u, v, k) ==
  /\ Len(v) = Len(u) - k
  /\ \A j \in 1..Len(v) : v[j] = u[j + k]

\* Sequences with the same members are equal.
LEMMA SameSeq ==
  ASSUME NEW S, NEW s \in Seq(S), NEW t \in Seq(S), Len(s) = Len(t),
         \A i \in 1..Len(s) : s[i] = t[i]
  PROVE  s = t
BY SMT, SMTT(20)

\* A head is not a unit of a body.
LEMMA Parts ==
  ASSUME NEW m, NEW n
  PROVE  /\ HeadOf(m) # BodyOf(n) /\ HeadOf(m).part = "head" /\ BodyOf(m).part = "body"
         /\ HeadOf(m).n = m /\ BodyOf(m).n = m
BY DEF HeadOf, BodyOf

\* The length of a body.
LEMMA Lengths ==
  ASSUME NEW kind
  PROVE  /\ BodyLength(kind) \in Nat /\ Length \in Nat /\ Length > 0
         /\ BodyLength(kind) = 0 \/ BodyLength(kind) = Length
         /\ kind \in {"payment", "purgeBody"} <=> BodyLength(kind) = Length
BY ConnectionAssumption, SMT, SMTT(20) DEF BodyLength

\* u begins with b.
Begins(b, u) == Len(b) <= Len(u) /\ \A j \in 1..Len(b) : b[j] = u[j]

\* v is u and one more unit.
Grows(u, v, x) ==
  /\ Len(v) = Len(u) + 1
  /\ \A j \in 1..Len(u) : v[j] = u[j]
  /\ v[Len(u) + 1] = x
(***************************************************************************)
(* What the callbacks of a request do, exactly.                            *)
(***************************************************************************)

\* The members of a connection that these callbacks leave alone.
Kin(c, d) ==
  /\ Same(c, d)
  /\ d.fd = c.fd /\ d.timer = c.timer /\ d.expired = c.expired /\ d.ended = c.ended
  /\ d.open = c.open

\* Only handlers are posted.
Only(c, d) ==
  /\ d \in Conns /\ Kin(c, d)
  /\ d.buffer = c.buffer /\ d.cur = c.cur /\ d.queued = c.queued

Reply(n, status, then) ==
  [op |-> "write_helper",
   resp |-> [n |-> n, status |-> status, then |-> then, tries |-> 0]]

\* What is posted if the session is open.
IfOpen(c, h) == IF c.open THEN Append(c.strand, h) ELSE c.strand

\* A response is a response, and its handler is one.
LEMMA ReplyParts ==
  ASSUME NEW n \in 0..MaxRequests, NEW status \in Statuses, NEW then \in {"read", "close"}
  PROVE  LET h == Reply(n, status, then) IN
         /\ h \in Handlers /\ h.op = "write_helper" /\ h.resp \in Resps
         /\ h.resp.n = n /\ h.resp.status = status /\ h.resp.then = then
         /\ h \notin Marks /\ (h \in Toks <=> then = "read")
<1> DEFINE r == [n |-> n, status |-> status, then |-> then, tries |-> 0]
           h == [op |-> "write_helper", resp |-> r]
<1>1. r \in Resps /\ r.then = then /\ r.n = n /\ r.status = status
  BY ConnectionAssumption, SMT, SMTT(20) DEF Resps, Statuses
<1>2. h = Reply(n, status, then)
  BY DEF Reply
<1> HIDE DEF r
<1>3. h \in Handlers /\ h.op = "write_helper" /\ h.resp = r
  BY <1>1 DEF Handlers
<1> HIDE DEF h
<1> QED
  BY <1>1, <1>2, <1>3, HandlerParts

\* Posting a handler posts a handler.
LEMMA PostOnly ==
  ASSUME NEW c \in Conns, NEW h \in Handlers
  PROVE  Only(c, Post(c, h)) /\ Post(c, h).strand = Append(c.strand, h)
<1>1. Append(c.strand, h) \in Seq(Handlers)
  BY SMT, SMTT(20) DEF Conns
<1> QED
  BY <1>1, Zenon DEF Post, Conns, Only, Kin, Same

\* transmit.
LEMMA TransmitOnly ==
  ASSUME NEW c \in Conns, NEW n \in 0..MaxRequests, NEW status \in Statuses,
         NEW then \in {"read", "close"}
  PROVE  LET d == Transmit(c, n, status, then) IN
         Only(c, d) /\ d.strand = Append(c.strand, Reply(n, status, then))
<1>1. Reply(n, status, then) \in Handlers
  BY ReplyParts
<1>2. Transmit(c, n, status, then) = Post(c, Reply(n, status, then))
  BY Zenon DEF Transmit, Reply
<1> QED
  BY <1>1, <1>2, PostOnly

\* The error handler.
LEMMA SessionErrorOnly ==
  ASSUME NEW c \in Conns, NEW n \in 0..MaxRequests
  PROVE  LET d == SessionError(c, n) IN
         /\ Only(c, d)
         /\ d.strand = c.strand \/ d.strand = Append(c.strand, Reply(n, 500, "close"))
         /\ ~c.open => d.strand = c.strand
<1> DEFINE d == [c EXCEPT !.handled = TRUE]
<1>1. Only(c, d) /\ d.strand = c.strand
  BY Zenon DEF Conns, Only, Kin, Same
<1>2. 500 \in Statuses
  BY SMT, SMTT(20) DEF Statuses
<1>3. SessionError(c, n) = IF c.open /\ ~c.handled THEN Transmit(d, n, 500, "close") ELSE d
  BY DEF SessionError
<1> HIDE DEF d
<1>4. d \in Conns
  BY <1>1 DEF Only
<1>5. LET e == Transmit(d, n, 500, "close") IN
      Only(d, e) /\ e.strand = Append(d.strand, Reply(n, 500, "close"))
  BY <1>2, <1>4, TransmitOnly, SMT, SMTT(20)
<1>6. CASE c.open /\ ~c.handled
  <2>1. SessionError(c, n) = Transmit(d, n, 500, "close")
    BY <1>3, <1>6, Zenon
  <2>2. Only(c, SessionError(c, n))
    BY <1>1, <1>5, <2>1, SMT, SMTT(20) DEF Only, Kin, Same
  <2> QED
    BY <1>1, <1>5, <1>6, <2>1, <2>2, SMT, SMTT(20)
<1>7. CASE ~(c.open /\ ~c.handled)
  BY <1>1, <1>3, <1>7
<1> QED
  BY <1>6, <1>7

\* fetch_body: the payment is taken from the buffer and answered.
Takes(c, d) ==
  /\ d \in Conns /\ Kin(c, d) /\ d.cur = c.cur
  /\ d.buffer = Drop(c.buffer, Length)
  /\ d.queued = Append(c.queued, [n |-> c.cur, body |-> SubSeq(c.buffer, 1, Length)])
  /\ d.strand = IfOpen(c, Reply(c.cur, 202, "read"))

\* parse_request takes a head.
Cut(c) == [c EXCEPT !.buffer = Drop(@, FirstHead(c.buffer)),
                    !.cur = c.buffer[FirstHead(c.buffer)].n]
(***************************************************************************)
(* Where a connection is in what the client sends.                         *)
(***************************************************************************)

\* A read of a body is asked for, under way or complete.
BodyToks == {h \in Handlers : h.op \in {"start_read", "read"} /\ h.of = "body"}
Midway(c) == c.reading = "body" \/ ~Zero(c.strand, BodyToks)

\* What was not taken yet.
Rest(c) == c.buffer \o wire

\* The next unit to be taken is the first one of a payment's body ...
InBody(c) ==
  /\ c.cur \in 1..Len(asked) /\ asked[c.cur] = "payment"
  /\ Chain(asked, owes, Rest(c), c.cur, Length)
  /\ \A i \in DOMAIN c.queued : c.queued[i].n < c.cur

\* ... or the next head, behind a body that was left if any.
AtHead(c) ==
  /\ \A i \in DOMAIN c.queued : c.queued[i].n <= c.cur
  /\ \/ Chain(asked, owes, Rest(c), c.cur, 0)
     \/ /\ c.cur \in 1..Len(asked) /\ asked[c.cur] = "purgeBody"
        /\ Chain(asked, owes, Rest(c), c.cur, Length)

\* Unless no request will be handled any more.
Stream(c) ==
  \/ Free(c)
  \/ Midway(c) /\ InBody(c)
  \/ ~Midway(c) /\ AtHead(c)

\* Payments that were enqueued, each once and with its own body.
Paid(x) ==
  /\ x.n \in 1..Len(asked) /\ asked[x.n] = "payment"
  /\ x.body = [u \in 1..Length |-> BodyOf(x.n)]
Owned(c) ==
  /\ \A i \in DOMAIN c.queued : Paid(c.queued[i])
  /\ \A i, j \in DOMAIN c.queued : c.queued[i].n = c.queued[j].n => i = j

\* A status that a request may get.
Right(n, status) ==
  /\ n \in 1..Len(asked)
  /\ \/ status = Status(asked[n])
     \/ status = 400 /\ \E m \in 1..(n - 1) : asked[m] = "purgeBody"
     \/ status = 500 /\ (errors > 0 \/ gone)

\* A response closes only where it may.
Ends(r) == r.then = "close" => Closing(asked[r.n]) \/ r.status = 400

\* What a completed read leads to: nothing, on a closed session; a response;
\* or a read of the body.
Silent(c, d) == d.strand = c.strand /\ ~d.open
Replies(c, d) ==
  \E r \in Resps :
    /\ d.strand = Append(c.strand, [op |-> "write_helper", resp |-> r]) /\ d.open
    /\ r.n = d.cur /\ Right(r.n, r.status) /\ Ends(r)
    /\ \A i \in DOMAIN d.queued : d.queued[i].n = r.n => r.status = 202
    /\ \A i \in DOMAIN d.queued :
         d.queued[i].n = r.n \/ \E j \in DOMAIN c.queued : c.queued[j].n = d.queued[i].n
AsksBody(c, d) ==
  \E h \in BodyToks :
    d.strand = Append(c.strand, h) /\ h.op = "start_read" /\ d.open /\ d.queued = c.queued

\* Reads of a body among the handlers.
LEMMA BodyTokParts ==
  ASSUME NEW h \in Handlers
  PROVE  /\ h \in BodyToks => h \in Toks /\ h \notin Marks
         /\ h.op \in {"start_read", "read"} => (h \in BodyToks <=> h.of = "body")
         /\ h.op \notin {"start_read", "read"} => h \notin BodyToks
BY Zenon DEF BodyToks, Toks, Marks

\* A connection that handles no request reads no body.
LEMMA FreeNotMidway ==
  ASSUME NEW c \in Conns, Free(c)
  PROVE  ~Midway(c) /\ Zero(c.strand, BodyToks)
<1>1. \A i \in DOMAIN c.strand : c.strand[i] \in Handlers
  BY SMT, SMTT(20) DEF Conns
<1>2. Zero(c.strand, BodyToks)
  BY <1>1, BodyTokParts DEF Free, Zero
<1> QED
  BY <1>2 DEF Free, Midway

\* The outcome of a completed read of a connection c.
Outcome(c, d) ==
  /\ d \in Conns /\ Kin(c, d) /\ Stream(d) /\ Owned(d)
  /\ Silent(c, d) \/ Replies(c, d) \/ AsksBody(c, d)

\* What was taken depends on a few members of a connection only.
LEMMA SameParts ==
  ASSUME NEW c, NEW d, d.queued = c.queued
  PROVE  /\ Owned(c) => Owned(d)
         /\ d.buffer = c.buffer /\ d.cur = c.cur
              => (InBody(c) => InBody(d)) /\ (AtHead(c) => AtHead(d))
<1>1. Owned(c) => Owned(d)
  BY Zenon DEF Owned
<1>2. ASSUME d.buffer = c.buffer, d.cur = c.cur
      PROVE  (InBody(c) => InBody(d)) /\ (AtHead(c) => AtHead(d))
  <2>1. Rest(d) = Rest(c)
    BY <1>2 DEF Rest
  <2> QED
    BY <1>2, <2>1 DEF InBody, AtHead
<1> QED
  BY <1>1, <1>2

\* What the completion handler of read() makes of a connection.
ReadEnds(c, of, result, d) ==
  /\ d \in Conns /\ Same(c, d) /\ Stream(d) /\ Owned(d)
  /\ d.fd = c.fd /\ d.ended = c.ended
  /\ IF result = "ok"
     THEN /\ d.open = c.open /\ d.cur = (IF of = "head" THEN c.cur + 1 ELSE c.cur)
          /\ Silent(c, d) \/ Replies(c, d) \/ AsksBody(c, d)
     ELSE ~d.open /\ d.strand = c.strand /\ d.queued = c.queued /\ d.cur = c.cur

\* The completion handler of read().
LEMMA ReadDoneOutcome ==
  ASSUME wire \in Seq(Units), owes \in Nat, asked \in Seq(Kinds)
  PROVE  \A c \in Conns, of \in {"head", "body"}, result \in Results :
           /\ Free(c) /\ Owned(c) /\ Bounded(c.buffer)
           /\ of = "head" => AtHead(c)
           /\ of = "body" => InBody(c)
           /\ result = "ok" /\ of = "head" => HasHead(c.buffer)
           /\ result = "ok" /\ of = "body" => Len(c.buffer) >= Length
           => ReadEnds(c, of, result, ReadDone(c, of, result))
\* What follows a head does not change when units before it are taken.
<1>HeadsShift.
  ASSUME NEW a, NEW u, List(u), NEW v, List(v), NEW k \in 0..Len(u),
         Shift(u, v, k), Heads(a, u)
  PROVE  Heads(a, v)
  <2> USE <1>HeadsShift
  <2>1. /\ Len(u) \in Nat /\ Len(v) \in Nat /\ k \in Nat /\ Len(v) = Len(u) - k
    BY SMT, SMTT(20) DEF Shift, List
  <2>2. \A j \in 1..Len(v) : v[j] = u[j + k] /\ j + k \in 1..Len(u)
    BY <2>1, SMT, SMTT(20) DEF Shift
  <2> SUFFICES ASSUME NEW i \in 1..Len(v), v[i].part = "head"
               PROVE  /\ \A j \in 1..Len(v) :
                           i < j /\ j <= i + BodyLength(a[v[i].n]) => v[j] = BodyOf(v[i].n)
                      /\ i + BodyLength(a[v[i].n]) < Len(v)
                           => v[i + BodyLength(a[v[i].n]) + 1] = HeadOf(v[i].n + 1)
    BY DEF Heads
  <2> DEFINE l == BodyLength(a[v[i].n])
  <2>3. l \in Nat
    BY Lengths
  <2>4. v[i] = u[i + k] /\ i + k \in 1..Len(u)
    BY <2>2, Zenon
  <2>5. /\ \A j \in 1..Len(u) : i + k < j /\ j <= i + k + l => u[j] = BodyOf(v[i].n)
        /\ i + k + l < Len(u) => u[i + k + l + 1] = HeadOf(v[i].n + 1)
    BY <2>4, Zenon DEF Heads
  <2> HIDE DEF l
  <2>6. ASSUME NEW j \in 1..Len(v), i < j, j <= i + l
        PROVE  v[j] = BodyOf(v[i].n)
    <3>1. j + k \in 1..Len(u) /\ i + k < j + k /\ j + k <= i + k + l /\ v[j] = u[j + k]
      BY <2>1, <2>2, <2>3, <2>6, SMT, SMTT(20)
    <3> QED
      BY <2>5, <3>1, Zenon
  <2>7. ASSUME i + l < Len(v)
        PROVE  v[i + l + 1] = HeadOf(v[i].n + 1)
    <3>1. i + l + 1 \in 1..Len(v) /\ i + k + l < Len(u) /\ (i + l + 1) + k = i + k + l + 1
      BY <2>1, <2>3, <2>7, SMT, SMTT(20)
    <3> QED
      BY <2>2, <2>5, <3>1, Zenon
  <2> QED
    BY <2>6, <2>7 DEF l

\* Taking a head.
<1>ChainHead.
  ASSUME NEW a, NEW o \in Nat, NEW m \in Nat,
         NEW u, List(u), NEW v, List(v), Len(u) > 0, Shift(u, v, 1),
         Chain(a, o, u, m, 0)
  PROVE  u[1] = HeadOf(m + 1) /\ Chain(a, o, v, m + 1, BodyLength(a[m + 1]))
  <2> USE <1>ChainHead
  <2> DEFINE l == BodyLength(a[m + 1])
  <2>1. /\ Len(u) \in Nat /\ Len(v) \in Nat /\ Len(v) = Len(u) - 1
    BY DEF Shift, List
  <2>2. \A j \in 1..Len(v) : v[j] = u[j + 1] /\ j + 1 \in 1..Len(u)
    BY <2>1, SMT, SMTT(20) DEF Shift
  <2>3. u[1] = HeadOf(m + 1) /\ 1 \in 1..Len(u) /\ u[1].part = "head" /\ u[1].n = m + 1
    <3>1. u[0 + 1] = HeadOf(m + 1) /\ 0 + 1 = 1
      BY <2>1, SMT, SMTT(20) DEF Chain, Start
    <3> QED
      BY <2>1, <3>1, Parts, SMT, SMTT(20)
  <2>4. l \in Nat
    BY Lengths, Zenon
  <2>5. /\ \A j \in 1..Len(u) : 1 < j /\ j <= 1 + l => u[j] = BodyOf(m + 1)
        /\ 1 + l < Len(u) => u[1 + l + 1] = HeadOf(m + 1 + 1)
    BY <2>3 DEF Chain, Heads
  <2>6. PICK i \in 1..Len(u) : u[i] = HeadOf(Len(a)) /\ Len(u) + o = i + BodyLength(a[Len(a)])
    BY <2>1, SMT, SMTT(20) DEF Chain, End
  <2> HIDE DEF l
  <2>7. Start(v, m + 1, l)
    <3>1. ASSUME NEW j \in 1..Len(v), j <= l
          PROVE  v[j] = BodyOf(m + 1)
      <4>1. j + 1 \in 1..Len(u) /\ 1 < j + 1 /\ j + 1 <= 1 + l
        BY <2>1, <2>4, <3>1, SMT, SMTT(20)
      <4> QED
        BY <2>2, <2>5, <4>1
    <3>2. ASSUME l < Len(v)
          PROVE  v[l + 1] = HeadOf(m + 1 + 1)
      <4>1. l + 1 \in 1..Len(v) /\ 1 + l < Len(u) /\ (l + 1) + 1 = 1 + l + 1
        BY <2>1, <2>4, <3>2, SMT, SMTT(20)
      <4> QED
        BY <2>2, <2>5, <4>1
    <3> QED
      BY <3>1, <3>2 DEF Start
  <2>8. Heads(a, v)
    BY <2>1, <1>HeadsShift, SMT, SMTT(20) DEF Chain
  <2>9. i = 1 \/ i > 1 + l
    BY <2>1, <2>4, <2>5, <2>6, Parts, SMT, SMTT(20)
  <2>10. i = 1 => Len(a) = m + 1
    BY <2>3, <2>6, Parts, SMT, SMTT(20)
  <2>11. End(a, o, v, m + 1, l)
    <3>1. CASE i = 1
      <4>1. Len(u) + o = 1 + l
        BY <2>6, <2>10, <3>1 DEF l
      <4> QED
        BY <2>1, <2>4, <2>10, <3>1, <4>1, SMT, SMTT(20) DEF End
    <3>2. CASE i > 1 + l
      <4>1. i - 1 \in 1..Len(v) /\ (i - 1) + 1 = i /\ Len(v) > l
        BY <2>1, <2>4, <3>2, SMT, SMTT(20)
      <4>2. BodyLength(a[Len(a)]) \in Nat
        BY Lengths
      <4>3. v[i - 1] = HeadOf(Len(a))
        BY <2>2, <2>6, <4>1, Zenon
      <4>4. Len(v) + o = (i - 1) + BodyLength(a[Len(a)])
        BY <2>1, <2>6, <4>2, SMT, SMTT(20)
      <4> QED
        BY <4>1, <4>3, <4>4 DEF End
    <3> QED
      BY <2>9, <3>1, <3>2
  <2> QED
    BY <2>3, <2>7, <2>8, <2>11 DEF Chain, l

\* Taking the rest of a body.
<1>ChainBody.
  ASSUME NEW a, NEW o \in Nat, NEW m \in Nat, NEW r \in Nat,
         NEW u, List(u), NEW v, List(v), r <= Len(u), Shift(u, v, r),
         Chain(a, o, u, m, r)
  PROVE  (\A j \in 1..r : u[j] = BodyOf(m)) /\ Chain(a, o, v, m, 0)
  <2> USE <1>ChainBody
  <2>1. /\ Len(u) \in Nat /\ Len(v) \in Nat /\ Len(v) = Len(u) - r
    BY DEF Shift, List
  <2>2. \A j \in 1..Len(v) : v[j] = u[j + r] /\ j + r \in 1..Len(u)
    BY <2>1, SMT, SMTT(20) DEF Shift
  <2>3. \A j \in 1..r : u[j] = BodyOf(m) /\ j \in 1..Len(u)
    BY <2>1, SMT, SMTT(20) DEF Chain, Start
  <2>4. Start(v, m, 0)
    <3>1. 0 < Len(v) => v[0 + 1] = HeadOf(m + 1)
      <4>1. 0 < Len(v) => 1 \in 1..Len(v) /\ 1 + r = r + 1 /\ r < Len(u)
        BY <2>1, SMT, SMTT(20)
      <4> QED
        BY <2>2, <4>1, SMT, SMTT(20) DEF Chain, Start
    <3>2. \A j \in 1..Len(v) : ~(j <= 0)
      BY <2>1, SMT, SMTT(20)
    <3> QED
      BY <3>1, <3>2 DEF Start
  <2>5. Heads(a, v)
    BY <2>1, <1>HeadsShift, SMT, SMTT(20) DEF Chain
  <2>6. End(a, o, v, m, 0)
    <3>1. CASE Len(u) <= r
      BY <2>1, <3>1, SMT, SMTT(20) DEF Chain, End
    <3>2. CASE Len(u) > r
      <4>1. PICK i \in 1..Len(u) : u[i] = HeadOf(Len(a)) /\ Len(u) + o = i + BodyLength(a[Len(a)])
        BY <2>1, <3>2, SMT, SMTT(20) DEF Chain, End
      <4>2. i > r
        BY <2>1, <2>3, <4>1, Parts, SMT, SMTT(20)
      <4>3. i - r \in 1..Len(v) /\ (i - r) + r = i
        BY <2>1, <4>2, SMT, SMTT(20)
      <4>4. BodyLength(a[Len(a)]) \in Nat
        BY Lengths
      <4>5. v[i - r] = HeadOf(Len(a))
        BY <2>2, <4>1, <4>3
      <4>6. Len(v) + o = (i - r) + BodyLength(a[Len(a)])
        <5> DEFINE b == BodyLength(a[Len(a)])
        <5>1. b \in Nat /\ Len(u) + o = i + b
          BY <4>1, <4>4
        <5> HIDE DEF b
        <5>2. Len(v) + o = (i - r) + b
          BY <2>1, <5>1, SMT, SMTT(20)
        <5> QED
          BY <5>2 DEF b
      <4> QED
        BY <2>1, <4>3, <4>5, <4>6, SMT, SMTT(20) DEF End
    <3> QED
      BY <2>1, <3>1, <3>2, SMT, SMTT(20)
  <2> QED
    BY <2>3, <2>4, <2>5, <2>6 DEF Chain

\* A head behind the rest of a body is the first one.
<1>ChainFirst.
  ASSUME NEW a, NEW o, NEW m, NEW r \in Nat, NEW u, List(u), Chain(a, o, u, m, r),
         NEW b, List(b), HasHead(b), Begins(b, u)
  PROVE  FirstHead(b) = r + 1 /\ b[FirstHead(b)] = HeadOf(m + 1) /\ r < Len(b)
  <2> USE <1>ChainFirst
  <2> DEFINE H == {i \in DOMAIN b : Match(b, i)}
  <2>1. /\ Len(b) \in Nat /\ Len(u) \in Nat /\ DOMAIN b = 1..Len(b) /\ DOMAIN u = 1..Len(u)
        /\ Len(b) <= Len(u) /\ \A j \in 1..Len(b) : b[j] = u[j]
    BY Zenon DEF List, Begins
  <2>2. \A j \in DOMAIN b : j <= r => b[j].part # "head"
    BY <2>1, Parts, SMT, SMTT(20) DEF Chain, Start
  <2>3. r < Len(b)
    BY <2>1, <2>2, SMT, SMTT(20) DEF HasHead, Match
  <2>4. b[r + 1] = HeadOf(m + 1) /\ r + 1 \in DOMAIN b /\ r < Len(u)
    BY <2>1, <2>3, SMT, SMTT(20) DEF Chain, Start
  <2>5. r + 1 \in H
    BY <2>1, <2>2, <2>4, Parts, SMT, SMTT(20) DEF Match
  <2>6. \A i \in H : i = r + 1
    BY <2>1, <2>2, <2>4, Parts, SMT, SMTT(20) DEF Match
  <2>7. FirstHead(b) = r + 1
    <3>1. FirstHead(b) \in H
      <4>1. \E i \in DOMAIN b : Match(b, i)
        BY <2>5
      <4> QED
        BY <4>1 DEF FirstHead
    <3> QED
      BY <2>6, <3>1
  <2> QED
    BY <2>3, <2>4, <2>7

\* yield(response), close(response) and the service's error handler.
<1>AnswerOnly.
  ASSUME NEW c \in Conns, NEW status \in Statuses
  PROVE  /\ LET d == Yield(c, status) IN
            Only(c, d) /\ d.strand = IfOpen(c, Reply(c.cur, status, "read"))
         /\ LET d == SessionClose(c, status) IN
            Only(c, d) /\ d.strand = IfOpen(c, Reply(c.cur, status, "close"))
         /\ LET d == ServiceError(c, status) IN
            Only(c, d) /\ d.strand = IfOpen(c, Reply(c.cur, status, "close"))
  <2> USE <1>AnswerOnly
  <2>1. c.cur \in 0..MaxRequests
    BY DEF Conns
  <2>2. ASSUME NEW then \in {"read", "close"}
        PROVE  LET d == Transmit(c, c.cur, status, then) IN
               Only(c, d) /\ d.strand = Append(c.strand, Reply(c.cur, status, then))
    BY <2>1, TransmitOnly, Zenon
  <2>3. LET d == SessionError(c, c.cur) IN Only(c, d) /\ (~c.open => d.strand = c.strand)
    BY <2>1, SessionErrorOnly, SMT, SMTT(20)
  <2>4. Only(c, c)
    BY Zenon DEF Only, Kin, Same
  <2> QED
    BY <2>2, <2>3, <2>4, Zenon DEF Yield, SessionClose, ServiceError, IfOpen

\* FetchBody does, and posts the answer.
<1>FetchBodyTakes.
  ASSUME NEW c \in Conns, Len(c.buffer) >= Length
  PROVE  Takes(c, FetchBody(c))
  <2> USE <1>FetchBodyTakes
  <2> DEFINE x == [n |-> c.cur, body |-> SubSeq(c.buffer, 1, Length)]
             q == Append(c.queued, x)
             d == [c EXCEPT !.buffer = Drop(@, Length),
                            !.queued = Append(@, [n |-> c.cur, body |-> SubSeq(c.buffer, 1, Length)])]
  <2>1. c.buffer \in Seq(Units) /\ c.queued \in Seq(Bodies) /\ c.cur \in 0..MaxRequests
    BY DEF Conns
  <2>2. Length \in 0..Len(c.buffer)
    BY <2>1, ConnectionAssumption, SMT, SMTT(20)
  <2>3. Drop(c.buffer, Length) \in Seq(Units)
    BY <2>1, <2>2, DropSeq
  <2>4. x \in Bodies
    BY <2>1, <2>2, FrontSeq DEF Bodies
  <2> HIDE DEF x
  <2>5. q \in Seq(Bodies)
    BY <2>1, <2>4, SMT, SMTT(20)
  <2>6. /\ d \in Conns /\ Kin(c, d) /\ d.strand = c.strand /\ d.cur = c.cur
        /\ d.buffer = Drop(c.buffer, Length) /\ d.queued = q
    <3>1. d = [c EXCEPT !.buffer = Drop(c.buffer, Length), !.queued = q]
      BY DEF Conns, x
    <3> HIDE DEF d, q
    <3> QED
      BY <2>3, <2>5, <3>1, Zenon DEF Conns, Kin, Same
  <2>7. FetchBody(c) = Yield(d, 202)
    BY DEF FetchBody
  <2> HIDE DEF d
  <2>8. 202 \in Statuses
    BY DEF Statuses
  <2>9. LET e == Yield(d, 202) IN Only(d, e) /\ e.strand = IfOpen(d, Reply(d.cur, 202, "read"))
    BY <2>6, <2>8, <1>AnswerOnly, SMT, SMTT(20)
  <2>10. IfOpen(d, Reply(d.cur, 202, "read")) = IfOpen(c, Reply(c.cur, 202, "read"))
    BY <2>6, Zenon DEF IfOpen, Kin
  <2> QED
    BY <2>6, <2>7, <2>9, <2>10, SMT, SMTT(20) DEF Takes, Only, Kin, Same, q, x

\* What it leaves of the connection.
<1>CutParts.
  ASSUME NEW c \in Conns, HasHead(c.buffer), Bounded(c.buffer), asked \in Seq(Kinds)
  PROVE  LET i == FirstHead(c.buffer)
             n == c.buffer[i].n
         IN  /\ Cut(c) \in Conns /\ Kin(c, Cut(c)) /\ Cut(c).strand = c.strand
             /\ Cut(c).queued = c.queued /\ Cut(c).cur = n /\ Cut(c).buffer = Drop(c.buffer, i)
             /\ i \in 1..Len(c.buffer) /\ n \in 1..Len(asked) /\ asked[n] \in Kinds
  <2> USE <1>CutParts
  <2> DEFINE i == FirstHead(c.buffer)
             n == c.buffer[i].n
  <2>1. c.buffer \in Seq(Units)
    BY DEF Conns
  <2>2. i \in DOMAIN c.buffer
    BY <2>1, HeadFound
  <2>3. n \in 1..MaxRequests /\ n <= Len(asked)
    <3> HIDE DEF i
    <3>1. c.buffer[i] \in Units
      BY <2>1, <2>2, SMT, SMTT(20)
    <3> QED
      BY <2>2, <3>1 DEF Units, Bounded
  <2>4. i \in 1..Len(c.buffer) /\ i \in 0..Len(c.buffer)
    BY <2>1, <2>2, SMT, SMTT(20)
  <2>5. Cut(c) = [c EXCEPT !.buffer = Drop(c.buffer, i), !.cur = n]
    BY DEF Cut, Conns
  <2> HIDE DEF i, n
  <2>6. Drop(c.buffer, i) \in Seq(Units)
    BY <2>1, <2>4, DropSeq
  <2>7. n \in 0..MaxRequests
    BY <2>3, ConnectionAssumption, SMT, SMTT(20)
  <2>8. /\ Cut(c) \in Conns /\ Kin(c, Cut(c)) /\ Cut(c).strand = c.strand
        /\ Cut(c).queued = c.queued /\ Cut(c).cur = n /\ Cut(c).buffer = Drop(c.buffer, i)
    BY <2>5, <2>6, <2>7, Zenon DEF Conns, Kin, Same
  <2>9. n \in 1..Len(asked) /\ asked[n] \in Kinds
    BY <2>3, SMT, SMTT(20)
  <2> QED
    BY <2>4, <2>8, <2>9 DEF i, n

\* The units of a connection are a list.
<1>RestList.
  ASSUME NEW b \in Seq(Units), wire \in Seq(Units)
  PROVE  /\ List(b \o wire) /\ b \o wire \in Seq(Units) /\ Len(b \o wire) = Len(b) + Len(wire)
         /\ \A j \in 1..Len(b) : (b \o wire)[j] = b[j]
         /\ Len(b) \in Nat /\ Len(wire) \in Nat
  BY <1>RestList, SMT, SMTT(20) DEF List

\* Taking units from the buffer takes them from what was sent.
<1>DropShift.
  ASSUME NEW b \in Seq(Units), wire \in Seq(Units), NEW k \in 0..Len(b)
  PROVE  Shift(b \o wire, Drop(b, k) \o wire, k)
  <2> USE <1>DropShift
  <2>1. /\ Drop(b, k) \in Seq(Units) /\ Len(Drop(b, k)) = Len(b) - k
        /\ \A i \in DOMAIN Drop(b, k) : i + k \in DOMAIN b /\ Drop(b, k)[i] = b[i + k]
    BY DropSeq
  <2> DEFINE d == Drop(b, k)
             u == b \o wire
             v == d \o wire
  <2> HIDE DEF d
  <2>2. /\ Len(u) = Len(b) + Len(wire) /\ Len(v) = Len(d) + Len(wire) /\ Len(d) = Len(b) - k
        /\ Len(b) \in Nat /\ Len(wire) \in Nat /\ Len(d) \in Nat
        /\ d \in Seq(Units)
    <3>1. d \in Seq(Units) /\ Len(d) = Len(b) - k
      BY <2>1 DEF d
    <3> QED
      BY <3>1, SMT, SMTT(20)
  <2>3. \A i \in 1..Len(d) : d[i] = b[i + k]
    BY <2>1, SMT, SMTT(20) DEF d
  <2>4. ASSUME NEW j \in 1..(Len(d) + Len(wire))
        PROVE  v[j] = u[j + k]
    <3>1. v[j] = IF j <= Len(d) THEN d[j] ELSE wire[j - Len(d)]
      BY <2>2, SMT, SMTT(20)
    <3>2. j + k \in 1..(Len(b) + Len(wire))
      BY <2>2, SMT, SMTT(20)
    <3>3. u[j + k] = IF j + k <= Len(b) THEN b[j + k] ELSE wire[(j + k) - Len(b)]
      BY <2>2, <3>2, SMT, SMTT(20)
    <3>4. (j <= Len(d) <=> j + k <= Len(b)) /\ (j + k) - Len(b) = j - Len(d)
      BY <2>2, SMT, SMTT(20)
    <3>5. CASE j <= Len(d)
      <4>1. j \in 1..Len(d)
        BY <2>2, <3>5, SMT, SMTT(20)
      <4> QED
        BY <2>3, <3>1, <3>3, <3>4, <3>5, <4>1
    <3>6. CASE ~(j <= Len(d))
      BY <3>1, <3>3, <3>4, <3>6, Zenon
    <3> QED
      BY <3>5, <3>6, Zenon
  <2>5. Len(v) = Len(u) - k
    BY <2>2, SMT, SMTT(20)
  <2>6. \A j \in 1..Len(v) : v[j] = u[j + k]
    BY <2>2, <2>4
  <2> QED
    BY <2>5, <2>6 DEF Shift, d

\* The body that fetch_body takes.
<1>TakesBody.
  ASSUME NEW c \in Conns, wire \in Seq(Units), owes \in Nat, Len(c.buffer) >= Length, InBody(c)
  PROVE  /\ SubSeq(c.buffer, 1, Length) = [u \in 1..Length |-> BodyOf(c.cur)]
         /\ Chain(asked, owes, Drop(c.buffer, Length) \o wire, c.cur, 0)
  <2> USE <1>TakesBody
  <2> DEFINE b == c.buffer
             u == b \o wire
             v == Drop(b, Length) \o wire
  <2>1. b \in Seq(Units) /\ c.cur \in Nat /\ Length \in Nat
    BY ConnectionAssumption, SMT, SMTT(20) DEF Conns
  <2>2. Length \in 0..Len(b) /\ Len(b) \in Nat /\ b = c.buffer
    BY <2>1, SMT, SMTT(20)
  <2>3. Chain(asked, owes, u, c.cur, Length)
    BY DEF InBody, Rest
  <2> HIDE DEF b
  <2>4. /\ List(u) /\ Len(u) = Len(b) + Len(wire) /\ Len(wire) \in Nat
        /\ \A j \in 1..Len(b) : u[j] = b[j]
    BY <2>1, <1>RestList
  <2>5. List(v) /\ Shift(u, v, Length)
    <3>1. Drop(b, Length) \in Seq(Units)
      BY <2>1, <2>2, DropSeq
    <3> QED
      BY <2>1, <2>2, <3>1, <1>RestList, <1>DropShift
  <2>6. Length <= Len(u)
    BY <2>2, <2>4, SMT, SMTT(20)
  <2> HIDE DEF u, v
  <2>7. (\A j \in 1..Length : u[j] = BodyOf(c.cur)) /\ Chain(asked, owes, v, c.cur, 0)
    BY <2>1, <2>3, <2>4, <2>5, <2>6, <1>ChainBody, Zenon
  <2>8. SubSeq(b, 1, Length) = [x \in 1..Length |-> BodyOf(c.cur)]
    <3>1. \A j \in 1..Length : j \in 1..Len(b) /\ b[j] = BodyOf(c.cur)
      BY <2>1, <2>2, <2>4, <2>7, SMT, SMTT(20)
    <3>2. SubSeq(b, 1, Length) = [x \in 1..Length |-> b[x]]
      <4>1. /\ SubSeq(b, 1, Length) \in Seq(Units) /\ Len(SubSeq(b, 1, Length)) = Length
            /\ \A i \in 1..Length : SubSeq(b, 1, Length)[i] = b[i]
        BY <2>1, <2>2, SMT, SMTT(20)
      <4>2. [x \in 1..Length |-> b[x]] \in Seq(Units) /\ Len([x \in 1..Length |-> b[x]]) = Length
        BY <2>1, <2>2, SMT, SMTT(20)
      <4> QED
        BY <4>1, <4>2, SameSeq, SMT, SMTT(20)
    <3> QED
      BY <3>1, <3>2, Zenon
  <2> QED
    BY <2>2, <2>7, <2>8 DEF v

\* A free connection to whose strand a response is added, or nothing.
<1>FreeReply.
  ASSUME NEW c \in Conns, Free(c), NEW d \in Conns, Same(c, d), NEW r \in Resps,
         \/ d.strand = c.strand
         \/ d.strand = Append(c.strand, [op |-> "write_helper", resp |-> r])
  PROVE  /\ ~Midway(d)
         /\ d.strand = c.strand \/ r.then = "close" => Free(d)
  <2> USE <1>FreeReply
  <2> DEFINE h == [op |-> "write_helper", resp |-> r]
  <2>1. h \in Handlers /\ h \notin BodyToks /\ (h \in Toks <=> r.then = "read")
    <3>1. h \in Handlers /\ h.op = "write_helper" /\ h.resp = r
      BY WriteHandler
    <3> HIDE DEF h
    <3> QED
      BY <3>1, BodyTokParts, HandlerParts, Zenon
  <2>2. r.then = "read" \/ r.then = "close"
    BY SMT, SMTT(20) DEF Resps
  <2>3. c.strand \in Seq(Handlers) /\ Zero(c.strand, Toks) /\ Zero(c.strand, BodyToks)
    BY FreeNotMidway, Zenon DEF Free, Conns
  <2> HIDE DEF h
  <2>4. Zero(d.strand, BodyToks)
    BY <2>1, <2>3, CountAppend, Zenon DEF h
  <2>5. d.strand = c.strand \/ r.then = "close" => Zero(d.strand, Toks)
    BY <2>1, <2>3, CountAppend, Zenon DEF h
  <2> QED
    BY <2>4, <2>5, Zenon DEF Free, Midway, Same

\* What fetch_body leads to.
<1>FetchOutcome.
  ASSUME NEW c \in Conns, Free(c), InBody(c), Owned(c), Len(c.buffer) >= Length,
         wire \in Seq(Units), owes \in Nat, asked \in Seq(Kinds)
  PROVE  LET d == FetchBody(c) IN
         /\ d \in Conns /\ Kin(c, d) /\ d.cur = c.cur /\ Stream(d) /\ Owned(d)
         /\ Silent(c, d) \/ Replies(c, d)
  <2> USE <1>FetchOutcome
  <2> DEFINE d == FetchBody(c)
             x == [n |-> c.cur, body |-> SubSeq(c.buffer, 1, Length)]
             h == Reply(c.cur, 202, "read")
             r == h.resp
  <2>1. /\ d \in Conns /\ Kin(c, d) /\ d.cur = c.cur
        /\ d.buffer = Drop(c.buffer, Length) /\ d.queued = Append(c.queued, x)
        /\ d.strand = IfOpen(c, h)
    BY <1>FetchBodyTakes, Zenon DEF Takes
  <2>2. /\ x.n = c.cur /\ x.body = [u \in 1..Length |-> BodyOf(c.cur)]
        /\ Chain(asked, owes, Drop(c.buffer, Length) \o wire, c.cur, 0)
    BY <1>TakesBody, Zenon
  <2>3. /\ c.cur \in 0..MaxRequests /\ c.cur \in 1..Len(asked) /\ asked[c.cur] = "payment"
        /\ c.queued \in Seq(Bodies)
    BY Zenon DEF Conns, InBody
  <2>4. /\ h \in Handlers /\ h = [op |-> "write_helper", resp |-> r] /\ r \in Resps
        /\ r.n = c.cur /\ r.status = 202 /\ r.then = "read"
    <3>1. 202 \in Statuses
      BY ZenonT(40) DEF Statuses
    <3>2. h \in Handlers /\ r \in Resps /\ r.n = c.cur /\ r.status = 202 /\ r.then = "read"
      BY <2>3, <3>1, ReplyParts, SMT, SMTT(20)
    <3>3. h = [op |-> "write_helper", resp |-> r]
      BY Zenon DEF Reply
    <3> QED
      BY <3>2, <3>3
  <2> HIDE DEF d, x, h
  <2>5. \A i \in DOMAIN c.queued : c.queued[i].n < c.cur /\ c.queued[i].n \in 0..MaxRequests
    <3>1. \A i \in DOMAIN c.queued : c.queued[i] \in Bodies
      BY <2>3, SMT, SMTT(20)
    <3> QED
      BY <3>1 DEF InBody, Bodies
  <2>6. ASSUME NEW i \in DOMAIN d.queued
        PROVE  \/ i \in DOMAIN c.queued /\ d.queued[i] = c.queued[i]
               \/ i = Len(c.queued) + 1 /\ d.queued[i] = x
    <3>1. x \in Bodies
      <4>1. d.queued[Len(c.queued) + 1] = x /\ Len(c.queued) + 1 \in DOMAIN d.queued
        BY <2>1, <2>3, SMT, SMTT(20)
      <4>2. d.queued \in Seq(Bodies)
        BY <2>1, Zenon DEF Conns
      <4> QED
        BY <4>1, <4>2, SMT, SMTT(20)
    <3> QED
      BY <2>1, <2>3, <3>1, SMT, SMTT(20)
  <2>7. Owned(d)
    <3>1. ASSUME NEW i \in DOMAIN d.queued
          PROVE  Paid(d.queued[i])
      <4>1. CASE i \in DOMAIN c.queued /\ d.queued[i] = c.queued[i]
        BY <4>1 DEF Owned
      <4>2. CASE d.queued[i] = x
        BY <2>2, <2>3, <4>2, Zenon DEF Paid
      <4> QED
        BY <2>6, <4>1, <4>2, Zenon
    <3>2. ASSUME NEW i \in DOMAIN d.queued, NEW j \in DOMAIN d.queued,
                 d.queued[i].n = d.queued[j].n
          PROVE  i = j
      <4>1. \A k \in DOMAIN c.queued : c.queued[k].n # c.cur
        BY <2>3, <2>5, SMT, SMTT(20)
      <4> QED
        BY <2>2, <2>6, <3>2, <4>1, Zenon DEF Owned
    <3> QED
      BY <3>1, <3>2, Zenon DEF Owned
  <2>8. Same(c, d) /\ (d.strand = c.strand \/ d.strand = Append(c.strand, h))
    BY <2>1, Zenon DEF Kin, IfOpen
  <2>9. ~Midway(d)
    BY <2>1, <2>4, <2>8, <1>FreeReply, SMT, SMTT(20)
  <2>10. AtHead(d)
    <3>1. \A i \in DOMAIN d.queued : d.queued[i].n <= d.cur
      BY <2>1, <2>2, <2>3, <2>5, <2>6, SMT, SMTT(20)
    <3> QED
      BY <2>1, <2>2, <3>1, Zenon DEF AtHead, Rest
  <2>11. CASE c.open
    <3>1. d.strand = Append(c.strand, [op |-> "write_helper", resp |-> r]) /\ d.open
      BY <2>1, <2>4, <2>11, Zenon DEF IfOpen, Kin
    <3>2. Right(r.n, r.status) /\ Ends(r)
      BY <2>3, <2>4, Zenon DEF Right, Ends, Status
    <3>3. \A i \in DOMAIN d.queued :
            d.queued[i].n = r.n \/ \E j \in DOMAIN c.queued : c.queued[j].n = d.queued[i].n
      BY <2>2, <2>4, <2>6
    <3>4. Replies(c, d)
      <4>1. r \in Resps /\ r.n = d.cur /\ r.status = 202
        BY <2>1, <2>4, Zenon
      <4> HIDE DEF r
      <4> QED
        BY <3>1, <3>2, <3>3, <4>1, Zenon DEF Replies
    <3> QED
      BY <2>1, <2>7, <2>9, <2>10, <3>4, Zenon DEF Stream, d
  <2>12. CASE ~c.open
    <3>1. Silent(c, d)
      BY <2>1, <2>12 DEF Silent, IfOpen, Kin
    <3> QED
      BY <2>1, <2>7, <2>9, <2>10, <3>1 DEF Stream, d
  <2> QED
    BY <2>11, <2>12, Zenon

\* These depend on the strand and the payments of the earlier connection only.
<1>AfterEqual.
  ASSUME NEW c, NEW e, NEW d, e.strand = c.strand, e.queued = c.queued
  PROVE  /\ Silent(e, d) => Silent(c, d)
         /\ Replies(e, d) => Replies(c, d)
         /\ AsksBody(e, d) => AsksBody(c, d)
  <2> USE <1>AfterEqual
  <2>1. Silent(e, d) => Silent(c, d)
    BY DEF Silent
  <2>2. Replies(e, d) => Replies(c, d)
    <3> SUFFICES ASSUME Replies(e, d)
                 PROVE  Replies(c, d)
      OBVIOUS
    <3>1. PICK r \in Resps :
            /\ d.strand = Append(e.strand, [op |-> "write_helper", resp |-> r]) /\ d.open
            /\ r.n = d.cur /\ Right(r.n, r.status) /\ Ends(r)
            /\ \A i \in DOMAIN d.queued : d.queued[i].n = r.n => r.status = 202
            /\ \A i \in DOMAIN d.queued :
                 d.queued[i].n = r.n \/ \E j \in DOMAIN e.queued : e.queued[j].n = d.queued[i].n
      BY Zenon DEF Replies
    <3>2. d.strand = Append(c.strand, [op |-> "write_helper", resp |-> r])
      BY <3>1, Zenon
    <3>3. \A i \in DOMAIN d.queued :
                 d.queued[i].n = r.n \/ \E j \in DOMAIN c.queued : c.queued[j].n = d.queued[i].n
      BY <3>1, SMT, SMTT(20)
    <3> QED
      BY <3>1, <3>2, <3>3, Zenon DEF Replies
  <2>3. AsksBody(e, d) => AsksBody(c, d)
    BY Zenon DEF AsksBody
  <2> QED
    BY <2>1, <2>2, <2>3

\* A connection of which only the buffer and the request differ.
<1>OutcomeAfter.
  ASSUME NEW c, NEW e, NEW d, Kin(c, e), e.strand = c.strand, e.queued = c.queued,
         Outcome(e, d)
  PROVE  Outcome(c, d)
  <2> USE <1>OutcomeAfter
  <2>1. Kin(c, d)
    BY Zenon DEF Outcome, Kin, Same
  <2> QED
    BY <2>1, <1>AfterEqual, Zenon DEF Outcome

\* A response to the request that a free connection handles, or silence if the
\* session is closed.
<1>ReplyOutcome.
  ASSUME NEW c \in Conns, Free(c), Owned(c), NEW status \in Statuses,
         NEW then \in {"read", "close"}, then = "read" => AtHead(c),
         Right(c.cur, status),
         then = "close" => Closing(asked[c.cur]) \/ status = 400,
         \A i \in DOMAIN c.queued : c.queued[i].n # c.cur,
         NEW d, Only(c, d), d.strand = IfOpen(c, Reply(c.cur, status, then))
  PROVE  Outcome(c, d)
  <2> USE <1>ReplyOutcome
  <2> DEFINE h == Reply(c.cur, status, then)
             r == h.resp
  <2>1. c.cur \in 0..MaxRequests
    BY Zenon DEF Conns
  <2>2. /\ h \in Handlers /\ h = [op |-> "write_helper", resp |-> r] /\ r \in Resps
        /\ r.n = c.cur /\ r.status = status /\ r.then = then
    <3>1. h \in Handlers /\ r \in Resps /\ r.n = c.cur /\ r.status = status /\ r.then = then
      BY <2>1, ReplyParts, SMT, SMTT(20)
    <3>2. h = [op |-> "write_helper", resp |-> r]
      BY Zenon DEF Reply
    <3> QED
      BY <3>1, <3>2, Zenon
  <2> HIDE DEF h, r
  <2>3. /\ d \in Conns /\ Kin(c, d) /\ Same(c, d) /\ d.cur = c.cur /\ d.queued = c.queued
        /\ d.buffer = c.buffer /\ d.open = c.open
    BY Zenon DEF Only, Kin
  <2>4. d.strand = c.strand \/ d.strand = Append(c.strand, [op |-> "write_helper", resp |-> r])
    BY <2>2, Zenon DEF IfOpen, h
  <2>5. ~Midway(d) /\ (d.strand = c.strand \/ then = "close" => Free(d))
    BY <2>2, <2>3, <2>4, <1>FreeReply, SMT, SMTT(20)
  <2>6. Stream(d)
    <3>1. AtHead(c) => AtHead(d)
      BY <2>3, Zenon DEF AtHead, Rest
    <3> QED
      BY <2>5, <3>1, Zenon DEF Stream
  <2>7. Owned(d)
    BY <2>3, SameParts, Zenon
  <2>8. CASE c.open
    <3>1. d.strand = Append(c.strand, [op |-> "write_helper", resp |-> r]) /\ d.open
      BY <2>2, <2>3, <2>8, Zenon DEF IfOpen, h
    <3>2. r \in Resps /\ r.n = d.cur /\ Right(r.n, r.status) /\ Ends(r)
      BY <2>2, <2>3, Zenon DEF Ends
    <3>3. \A i \in DOMAIN d.queued : d.queued[i].n # r.n
      <4>1. d.queued = c.queued /\ r.n = c.cur
        BY <2>2, <2>3, Zenon
      <4> QED
        BY <4>1, SMT, SMTT(20)
    <3>4. Replies(c, d)
      BY <2>3, <3>1, <3>2, <3>3, Zenon DEF Replies
    <3> QED
      BY <2>3, <2>6, <2>7, <3>4, Zenon DEF Outcome
  <2>9. CASE ~c.open
    <3>1. Silent(c, d)
      BY <2>3, <2>9, Zenon DEF Silent, IfOpen
    <3> QED
      BY <2>3, <2>6, <2>7, <3>1, Zenon DEF Outcome
  <2> QED
    BY <2>8, <2>9, Zenon

\* fetch: of a free connection that has just taken the head of a payment.
<1>FetchStarts.
  ASSUME NEW c \in Conns, Free(c), InBody(c), Owned(c), c.open,
         wire \in Seq(Units), owes \in Nat, asked \in Seq(Kinds)
  PROVE  Outcome(c, Fetch(c)) /\ Fetch(c).cur = c.cur
  <2> USE <1>FetchStarts
  <2>1. Len(c.buffer) \in Nat /\ Length \in Nat /\ c.strand \in Seq(Handlers)
    BY ConnectionAssumption, SMT, SMTT(20) DEF Conns
  <2>2. CASE Length > Len(c.buffer)
    <3> DEFINE h == [op |-> "start_read", of |-> "body", need |-> Length - Len(c.buffer)]
               d == Post(c, h)
    <3>1. h \in Handlers /\ h.op = "start_read" /\ h.of = "body"
      BY <2>1, <2>2, StartReadHandler, SMT, SMTT(20)
    <3>2. Fetch(c) = d
      BY <2>2 DEF Fetch
    <3> HIDE DEF h
    <3>3. Only(c, d) /\ d.strand = Append(c.strand, h)
      BY <3>1, PostOnly
    <3> HIDE DEF d
    <3>4. h \in BodyToks
      BY <3>1, BodyTokParts
    <3>5. d \in Conns /\ Kin(c, d) /\ d.buffer = c.buffer /\ d.cur = c.cur /\ d.queued = c.queued
      BY <3>3 DEF Only
    <3>6. Midway(d)
      <4>1. Len(c.strand) + 1 \in DOMAIN d.strand /\ d.strand[Len(c.strand) + 1] = h
        BY <2>1, <3>1, <3>3, SMT, SMTT(20)
      <4> QED
        BY <3>4, <4>1, Zenon DEF Midway, Zero
    <3>7. InBody(d) /\ Owned(d)
      BY <3>5, SameParts
    <3>8. AsksBody(c, d)
      BY <3>1, <3>3, <3>4, <3>5, Zenon DEF AsksBody, Kin
    <3> QED
      BY <3>2, <3>5, <3>6, <3>7, <3>8 DEF Outcome, Stream
  <2>3. CASE ~(Length > Len(c.buffer))
    <3>1. Fetch(c) = FetchBody(c) /\ Len(c.buffer) >= Length
      BY <2>1, <2>3, SMT, SMTT(20) DEF Fetch
    <3> QED
      BY <3>1, <1>FetchOutcome DEF Outcome
  <2> QED
    BY <2>2, <2>3

\* Where a head is found: at the beginning of the buffer, or behind a body that
\* was left.
<1>CutStream.
  ASSUME NEW c \in Conns, Free(c), AtHead(c), Owned(c), HasHead(c.buffer), Bounded(c.buffer),
         wire \in Seq(Units), owes \in Nat, asked \in Seq(Kinds)
  PROVE  LET d == Cut(c)
             kind == asked[c.cur + 1]
         IN  /\ d.cur = c.cur + 1 /\ c.cur + 1 \in 1..Len(asked)
             /\ c.buffer[FirstHead(c.buffer)].n = c.cur + 1
             /\ \A i \in DOMAIN d.queued : d.queued[i].n < d.cur
             /\ FirstHead(c.buffer) = 1
                  => Chain(asked, owes, Rest(d), d.cur, BodyLength(kind))
             /\ FirstHead(c.buffer) # 1
                  => c.cur \in 1..Len(asked) /\ asked[c.cur] = "purgeBody"
  <2> USE <1>CutStream
  <2> DEFINE b == c.buffer
             u == b \o wire
             d == Cut(c)
             i == FirstHead(b)
  <2>1. b \in Seq(Units) /\ c.cur \in Nat /\ Length \in Nat /\ Length > 0
    BY ConnectionAssumption, SMT, SMTT(20) DEF Conns
  <2>2. /\ d \in Conns /\ d.queued = c.queued /\ d.cur = b[i].n /\ d.buffer = Drop(b, i)
        /\ i \in 1..Len(b) /\ b[i].n \in 1..Len(asked)
    BY <1>CutParts, Zenon
  <2>3. /\ List(u) /\ u \in Seq(Units) /\ Len(u) = Len(b) + Len(wire)
        /\ \A j \in 1..Len(b) : u[j] = b[j]
        /\ Len(b) \in Nat /\ Len(wire) \in Nat
    BY <2>1, <1>RestList
  <2>4. Rest(c) = u /\ HasHead(b)
    BY Zenon DEF Rest
  <2> HIDE DEF b, d, i
  <2>5. List(b) /\ Begins(b, u)
    BY <2>1, <2>3, SMT, SMTT(20) DEF List, Begins
  <2> HIDE DEF u
  <2>6. ASSUME NEW r \in Nat, Chain(asked, owes, u, c.cur, r)
        PROVE  i = r + 1 /\ b[i].n = c.cur + 1
    <3>1. FirstHead(b) = r + 1 /\ b[FirstHead(b)] = HeadOf(c.cur + 1)
      BY <2>3, <2>4, <2>5, <2>6, <1>ChainFirst, SMT, SMTT(20)
    <3> QED
      BY <3>1, Parts, Zenon DEF i
  <2>7. \/ Chain(asked, owes, u, c.cur, 0)
        \/ /\ c.cur \in 1..Len(asked) /\ asked[c.cur] = "purgeBody"
           /\ Chain(asked, owes, u, c.cur, Length)
    BY <2>4, Zenon DEF AtHead
  <2>8. b[i].n = c.cur + 1 /\ d.cur = c.cur + 1 /\ c.cur + 1 \in 1..Len(asked)
    BY <2>1, <2>2, <2>6, <2>7, Zenon
  <2>9. i # 1 => c.cur \in 1..Len(asked) /\ asked[c.cur] = "purgeBody"
    BY <2>1, <2>6, <2>7, SMT, SMTT(20)
  <2>10. ASSUME i = 1
         PROVE  Chain(asked, owes, Rest(d), d.cur, BodyLength(asked[c.cur + 1]))
    <3>1. Chain(asked, owes, u, c.cur, 0)
      BY <2>1, <2>6, <2>7, <2>10, SMT, SMTT(20)
    <3> DEFINE v == Drop(b, 1) \o wire
    <3>2. 1 \in 0..Len(b) /\ Len(u) > 0
      BY <2>2, <2>3, <2>10, SMT, SMTT(20)
    <3>3. Shift(u, v, 1)
      BY <2>1, <3>2, <1>DropShift, Zenon DEF u
    <3>4. Drop(b, 1) \in Seq(Units)
      BY <2>1, <3>2, DropSeq, Zenon
    <3>5. List(v)
      BY <3>4, <1>RestList, Zenon
    <3>6. Rest(d) = v
      BY <2>2, <2>10 DEF Rest
    <3> HIDE DEF v
    <3>7. Chain(asked, owes, v, c.cur + 1, BodyLength(asked[c.cur + 1]))
      BY <2>1, <2>3, <3>1, <3>2, <3>3, <3>5, <1>ChainHead, Zenon
    <3> QED
      BY <2>8, <3>6, <3>7, Zenon
  <2>11. \A j \in DOMAIN d.queued : d.queued[j].n < d.cur
    <3>1. \A j \in DOMAIN c.queued : c.queued[j] \in Bodies
      BY SMT, SMTT(20) DEF Conns
    <3>2. \A j \in DOMAIN c.queued : c.queued[j].n \in 0..MaxRequests /\ c.queued[j].n <= c.cur
      BY <3>1, Zenon DEF Bodies, AtHead
    <3> QED
      BY <2>1, <2>2, <2>8, <3>2, SMT, SMTT(20)
  <2> QED
    BY <2>8, <2>9, <2>10, <2>11, Zenon DEF b, d, i

\* The router, of a free connection that has just taken a head.
<1>RouterOutcome.
  ASSUME NEW c \in Conns, Free(c), Owned(c), c.cur \in 1..Len(asked),
         \A i \in DOMAIN c.queued : c.queued[i].n < c.cur,
         NEW kind \in Kinds, kind = asked[c.cur], kind # "malformed",
         Chain(asked, owes, Rest(c), c.cur, BodyLength(kind)),
         wire \in Seq(Units), owes \in Nat, asked \in Seq(Kinds)
  PROVE  Outcome(c, Router(c, kind)) /\ Router(c, kind).cur = c.cur
  <2> USE <1>RouterOutcome
  <2>1. c.cur \in 0..MaxRequests /\ Status(kind) \in Statuses
    BY StatusType, Zenon DEF Conns
  <2>2. ASSUME NEW i \in DOMAIN c.queued
        PROVE  c.queued[i].n # c.cur /\ c.queued[i].n <= c.cur
    <3>1. c.queued[i] \in Bodies
      BY SMT, SMTT(20) DEF Conns
    <3>2. c.queued[i].n \in 0..MaxRequests
      BY <3>1, Zenon DEF Bodies
    <3> QED
      BY <2>1, <3>2, SMT, SMTT(20)
  <2>3. Right(c.cur, Status(kind))
    BY Zenon DEF Right
  <2>4. CASE ~c.open
    <3>1. Router(c, kind) = c
      BY <2>4, Zenon DEF Router
    <3>2. Outcome(c, c)
      BY <2>4, Zenon DEF Outcome, Kin, Same, Stream, Silent
    <3> QED
      BY <3>1, <3>2
  <2>5. CASE c.open /\ kind = "payment"
    <3>1. Router(c, kind) = Fetch(c)
      BY <2>5, Zenon DEF Router
    <3>2. InBody(c)
      BY <2>5 DEF InBody, BodyLength
    <3> QED
      BY <2>5, <3>1, <3>2, <1>FetchStarts
  <2>6. CASE c.open /\ kind \in {"purge", "purgeBody"}
    <3>1. Router(c, kind) = Yield(c, Status(kind))
      BY <2>6 DEF Router
    <3> DEFINE d == Yield(c, Status(kind))
    <3>2. Only(c, d) /\ d.strand = IfOpen(c, Reply(c.cur, Status(kind), "read"))
      BY <2>1, <1>AnswerOnly, Zenon
    <3>3. AtHead(c)
      BY <2>2, <2>6 DEF AtHead, BodyLength
    <3> HIDE DEF d
    <3>4. Outcome(c, d)
      BY <2>1, <2>2, <2>3, <3>2, <3>3, <1>ReplyOutcome, Zenon
    <3> QED
      BY <3>1, <3>2, <3>4, Zenon DEF Only, d
  <2>7. CASE c.open /\ kind \notin {"payment", "purge", "purgeBody"}
    <3>1. Router(c, kind) = SessionClose(c, Status(kind))
      BY <2>7 DEF Router
    <3> DEFINE d == SessionClose(c, Status(kind))
    <3>2. Only(c, d) /\ d.strand = IfOpen(c, Reply(c.cur, Status(kind), "close"))
      BY <2>1, <1>AnswerOnly, Zenon
    <3>3. Closing(asked[c.cur])
      BY <2>7 DEF Closing
    <3> HIDE DEF d
    <3>4. Outcome(c, d)
      BY <2>1, <2>2, <2>3, <3>2, <3>3, <1>ReplyOutcome, Zenon
    <3> QED
      BY <3>1, <3>2, <3>4, Zenon DEF Only, d
  <2>8. c.open \in BOOLEAN
    BY Zenon DEF Conns
  <2> QED
    BY <2>4, <2>5, <2>6, <2>7, <2>8, Zenon

\* parse_request.
<1>ParseOutcome.
  ASSUME NEW c \in Conns, Free(c), AtHead(c), Owned(c), HasHead(c.buffer), Bounded(c.buffer),
         wire \in Seq(Units), owes \in Nat, asked \in Seq(Kinds)
  PROVE  Outcome(c, ParseRequest(c)) /\ ParseRequest(c).cur = c.cur + 1
  <2> USE <1>ParseOutcome
  <2> DEFINE e == Cut(c)
             i == FirstHead(c.buffer)
             n == c.cur + 1
  <2>1. /\ e \in Conns /\ Kin(c, e) /\ e.strand = c.strand /\ e.queued = c.queued
        /\ asked[c.buffer[i].n] \in Kinds
    BY <1>CutParts
  <2>2. /\ e.cur = n /\ n \in 1..Len(asked) /\ c.buffer[i].n = n
        /\ \A j \in DOMAIN e.queued : e.queued[j].n < e.cur
        /\ i = 1 => Chain(asked, owes, Rest(e), e.cur, BodyLength(asked[n]))
        /\ i # 1 => c.cur \in 1..Len(asked) /\ asked[c.cur] = "purgeBody"
    BY <1>CutStream, Zenon
  <2>3. ParseRequest(c) = IF i = 1 /\ asked[n] # "malformed" THEN Router(e, asked[n])
                          ELSE ServiceError(e, 400)
    BY <2>2 DEF ParseRequest, Cut
  <2>4. c.cur \in Nat /\ 400 \in Statuses
    BY SMT, SMTT(20) DEF Conns, Statuses
  <2> HIDE DEF e, i
  <2>5. Free(e)
    BY <2>1, Zenon DEF Free, Kin, Same
  <2>6. Owned(e)
    BY <2>1, SameParts, Zenon
  <2>7. CASE i = 1 /\ asked[n] # "malformed"
    <3>1. ParseRequest(c) = Router(e, asked[n]) /\ asked[n] \in Kinds
      BY <2>1, <2>2, <2>3, <2>7, Zenon
    <3>2. Outcome(e, Router(e, asked[n])) /\ Router(e, asked[n]).cur = e.cur
      BY <2>1, <2>2, <2>5, <2>6, <2>7, <3>1, <1>RouterOutcome, Zenon
    <3>3. Outcome(c, Router(e, asked[n]))
      BY <2>1, <3>2, <1>OutcomeAfter, Zenon
    <3> QED
      BY <2>2, <3>1, <3>2, <3>3, Zenon
  <2>8. CASE ~(i = 1 /\ asked[n] # "malformed")
    <3> DEFINE d == ServiceError(e, 400)
    <3>1. ParseRequest(c) = d
      BY <2>3, <2>8
    <3>2. Only(e, d) /\ d.strand = IfOpen(e, Reply(e.cur, 400, "close"))
      <4>1. e \in Conns /\ 400 \in Statuses
        BY <2>1, <2>4
      <4>2. ASSUME NEW s \in Statuses
            PROVE  /\ Only(e, ServiceError(e, s))
                   /\ ServiceError(e, s).strand = IfOpen(e, Reply(e.cur, s, "close"))
        BY <4>1, <4>2, <1>AnswerOnly, Zenon
      <4> QED
        BY <4>1, <4>2, SMT, SMTT(20)
    <3>3. Right(e.cur, 400)
      <4>1. CASE asked[n] = "malformed"
        <5>1. Status(asked[n]) = 400
          BY <4>1 DEF Status
        <5> QED
          BY <2>2, <5>1, Zenon DEF Right
      <4>2. CASE i # 1
        <5>1. c.cur \in 1..(n - 1) /\ asked[c.cur] = "purgeBody"
          BY <2>2, <2>4, <4>2, SMT, SMTT(20)
        <5> QED
          BY <2>2, <5>1, Zenon DEF Right
      <4> QED
        BY <2>8, <4>1, <4>2
    <3>4. \A j \in DOMAIN e.queued : e.queued[j].n # e.cur
      <4>1. \A j \in DOMAIN e.queued : e.queued[j] \in Bodies
        BY <2>1, SMT, SMTT(20) DEF Conns
      <4>2. \A j \in DOMAIN e.queued : e.queued[j].n \in 0..MaxRequests
        BY <4>1 DEF Bodies
      <4> QED
        BY <2>2, <2>4, <4>2, SMT, SMTT(20)
    <3> HIDE DEF d
    <3>5. Outcome(e, d)
      BY <2>1, <2>4, <2>5, <2>6, <3>2, <3>3, <3>4, <1>ReplyOutcome, Zenon
    <3>6. Outcome(c, d)
      BY <2>1, <3>5, <1>OutcomeAfter
    <3> QED
      BY <2>2, <3>1, <3>2, <3>6, Zenon DEF Only
  <2> QED
    BY <2>7, <2>8, Zenon

<1> SUFFICES ASSUME NEW c \in Conns, NEW of \in {"head", "body"}, NEW result \in Results,
                    Free(c), Owned(c), Bounded(c.buffer),
                    of = "head" => AtHead(c), of = "body" => InBody(c),
                    result = "ok" /\ of = "head" => HasHead(c.buffer),
                    result = "ok" /\ of = "body" => Len(c.buffer) >= Length
             PROVE  ReadEnds(c, of, result, ReadDone(c, of, result))
  OBVIOUS
<1> DEFINE d == [CancelTimer(c) EXCEPT !.open = @ /\ result = "ok"]
           e == [d EXCEPT !.buffer = <<>>]
<1>1. /\ d \in Conns /\ Same(c, d) /\ d.fd = c.fd /\ d.ended = c.ended
      /\ d.strand = c.strand /\ d.queued = c.queued /\ d.cur = c.cur /\ d.buffer = c.buffer
      /\ d.open = (c.open /\ result = "ok")
  BY Zenon DEF CancelTimer, Conns, Same
<1>2. ReadDone(c, of, result)
        = CASE result = "aborted"               -> d
            [] result = "failed" /\ of = "head" -> ServiceError(e, 400)
            [] result = "failed" /\ of = "body" -> SessionError(d, d.cur)
            [] result = "ok" /\ of = "head"     -> ParseRequest(d)
            [] result = "ok" /\ of = "body"     -> FetchBody(d)
  BY DEF ReadDone
<1> HIDE DEF d
<1>3. /\ e \in Conns /\ Same(c, e) /\ e.fd = c.fd /\ e.ended = c.ended
      /\ e.strand = c.strand /\ e.queued = c.queued /\ e.cur = c.cur /\ e.open = d.open
  <2>1. e \in Conns
    <3>1. <<>> \in Seq(Units)
      BY SMT, SMTT(20)
    <3> QED
      BY <1>1, <3>1, Zenon DEF Conns
  <2>2. /\ Same(d, e) /\ e.fd = d.fd /\ e.ended = d.ended /\ e.strand = d.strand
        /\ e.queued = d.queued /\ e.cur = d.cur /\ e.open = d.open
    BY <1>1, Zenon DEF Conns, Same
  <2> HIDE DEF e
  <2> QED
    BY <1>1, <2>1, <2>2 DEF Same
<1> HIDE DEF e
<1>4. d.cur \in 0..MaxRequests /\ 400 \in Statuses
  BY <1>1, ZenonT(40) DEF Conns, Statuses
<1>5. ASSUME result # "ok", NEW x \in Conns, Same(c, x), x.fd = c.fd, x.ended = c.ended, ~x.open,
             x.strand = c.strand, x.queued = c.queued, x.cur = c.cur
      PROVE  ReadEnds(c, of, result, x)
  <2>1. Free(x)
    BY <1>5, Zenon DEF Free, Same
  <2>2. Owned(x)
    BY <1>5, SameParts
  <2> QED
    BY <1>5, <2>1, <2>2, Zenon DEF ReadEnds, Stream
<1>6. CASE result = "aborted"
  <2>1. ReadDone(c, of, result) = d
    BY <1>2, <1>6, Zenon
  <2> QED
    BY <1>1, <1>5, <1>6, <2>1, Zenon
<1>7. CASE result = "failed" /\ of = "head"
  <2>1. ReadDone(c, of, result) = ServiceError(e, 400)
    BY <1>2, <1>7
  <2>2. ~e.open
    BY <1>1, <1>3, <1>7, Zenon
  <2>3. ServiceError(e, 400) = e
    BY <2>2, Zenon DEF ServiceError
  <2> QED
    BY <1>3, <1>5, <1>7, <2>1, <2>2, <2>3
<1>8. CASE result = "failed" /\ of = "body"
  <2> DEFINE x == SessionError(d, d.cur)
  <2>1. ReadDone(c, of, result) = x
    BY <1>2, <1>8
  <2>2. ~d.open
    BY <1>1, <1>8, Zenon
  <2>3. Only(d, x) /\ x.strand = d.strand
    BY <1>1, <1>4, <2>2, SessionErrorOnly, SMT, SMTT(20)
  <2> HIDE DEF x
  <2>4. /\ x \in Conns /\ Same(c, x) /\ x.fd = c.fd /\ x.ended = c.ended /\ ~x.open
        /\ x.strand = c.strand /\ x.queued = c.queued /\ x.cur = c.cur
    BY <1>1, <2>2, <2>3, Zenon DEF Only, Kin, Same
  <2> QED
    BY <1>5, <1>8, <2>1, <2>4
<1>9. ASSUME result = "ok"
      PROVE  Free(d) /\ Owned(d) /\ (of = "head" => AtHead(d)) /\ (of = "body" => InBody(d))
  BY <1>1, SameParts, Zenon DEF Free, Same
<1>10. ASSUME result = "ok", NEW x, Outcome(d, x),
              x.cur = (IF of = "head" THEN c.cur + 1 ELSE c.cur)
       PROVE  ReadEnds(c, of, result, x)
  <2>1. /\ Silent(d, x) => Silent(c, x)
        /\ Replies(d, x) => Replies(c, x)
        /\ AsksBody(d, x) => AsksBody(c, x)
    BY <1>1, <1>AfterEqual
  <2>2. x.open = c.open
    BY <1>1, <1>10, Zenon DEF Outcome, Kin, Conns
  <2>3. Same(c, x) /\ x.fd = c.fd /\ x.ended = c.ended
    BY <1>1, <1>10, Zenon DEF Outcome, Kin, Same
  <2> QED
    BY <1>10, <2>1, <2>2, <2>3, Zenon DEF ReadEnds, Outcome
<1>11. CASE result = "ok" /\ of = "head"
  <2>1. ReadDone(c, of, result) = ParseRequest(d)
    BY <1>2, <1>11, Zenon
  <2>2. Outcome(d, ParseRequest(d)) /\ ParseRequest(d).cur = d.cur + 1
    BY <1>1, <1>9, <1>11, <1>ParseOutcome, Zenon
  <2> QED
    BY <1>1, <1>10, <1>11, <2>1, <2>2
<1>12. CASE result = "ok" /\ of = "body"
  <2>1. ReadDone(c, of, result) = FetchBody(d)
    BY <1>2, <1>12, Zenon
  <2>2. Outcome(d, FetchBody(d)) /\ FetchBody(d).cur = d.cur
    BY <1>1, <1>9, <1>12, <1>FetchOutcome DEF Outcome
  <2> QED
    BY <1>1, <1>10, <1>12, <2>1, <2>2
<1> QED
  BY <1>6, <1>7, <1>8, <1>11, <1>12, Zenon DEF Results

(***************************************************************************)
(* What the other operators do to the place in the stream and to the       *)
(* responses.                                                              *)
(***************************************************************************)

\* Responses that no request may get, and handlers that would send one: among
\* them the one of a failed write when none failed.
Wrong == {r \in Resps : ~Right(r.n, r.status)}
Bad   == {h \in Handlers : \/ h.op = "write_helper" /\ h.resp \in Wrong
                           \/ h.op = "written" /\ h.result = "failed" /\ errors = 0 /\ ~gone}
Answers(c) == Zero(c.pending, Wrong) /\ Zero(c.strand, Bad)

\* Nothing was taken, and what is read next is what was to be read next.
Moves(c, d) ==
  /\ d.queued = c.queued /\ d.buffer = c.buffer /\ d.cur = c.cur
  /\ Free(c) => Free(d)
  /\ Midway(c) <=> Midway(d)

Fine(c) == Stream(c) /\ Owned(c) /\ Answers(c)

\* Which handlers are bad.
LEMMA BadParts ==
  ASSUME NEW h \in Handlers
  PROVE  /\ h.op \in {"start_read", "read", "timeout"} => h \notin Bad
         /\ h.op = "write_helper" => (h \in Bad <=> h.resp \in Wrong)
         /\ h.op = "written" =>
              (h \in Bad <=> h.result = "failed" /\ errors = 0 /\ ~gone)
BY DEF Bad

\* The place in the stream is kept.
LEMMA MovesStream ==
  ASSUME NEW c, NEW d, Moves(c, d)
  PROVE  /\ Stream(c) => Stream(d)
         /\ Owned(c) => Owned(d)
         /\ InBody(c) => InBody(d)
         /\ AtHead(c) => AtHead(d)
<1>1. (Owned(c) => Owned(d)) /\ (InBody(c) => InBody(d)) /\ (AtHead(c) => AtHead(d))
  BY SameParts DEF Moves
<1> QED
  BY <1>1 DEF Moves, Stream

\* Adding nothing, or one thing, to a sequence.
LEMMA ConcatOne ==
  ASSUME NEW S, NEW s \in Seq(S)
  PROVE  s \o <<>> = s /\ \A e \in S : s \o <<e>> = Append(s, e)
BY SMT, SMTT(20)

\* What close() adds to the strand.
LEMMA CloseParts ==
  ASSUME NEW c \in Conns, NEW why
  PROVE  LET d == CloseSocket(c, why)
             x == [op |-> "read", of |-> c.reading, result |-> "aborted"]
             y == [op |-> "written", result |-> "aborted"]
             s == IF c.reading = "none" THEN c.strand ELSE Append(c.strand, x)
         IN  /\ d.strand = IF c.writing THEN Append(s, y) ELSE s
             /\ s \in Seq(Handlers) /\ y \in Handlers
             /\ c.reading # "none" => x \in Handlers
             /\ d.queued = c.queued /\ d.buffer = c.buffer /\ d.cur = c.cur
             /\ d.reading = "none" /\ ~d.writing /\ d.pending = c.pending
             /\ ~d.open /\ ~d.fd /\ ~d.timer /\ d.expired = c.expired
             /\ d.ended = IF c.ended = "no" THEN why ELSE c.ended
<1> DEFINE x == [op |-> "read", of |-> c.reading, result |-> "aborted"]
           y == [op |-> "written", result |-> "aborted"]
           s == IF c.reading = "none" THEN c.strand ELSE Append(c.strand, x)
           d == CloseSocket(c, why)
<1>1. c.strand \in Seq(Handlers) /\ c.reading \in {"none", "head", "body"}
  BY Zenon DEF Conns
<1>2. y \in Handlers /\ (c.reading # "none" => x \in Handlers)
  BY <1>1, WrittenHandler, ReadHandler DEF Results
<1>3. /\ d.strand = (c.strand \o (IF c.reading = "none" THEN <<>> ELSE <<x>>))
                      \o (IF c.writing THEN <<y>> ELSE <<>>)
      /\ d.queued = c.queued /\ d.buffer = c.buffer /\ d.cur = c.cur
      /\ d.reading = "none" /\ ~d.writing /\ d.pending = c.pending
      /\ ~d.open /\ ~d.fd /\ ~d.timer /\ d.expired = c.expired
      /\ d.ended = IF c.ended = "no" THEN why ELSE c.ended
  BY Zenon DEF CloseSocket, CancelTimer, Conns
<1> HIDE DEF d, x, y
<1>4. s \in Seq(Handlers)
  BY <1>1, <1>2, SMT, SMTT(20)
<1>5. c.strand \o (IF c.reading = "none" THEN <<>> ELSE <<x>>) = s
  BY <1>1, <1>2, ConcatOne, Zenon
<1> HIDE DEF s
<1>6. s \o (IF c.writing THEN <<y>> ELSE <<>>) = IF c.writing THEN Append(s, y) ELSE s
  BY <1>2, <1>4, ConcatOne
<1>7. d.strand = IF c.writing THEN Append(s, y) ELSE s
  BY <1>3, <1>5, <1>6, Zenon
<1> QED
  BY <1>2, <1>3, <1>4, <1>7, Zenon DEF d, x, y, s

\* The strand gives away its first handler.
LEMMA PopFine ==
  ASSUME Good(conn), Fine(conn), conn.strand # <<>>
  PROVE  LET h == Head(conn.strand)
             p == Popped
         IN  /\ p \in Conns /\ h \in Handlers /\ h \notin Bad
             /\ Owned(p) /\ Answers(p)
             /\ h \in Toks => /\ h \in BodyToks => InBody(p)
                              /\ h \notin BodyToks => AtHead(p)
             /\ h \notin Toks => Stream(p)
             /\ p.strand = Tail(conn.strand) /\ Same(conn, p)
             /\ p.open = conn.open /\ p.fd = conn.fd /\ p.timer = conn.timer
             /\ p.expired = conn.expired /\ p.ended = conn.ended
             /\ p.buffer = conn.buffer /\ p.cur = conn.cur /\ p.queued = conn.queued
<1> DEFINE s == conn.strand
           h == Head(s)
           p == Popped
<1>1. conn \in Conns /\ AtMost(conn)
  BY DEF Good
<1>2. s \in Seq(Handlers) /\ s # <<>> /\ s = conn.strand
  BY <1>1, Zenon DEF Conns
<1> HIDE DEF s
<1>3. /\ h \in Handlers /\ Tail(s) \in Seq(Handlers) /\ 1 \in DOMAIN s /\ h = s[1]
      /\ Zero(s, Toks) => Zero(Tail(s), Toks)
      /\ Zero(s, Bad) => Zero(Tail(s), Bad) /\ h \notin Bad
      /\ One(s, Toks) /\ h \in Toks => Zero(Tail(s), Toks)
      /\ Zero(s, BodyToks) => Zero(Tail(s), BodyToks)
  BY <1>2, CountTail, Zenon
<1>4. /\ p \in Conns /\ p.strand = Tail(s) /\ Same(conn, p)
      /\ p.open = conn.open /\ p.fd = conn.fd /\ p.timer = conn.timer
      /\ p.expired = conn.expired /\ p.ended = conn.ended
      /\ p.buffer = conn.buffer /\ p.cur = conn.cur /\ p.queued = conn.queued
  BY <1>1, <1>2, <1>3, Zenon DEF Popped, Conns, Same
<1> HIDE DEF p
<1>5. h \in BodyToks => h \in Toks
  BY <1>3, BodyTokParts, Zenon
<1>6. Owned(p) /\ Answers(p) /\ h \notin Bad
  BY <1>2, <1>3, <1>4, SameParts, Zenon DEF Fine, Answers, Same
<1>7. (InBody(conn) => InBody(p)) /\ (AtHead(conn) => AtHead(p))
  BY <1>4, SameParts, Zenon
<1>8. ASSUME h \in Toks
      PROVE  (h \in BodyToks => InBody(p)) /\ (h \notin BodyToks => AtHead(p))
  <2>1. ~Zero(s, Toks)
    BY <1>3, <1>8, Zenon DEF Zero
  <2>2. ~Free(conn) /\ conn.reading = "none" /\ One(s, Toks)
    BY <1>1, <1>2, <2>1, Zenon DEF AtMost, Free
  <2>3. h \in BodyToks => Midway(conn)
    BY <1>2, <1>3, Zenon DEF Midway, Zero
  <2>4. h \notin BodyToks => ~Midway(conn)
    <3>1. ASSUME h \notin BodyToks, NEW i \in DOMAIN s, s[i] \in BodyToks
          PROVE  FALSE
      <4>1. s[i] \in Toks
        BY <1>2, <3>1, BodyTokParts, SMT, SMTT(20)
      <4>2. i = 1
        BY <1>3, <1>8, <2>2, <4>1, Zenon DEF One
      <4> QED
        BY <1>3, <3>1, <4>2, Zenon
    <3> QED
      BY <1>2, <2>2, <3>1, Zenon DEF Midway, Zero
  <2> QED
    BY <1>7, <2>2, <2>3, <2>4, Zenon DEF Fine, Stream
<1>9. ASSUME h \notin Toks
      PROVE  Stream(p)
  <2>1. Free(conn) => Free(p)
    BY <1>2, <1>3, <1>4, Zenon DEF Free, Same
  <2>2. Zero(Tail(s), BodyToks) => Zero(s, BodyToks)
    <3>1. ASSUME Zero(Tail(s), BodyToks), NEW i \in DOMAIN s
          PROVE  s[i] \notin BodyToks
      <4>1. CASE i = 1
        BY <1>3, <1>5, <1>9, <4>1
      <4>2. CASE i # 1
        <5>1. i - 1 \in DOMAIN Tail(s) /\ Tail(s)[i - 1] = s[i]
          BY <1>2, <4>2, SMT, SMTT(20)
        <5> QED
          BY <3>1, <5>1 DEF Zero
      <4> QED
        BY <4>1, <4>2, Zenon
    <3> QED
      BY <3>1 DEF Zero
  <2>3. Midway(conn) <=> Midway(p)
    BY <1>2, <1>3, <1>4, <2>2, Zenon DEF Midway, Same
  <2>4. Moves(conn, p)
    BY <1>4, <2>1, <2>3, Zenon DEF Moves
  <2> QED
    BY <2>4, MovesStream, Zenon DEF Fine
<1> QED
  BY <1>3, <1>4, <1>6, <1>8, <1>9, Zenon DEF p, s

\* write().
LEMMA WriteParts ==
  ASSUME NEW c \in Conns
  PROVE  LET d == Write(c) IN
         /\ d \in Conns
         /\ d.strand = c.strand /\ d.reading = c.reading /\ d.open = c.open /\ d.fd = c.fd
         /\ d.ended = c.ended /\ d.cur = c.cur /\ d.queued = c.queued /\ d.buffer = c.buffer
         /\ c.open => d.writing /\ d.pending = c.pending /\ d.timer
         /\ ~c.open => /\ d.writing = c.writing /\ d.pending = <<>>
                       /\ d.timer = c.timer /\ d.expired = c.expired
<1>1. CASE c.open
  <2>1. Write(c) = [ArmTimer(c) EXCEPT !.writing = TRUE]
    BY <1>1 DEF Write
  <2> QED
    BY <1>1, <2>1, Zenon DEF ArmTimer, Conns
<1>2. CASE ~c.open
  <2>1. Write(c) = [c EXCEPT !.pending = <<>>]
    BY <1>2 DEF Write
  <2>2. <<>> \in Seq(Resps)
    BY SMT, SMTT(20)
  <2> QED
    BY <1>2, <2>1, <2>2, Zenon DEF Conns
<1> QED
  BY <1>1, <1>2

(***************************************************************************)
(* The steps.                                                              *)
(***************************************************************************)

\* Every response that was received is one that its request may get.
Logged == \A i \in DOMAIN log : Right(log[i].n, log[i].status)

\* The members that the completion of an operation leaves alone.
Still(c, d) ==
  /\ d.pending = c.pending /\ d.open = c.open /\ d.fd = c.fd /\ d.ended = c.ended
  /\ d.cur = c.cur /\ d.queued = c.queued

\* Cutting a sequence in two and putting it together again.
LEMMA CutJoin ==
  ASSUME NEW S, NEW b \in Seq(S), NEW w \in Seq(S), NEW k \in 0..Len(w)
  PROVE  (b \o SubSeq(w, 1, k)) \o Drop(w, k) = b \o w
<1> DEFINE f == SubSeq(w, 1, k)
           t == Drop(w, k)
<1>1. f \in Seq(S) /\ Len(f) = k /\ \A i \in DOMAIN f : f[i] = w[i]
  BY FrontSeq
<1>2. t \in Seq(S) /\ Len(t) = Len(w) - k /\ \A i \in DOMAIN t : t[i] = w[i + k]
  BY DropSeq
<1> HIDE DEF f, t
<1>3. Len(b) \in Nat /\ Len(w) \in Nat /\ k \in Nat
  BY SMT, SMTT(20)
<1>4. (b \o f) \o t = b \o (f \o t)
  BY <1>1, <1>2, SMT, SMTT(20)
<1>5. f \o t = w
  <2>1. f \o t \in Seq(S) /\ Len(f \o t) = Len(w)
    BY <1>1, <1>2, <1>3, SMT, SMTT(20)
  <2>2. ASSUME NEW i \in 1..Len(f \o t)
        PROVE  (f \o t)[i] = w[i]
    <3>1. (f \o t)[i] = IF i <= Len(f) THEN f[i] ELSE t[i - Len(f)]
      BY <1>1, <1>2, <2>1, SMT, SMTT(20)
    <3>2. CASE i <= k
      <4>1. i \in DOMAIN f
        BY <1>1, <1>3, <2>1, <3>2, SMT, SMTT(20)
      <4> QED
        BY <1>1, <3>1, <3>2, <4>1
    <3>3. CASE ~(i <= k)
      <4>1. i - k \in DOMAIN t /\ (i - k) + k = i
        BY <1>2, <1>3, <2>1, <3>3, SMT, SMTT(20)
      <4> QED
        BY <1>1, <1>2, <3>1, <3>3, <4>1, Zenon
    <3> QED
      BY <3>2, <3>3
  <2> QED
    BY <2>1, <2>2, SameSeq, Zenon
<1> QED
  BY <1>4, <1>5, Zenon DEF f, t

\* A read completes or fails.
ReadEvent(h) ==
  /\ h \in Handlers /\ h.op = "read" /\ h.of = conn.reading /\ conn.reading # "none"
  /\ h.result = "ok" \/ gone \/ ~conn.fd
  /\ conn'.strand = Append(conn.strand, h) /\ conn'.reading = "none"
  /\ Still(conn, conn') /\ conn'.writing = conn.writing
  /\ conn'.timer = conn.timer /\ conn'.expired = conn.expired
  /\ conn'.buffer \o wire' = conn.buffer \o wire
  /\ UNCHANGED <<asked, owes, gone, log, errors>>

\* What these actions do.
LEMMA ReadEvents ==
  ASSUME IInv, ReadFails \/ \E k \in 0..Len(wire) : ReadCompletes(k)
  PROVE  \E h : ReadEvent(h)
<1>1. /\ conn \in Conns /\ conn.reading \in {"none", "head", "body"}
      /\ wire \in Seq(Units) /\ conn.buffer \in Seq(Units) /\ conn.strand \in Seq(Handlers)
  BY TypeParts, Zenon DEF IInv, Conns, ClientOK
<1>2. ASSUME conn.reading # "none", NEW result \in Results
      PROVE  LET h == [op |-> "read", of |-> conn.reading, result |-> result] IN
             h \in Handlers /\ h.op = "read" /\ h.of = conn.reading /\ h.result = result
  BY <1>1, <1>2, ReadHandler, Zenon
<1>3. CASE ReadFails
  <2> DEFINE d == [conn EXCEPT !.reading = "none"]
             h == [op |-> "read", of |-> conn.reading, result |-> "failed"]
  <2>1. /\ conn.reading # "none" /\ conn' = Post(d, h) /\ UNCHANGED <<client, log, errors>>
        /\ gone \/ ~conn.fd
    BY <1>3 DEF ReadFails
  <2>2. h \in Handlers /\ h.op = "read" /\ h.of = conn.reading
    BY <1>2, <2>1 DEF Results
  <2>3. /\ d.strand = conn.strand /\ d.reading = "none" /\ Still(conn, d)
        /\ d.writing = conn.writing /\ d.timer = conn.timer /\ d.expired = conn.expired
        /\ d.buffer = conn.buffer /\ d \in Conns
    BY <1>1, Zenon DEF Conns, Still
  <2> HIDE DEF d, h
  <2>4. Only(d, conn') /\ conn'.strand = Append(conn.strand, h)
    BY <2>1, <2>2, <2>3, PostOnly, Zenon
  <2>5. Still(conn, conn')
    BY <2>3, <2>4, Zenon DEF Only, Kin, Same, Still
  <2>6. /\ conn'.reading = "none" /\ conn'.writing = conn.writing
        /\ conn'.timer = conn.timer /\ conn'.expired = conn.expired
        /\ conn'.buffer = conn.buffer
    BY <2>3, <2>4 DEF Only, Kin, Same
  <2> QED
    BY <2>1, <2>2, <2>4, <2>5, <2>6 DEF ReadEvent, client
<1>4. ASSUME NEW k \in 0..Len(wire), ReadCompletes(k)
      PROVE  \E h : ReadEvent(h)
  <2> DEFINE b == conn.buffer \o SubSeq(wire, 1, k)
             d == [conn EXCEPT !.buffer = @ \o SubSeq(wire, 1, k), !.reading = "none"]
             h == [op |-> "read", of |-> conn.reading, result |-> "ok"]
  <2>1. /\ conn.reading # "none" /\ conn' = Post(d, h) /\ wire' = Drop(wire, k)
        /\ UNCHANGED <<asked, owes, gone, log, errors>>
    BY <1>4, Zenon DEF ReadCompletes
  <2>2. h \in Handlers /\ h.op = "read" /\ h.of = conn.reading /\ h.result = "ok"
    BY <1>2, <2>1 DEF Results
  <2>3. b \in Seq(Units)
    BY <1>1, FrontSeq, ConcatUnits
  <2>4. d = [conn EXCEPT !.buffer = b, !.reading = "none"]
    BY <1>1 DEF Conns
  <2>5. b \o wire' = conn.buffer \o wire
    BY <1>1, <2>1, CutJoin, Zenon
  <2> HIDE DEF b, d, h
  <2>6. /\ d.strand = conn.strand /\ d.reading = "none" /\ Still(conn, d)
        /\ d.writing = conn.writing /\ d.timer = conn.timer /\ d.expired = conn.expired
        /\ d.buffer = b /\ d \in Conns
    BY <1>1, <2>3, <2>4, Zenon DEF Conns, Still
  <2>7. Only(d, conn') /\ conn'.strand = Append(conn.strand, h)
    BY <2>1, <2>2, <2>6, PostOnly, Zenon
  <2>8. Still(conn, conn')
    BY <2>6, <2>7, Zenon DEF Only, Kin, Same, Still
  <2>9. /\ conn'.reading = "none" /\ conn'.writing = conn.writing
        /\ conn'.timer = conn.timer /\ conn'.expired = conn.expired
        /\ conn'.buffer = b
    BY <2>6, <2>7, Zenon DEF Only, Kin, Same
  <2> QED
    BY <2>1, <2>2, <2>5, <2>7, <2>8, <2>9, Zenon DEF ReadEvent
<1> QED
  BY <1>3, <1>4

\* A write completes or fails.
WriteEvent(h) ==
  /\ h \in Handlers /\ h.op = "written" /\ conn.writing
  /\ \/ /\ h.result = "ok" /\ errors' = errors
        /\ log' = IF gone THEN log ELSE Append(log, [n |-> conn.pending[1].n,
                                                     status |-> conn.pending[1].status])
     \/ /\ h.result = "failed" /\ log' = log
        /\ errors' \in Nat /\ errors' >= errors /\ (gone \/ errors' > 0)
  /\ conn'.strand = Append(conn.strand, h) /\ ~conn'.writing
  /\ Still(conn, conn') /\ conn'.reading = conn.reading
  /\ conn'.timer = conn.timer /\ conn'.expired = conn.expired
  /\ conn'.buffer = conn.buffer
  /\ UNCHANGED client

\* What these actions do.
LEMMA WriteEvents ==
  ASSUME IInv, WriteCompletes \/ WriteFails
  PROVE  \E h : WriteEvent(h)
<1> DEFINE d == [conn EXCEPT !.writing = FALSE]
<1>1. conn \in Conns /\ errors \in Nat
  BY TypeParts, SMT, SMTT(20) DEF IInv, ClientOK
<1>2. PICK result \in {"ok", "failed"} :
        /\ conn.writing /\ conn' = Post(d, [op |-> "written", result |-> result])
        /\ UNCHANGED client
        /\ \/ /\ result = "ok" /\ errors' = errors
              /\ log' = IF gone THEN log ELSE Append(log, [n |-> conn.pending[1].n,
                                                           status |-> conn.pending[1].status])
           \/ result = "failed" /\ log' = log /\ errors' = IF gone THEN errors ELSE errors + 1
  BY Zenon DEF WriteCompletes, WriteFails
<1> DEFINE h == [op |-> "written", result |-> result]
<1>3. h \in Handlers /\ h.op = "written" /\ h.result = result
  BY WrittenHandler DEF Results
<1>4. conn' = Post(d, h)
  BY <1>2
<1>5. /\ d.strand = conn.strand /\ d.reading = conn.reading /\ Still(conn, d)
      /\ ~d.writing /\ d.timer = conn.timer /\ d.expired = conn.expired
      /\ d.buffer = conn.buffer /\ d \in Conns
  BY <1>1, Zenon DEF Conns, Still
<1> HIDE DEF d, h
<1>6. Only(d, conn') /\ conn'.strand = Append(conn.strand, h)
  BY <1>3, <1>4, <1>5, PostOnly, Zenon
<1>7. Still(conn, conn')
  BY <1>5, <1>6, Zenon DEF Only, Kin, Same, Still
<1>8. /\ conn'.reading = conn.reading /\ ~conn'.writing
      /\ conn'.timer = conn.timer /\ conn'.expired = conn.expired
      /\ conn'.buffer = conn.buffer
  BY <1>5, <1>6, Zenon DEF Only, Kin, Same
<1>9. result = "failed" => errors' \in Nat /\ errors' >= errors /\ (gone \/ errors' > 0)
  BY <1>1, <1>2, SMT, SMTT(20)
<1> QED
  BY <1>2, <1>3, <1>6, <1>7, <1>8, <1>9, Zenon DEF WriteEvent

\* The timer expires.
ExpireEvent(h) ==
  /\ h \in Handlers /\ h.op = "timeout"
  /\ conn'.strand = IF conn.timer THEN Append(conn.strand, h) ELSE conn.strand
  /\ ~conn'.timer /\ conn'.expired
  /\ conn.timer \/ Posted("timeout") # {}
  /\ Still(conn, conn') /\ conn'.reading = conn.reading /\ conn'.writing = conn.writing
  /\ conn'.buffer = conn.buffer
  /\ UNCHANGED <<client, log, errors>>

\* What Expire does.
LEMMA ExpireEvents ==
  ASSUME IInv, Expire
  PROVE  \E h : ExpireEvent(h)
<1> DEFINE d == [conn EXCEPT !.timer = FALSE, !.expired = TRUE]
           h == [op |-> "timeout"]
<1>1. conn \in Conns
  BY TypeParts DEF IInv
<1>2. /\ conn' = IF conn.timer THEN Post(d, h) ELSE d
      /\ conn.timer \/ Posted("timeout") # {}
      /\ UNCHANGED <<client, log, errors>>
  BY Zenon DEF Expire
<1>3. h \in Handlers /\ h.op = "timeout"
  BY WrittenHandler
<1>4. /\ d.strand = conn.strand /\ d.reading = conn.reading /\ Still(conn, d)
      /\ d.writing = conn.writing /\ ~d.timer /\ d.expired
      /\ d.buffer = conn.buffer /\ d \in Conns
  BY <1>1, Zenon DEF Conns, Still
<1> HIDE DEF d, h
<1>5. Only(d, conn') /\ conn'.strand = IF conn.timer THEN Append(conn.strand, h) ELSE conn.strand
  <2>1. Only(d, d)
    BY <1>4, Zenon DEF Only, Kin, Same
  <2>2. Only(d, Post(d, h)) /\ Post(d, h).strand = Append(conn.strand, h)
    BY <1>3, <1>4, PostOnly, Zenon
  <2> QED
    BY <1>2, <1>4, <2>1, <2>2, Zenon
<1>6. /\ Still(conn, conn') /\ conn'.reading = conn.reading /\ conn'.writing = conn.writing
      /\ ~conn'.timer /\ conn'.expired /\ conn'.buffer = conn.buffer
  BY <1>4, <1>5 DEF Only, Kin, Same, Still
<1> QED
  BY <1>2, <1>3, <1>5, <1>6, Zenon DEF ExpireEvent
==============================================================================
