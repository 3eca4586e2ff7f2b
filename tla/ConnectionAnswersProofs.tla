----------------------- MODULE ConnectionAnswersProofs -----------------------
(***************************************************************************)
(* What a client gets, for every number of requests, length of a body and  *)
(* way to cut it into reads: the right answer, whatever fails, and, on a   *)
(* connection on which no write failed and from which the client does not  *)
(* go, answers in order, one for every payment accepted, an end that is    *)
(* explained, and a timer on all that is under way.                        *)
(*                                                                         *)
(* Two invariants are added to the one of ConnectionProofs.  FInv says     *)
(* where the connection is in what the client sends, and that each payment *)
(* and each response is the one of its request.  CInv says that a          *)
(* connection on which nothing failed does one thing at a time, and for    *)
(* which request.                                                          *)
(***************************************************************************)
EXTENDS ConnectionProofs

\* Requests are added; failures are not undone.
Grown ==
  /\ asked \in Seq(Kinds) /\ asked' \in Seq(Kinds) /\ Len(asked) <= Len(asked')
  /\ \A n \in 1..Len(asked) : asked'[n] = asked[n]
  /\ errors \in Nat /\ errors' \in Nat /\ errors <= errors'
  /\ gone => gone'

\* The place in the stream, the payments, the responses: the invariant.
FInv == Fine(conn) /\ Logged

\* At the start nothing was sent.
LEMMA InitFine == Init => FInv
<1> SUFFICES ASSUME Init
             PROVE  FInv
  OBVIOUS
<1> DEFINE h == [op |-> "start_read", of |-> "head", need |-> 0]
<1>1. /\ conn.strand = <<h>> /\ conn.reading = "none" /\ conn.pending = <<>>
      /\ conn.buffer = <<>> /\ conn.cur = 0 /\ conn.queued = <<>>
      /\ asked = <<>> /\ owes = 0 /\ wire = <<>> /\ log = <<>>
  BY DEF Init
<1>2. h \in Handlers /\ h.op = "start_read" /\ h.of = "head"
  BY StartReadHandler, ConnectionAssumption, SMT, SMTT(20)
<1>3. h \notin BodyToks /\ h \notin Bad
  BY <1>2, BodyTokParts, BadParts
<1> HIDE DEF h
<1>4. Zero(conn.strand, BodyToks) /\ Zero(conn.strand, Bad) /\ Zero(conn.pending, Wrong)
  BY <1>1, <1>3, SMT, SMTT(20) DEF Zero
<1>5. Rest(conn) = <<>>
  BY <1>1, SMT, SMTT(20) DEF Rest
<1>6. Chain(asked, owes, Rest(conn), conn.cur, 0)
  <2>1. Len(Rest(conn)) = 0 /\ Len(asked) = 0
    BY <1>1, <1>5
  <2> HIDE DEF Rest
  <2>2. Start(Rest(conn), conn.cur, 0) /\ Heads(asked, Rest(conn))
    BY <2>1, SMT, SMTT(20) DEF Start, Heads
  <2>3. End(asked, owes, Rest(conn), conn.cur, 0)
    BY <1>1, <2>1, SMT, SMTT(20) DEF End
  <2> QED
    BY <2>2, <2>3 DEF Chain
<1>7. AtHead(conn) /\ ~Midway(conn)
  BY <1>1, <1>4, <1>6, SMT, SMTT(20) DEF AtHead, Midway
<1>8. Owned(conn) /\ Answers(conn) /\ Logged
  BY <1>1, <1>4, SMT, SMTT(20) DEF Owned, Answers, Logged
<1> QED
  BY <1>7, <1>8 DEF FInv, Fine, Stream

\* Every step keeps it.
LEMMA StepFine == IInv /\ FInv /\ [Next]_vars => FInv'
\* An index is the last one or one before it.
<1>LastOr.
  ASSUME NEW n \in Nat, NEW i \in 1..(n + 1)
  PROVE  i = n + 1 \/ i \in 1..n
  BY <1>LastOr, SMT, SMTT(20)

\* Heads before the last one are followed by all of their bodies.
<1>LastHead.
  ASSUME NEW a, NEW u, List(u), Heads(a, u), NEW i \in 1..Len(u),
         u[i] = HeadOf(Len(a)), Len(u) <= i + BodyLength(a[Len(a)]),
         NEW k \in 1..Len(u), u[k].part = "head", k # i
  PROVE  k + BodyLength(a[u[k].n]) < i
  <2> USE <1>LastHead
  <2>1. Len(u) \in Nat /\ BodyLength(a[Len(a)]) \in Nat /\ BodyLength(a[u[k].n]) \in Nat
    BY Lengths DEF List
  <2>2. u[i].part = "head" /\ u[i].n = Len(a)
    BY Parts
  <2>3. ~(i < k)
    <3> SUFFICES ASSUME i < k PROVE FALSE
      OBVIOUS
    <3>1. k <= i + BodyLength(a[u[i].n])
      BY <2>1, <2>2, SMT, SMTT(20)
    <3>2. u[k] = BodyOf(u[i].n)
      BY <2>2, <3>1 DEF Heads
    <3> QED
      BY <3>2, Parts
  <2>4. ~(k < i /\ i <= k + BodyLength(a[u[k].n]))
    <3> SUFFICES ASSUME k < i, i <= k + BodyLength(a[u[k].n]) PROVE FALSE
      OBVIOUS
    <3>1. u[i] = BodyOf(u[k].n)
      BY DEF Heads
    <3> QED
      BY <3>1, Parts, ZenonT(40)
  <2> QED
    BY <2>1, <2>3, <2>4, SMT, SMTT(20)

\* The client sends the head of the next request.
<1>ChainSend.
  ASSUME NEW a \in Seq(Kinds), NEW kind \in Kinds, NEW m \in Nat, NEW r \in Nat,
         NEW u, List(u), \A i \in 1..Len(u) : u[i].n \in 1..Len(a), Chain(a, 0, u, m, r),
         NEW v, List(v), Grows(u, v, HeadOf(Len(a) + 1))
  PROVE  Chain(Append(a, kind), BodyLength(kind), v, m, r)
  <2> USE <1>ChainSend
  <2> DEFINE b == Append(a, kind)
             N == Len(a)
  <2>1. /\ N \in Nat /\ Len(b) = N + 1 /\ b[N + 1] = kind
        /\ \A n \in 1..N : b[n] = a[n]
    BY SMT, SMTT(20)
  <2>2. /\ Len(u) \in Nat /\ Len(v) = Len(u) + 1 /\ v[Len(u) + 1] = HeadOf(N + 1)
        /\ \A j \in 1..Len(u) : v[j] = u[j]
    BY DEF List, Grows
  <2>3. ASSUME NEW i \in 1..Len(u)
        PROVE  BodyLength(b[u[i].n]) = BodyLength(a[u[i].n])
    BY <2>1
  <2> HIDE DEF b
  <2>4. CASE Len(u) <= r
    <3>1. Len(u) = r /\ m = N
      BY <2>2, <2>4, SMT, SMTT(20) DEF Chain, End
    <3>2. Start(v, m, r)
      BY <2>2, <3>1, SMT, SMTT(20) DEF Chain, Start
    <3>3. \A i \in 1..Len(u) : u[i].part = "body"
      BY <3>1, Parts, SMT, SMTT(20) DEF Chain, Start
    <3>4. Heads(b, v)
      <4> SUFFICES ASSUME NEW i \in 1..Len(v), v[i].part = "head"
                   PROVE  /\ \A j \in 1..Len(v) :
                               i < j /\ j <= i + BodyLength(b[v[i].n]) => v[j] = BodyOf(v[i].n)
                          /\ i + BodyLength(b[v[i].n]) < Len(v)
                               => v[i + BodyLength(b[v[i].n]) + 1] = HeadOf(v[i].n + 1)
        BY DEF Heads
      <4>1. i = Len(u) + 1
        BY <2>2, <3>3, SMT, SMTT(20)
      <4>2. BodyLength(b[v[i].n]) \in Nat
        BY Lengths
      <4> QED
        BY <2>2, <4>1, <4>2, SMT, SMTT(20)
    <3>5. End(b, BodyLength(kind), v, m, r)
      <4>1. /\ Len(v) > r /\ Len(v) \in 1..Len(v) /\ v[Len(v)] = HeadOf(Len(b))
            /\ Len(v) + BodyLength(kind) = Len(v) + BodyLength(b[Len(b)])
        BY <2>1, <2>2, <3>1, SMT, SMTT(20)
      <4> QED
        BY <4>1 DEF End
    <3> QED
      BY <3>2, <3>4, <3>5 DEF Chain, b
  <2>5. CASE Len(u) > r
    <3>1. PICK i0 \in 1..Len(u) : u[i0] = HeadOf(N) /\ Len(u) + 0 = i0 + BodyLength(a[N])
      BY <2>2, <2>5, SMT, SMTT(20) DEF Chain, End
    <3>2. Start(v, m, r)
      <4>1. (\A j \in 1..Len(u) : j <= r => u[j] = BodyOf(m)) /\ u[r + 1] = HeadOf(m + 1)
        BY <2>2, <2>5 DEF Chain, Start
      <4>2. r + 1 \in 1..Len(u) /\ \A j \in 1..Len(v) : j <= r => j \in 1..Len(u)
        BY <2>2, <2>5, SMT, SMTT(20)
      <4> QED
        BY <2>2, <4>1, <4>2 DEF Start
    <3>3. Heads(b, v)
      <4> SUFFICES ASSUME NEW i \in 1..Len(v), v[i].part = "head"
                   PROVE  /\ \A j \in 1..Len(v) :
                               i < j /\ j <= i + BodyLength(b[v[i].n]) => v[j] = BodyOf(v[i].n)
                          /\ i + BodyLength(b[v[i].n]) < Len(v)
                               => v[i + BodyLength(b[v[i].n]) + 1] = HeadOf(v[i].n + 1)
        BY Zenon DEF Heads
      <4> DEFINE l == BodyLength(b[v[i].n])
      <4>1. l \in Nat
        BY Lengths
      <4>2. CASE i = Len(u) + 1
        BY <2>2, <4>1, <4>2, SMT, SMTT(20)
      <4>3. CASE i \in 1..Len(u)
        <5>1. v[i] = u[i] /\ u[i].part = "head"
          BY <2>2, <4>3
        <5>2. l = BodyLength(a[u[i].n])
          BY <2>3, <4>3, <5>1
        <5>3. /\ \A j \in 1..Len(u) : i < j /\ j <= i + l => u[j] = BodyOf(u[i].n)
              /\ i + l < Len(u) => u[i + l + 1] = HeadOf(u[i].n + 1)
          BY <4>3, <5>1, <5>2 DEF Chain, Heads
        <5>4. \/ i + l < i0
              \/ i = i0 /\ i + l = Len(u)
          <6>1. CASE i = i0
            <7>1. u[i].n = N
              BY <3>1, <6>1, Parts, Zenon
            <7> QED
              BY <2>2, <3>1, <4>1, <5>2, <6>1, <7>1, SMT, SMTT(20)
          <6>2. CASE i # i0
            <7>1. i + BodyLength(a[u[i].n]) < i0
              <8>1. Len(u) <= i0 + BodyLength(a[N])
                BY <2>2, <3>1, SMT, SMTT(20)
              <8> QED
                BY <3>1, <4>3, <5>1, <6>2, <8>1, <1>LastHead DEF Chain
            <7> QED
              BY <5>2, <7>1
          <6> QED
            BY <6>1, <6>2
        <5> HIDE DEF l
        <5>5. i + l <= Len(u)
          BY <2>2, <4>1, <5>4, SMT, SMTT(20)
        <5>6. ASSUME NEW j \in 1..Len(v), i < j, j <= i + l
              PROVE  v[j] = BodyOf(v[i].n)
          <6>1. j \in 1..Len(u)
            BY <2>2, <4>1, <5>5, <5>6, SMT, SMTT(20)
          <6> QED
            BY <2>2, <5>1, <5>3, <5>6, <6>1
        <5>7. v[i + l + 1] = HeadOf(v[i].n + 1)
          <6>1. CASE i + l < i0
            <7>1. i + l < Len(u) /\ i + l + 1 \in 1..Len(u)
              BY <2>2, <4>1, <6>1, SMT, SMTT(20)
            <7> QED
              BY <2>2, <5>1, <5>3, <7>1
          <6>2. CASE i = i0 /\ i + l = Len(u)
            <7>1. v[i] = HeadOf(N) /\ i + l + 1 = Len(u) + 1
              BY <3>1, <5>1, <6>2, Zenon
            <7>2. v[i].n = N
              BY <7>1, Parts, Zenon
            <7> QED
              BY <2>2, <7>1, <7>2
          <6> QED
            BY <5>4, <6>1, <6>2
        <5> QED
          BY <5>6, <5>7 DEF l
      <4>4. i = Len(u) + 1 \/ i \in 1..Len(u)
        <5>1. Len(u) \in Nat /\ i \in 1..(Len(u) + 1)
          BY <2>2, Zenon
        <5> QED
          BY <5>1, <1>LastOr, Zenon
      <4> QED
        BY <4>2, <4>3, <4>4
    <3>4. End(b, BodyLength(kind), v, m, r)
      <4>1. /\ Len(v) > r /\ Len(v) \in 1..Len(v) /\ v[Len(v)] = HeadOf(Len(b))
            /\ Len(v) + BodyLength(kind) = Len(v) + BodyLength(b[Len(b)])
        BY <2>1, <2>2, <2>5, SMT, SMTT(20)
      <4> QED
        BY <4>1 DEF End
    <3> QED
      BY <3>2, <3>3, <3>4 DEF Chain, b
  <2> QED
    BY <2>2, <2>4, <2>5, SMT, SMTT(20) DEF b

\* The client sends a unit of the body it owes.
<1>ChainSendBody.
  ASSUME NEW a, NEW o \in Nat, o > 0, NEW m \in Nat, NEW r \in Nat,
         NEW u, List(u), Chain(a, o, u, m, r),
         NEW v, List(v), Grows(u, v, BodyOf(Len(a)))
  PROVE  Chain(a, o - 1, v, m, r)
  <2> USE <1>ChainSendBody
  <2> DEFINE N == Len(a)
  <2>1. /\ Len(u) \in Nat /\ Len(v) = Len(u) + 1 /\ v[Len(u) + 1] = BodyOf(N)
        /\ \A j \in 1..Len(u) : v[j] = u[j]
    BY DEF List, Grows
  <2>2. Len(u) <= r \/ Len(u) > r
    BY <2>1, SMT, SMTT(20)
  <2>3. Len(u) <= r => Len(u) < r /\ m = N /\ Len(u) + o = r
    BY <2>1, SMT, SMTT(20) DEF Chain, End
  <2>4. Start(v, m, r)
    BY <2>1, <2>3, SMT, SMTT(20) DEF Chain, Start
  <2>5. Len(u) > r => \E i \in 1..Len(u) : u[i] = HeadOf(N) /\ Len(u) + o = i + BodyLength(a[N])
    BY <2>1, SMT, SMTT(20) DEF Chain, End
  <2>6. End(a, o - 1, v, m, r)
    <3>1. CASE Len(u) <= r
      <4>1. Len(v) <= r /\ m = N /\ Len(v) + (o - 1) = r
        BY <2>1, <2>3, <3>1, SMT, SMTT(20)
      <4> QED
        BY <4>1 DEF End
    <3>2. CASE Len(u) > r
      <4>1. PICK i \in 1..Len(u) : u[i] = HeadOf(N) /\ Len(u) + o = i + BodyLength(a[N])
        BY <2>5, <3>2
      <4>2. BodyLength(a[N]) \in Nat
        BY Lengths
      <4>3. i \in 1..Len(v) /\ v[i] = HeadOf(N) /\ Len(v) > r
        BY <2>1, <3>2, <4>1, SMT, SMTT(20)
      <4>4. Len(v) + (o - 1) = i + BodyLength(a[N])
        BY <2>1, <4>1, <4>2, SMT, SMTT(20)
      <4> QED
        BY <4>3, <4>4 DEF End
    <3> QED
      BY <2>2, <3>1, <3>2
  <2>7. Heads(a, v)
    <3> SUFFICES ASSUME NEW i \in 1..Len(v), v[i].part = "head"
                 PROVE  /\ \A j \in 1..Len(v) :
                             i < j /\ j <= i + BodyLength(a[v[i].n]) => v[j] = BodyOf(v[i].n)
                        /\ i + BodyLength(a[v[i].n]) < Len(v)
                             => v[i + BodyLength(a[v[i].n]) + 1] = HeadOf(v[i].n + 1)
      BY DEF Heads
    <3> DEFINE l == BodyLength(a[v[i].n])
    <3>1. l \in Nat
      BY Lengths
    <3>2. i \in 1..Len(u) /\ v[i] = u[i] /\ u[i].part = "head"
      <4>1. i = Len(u) + 1 \/ i \in 1..Len(u)
        BY <2>1, SMT, SMTT(20)
      <4>2. v[Len(u) + 1].part = "body"
        BY <2>1, Parts
      <4> QED
        BY <2>1, <4>1, <4>2
    <3>3. /\ \A j \in 1..Len(u) : i < j /\ j <= i + l => u[j] = BodyOf(u[i].n)
          /\ i + l < Len(u) => u[i + l + 1] = HeadOf(u[i].n + 1)
      BY <3>2 DEF Chain, Heads
    <3>4. \/ i + l < Len(u)
          \/ u[i].n = N /\ i + l > Len(u)
      <4>1. CASE Len(u) <= r
        BY <2>1, <2>3, <3>2, <4>1, Parts, SMT, SMTT(20) DEF Chain, Start
      <4>2. CASE Len(u) > r
        <5>1. PICK i0 \in 1..Len(u) : u[i0] = HeadOf(N) /\ Len(u) + o = i0 + BodyLength(a[N])
          BY <2>5, <4>2
        <5>2. CASE i = i0
          <6>1. u[i].n = N /\ l = BodyLength(a[N])
            BY <3>2, <5>1, <5>2, Parts, SMT, SMTT(20)
          <6> QED
            BY <2>1, <3>1, <5>1, <5>2, <6>1, SMT, SMTT(20)
        <5>3. CASE i # i0
          <6>1. i + BodyLength(a[u[i].n]) < i0
            <7>1. Len(u) <= i0 + BodyLength(a[N])
              <8>1. BodyLength(a[N]) \in Nat
                BY Lengths
              <8> QED
                BY <2>1, <5>1, <8>1, SMT, SMTT(20)
            <7> QED
              BY <3>2, <5>1, <5>3, <7>1, <1>LastHead DEF Chain
          <6>2. i + l < i0
            BY <3>2, <6>1
          <6> QED
            BY <2>1, <3>1, <6>2, SMT, SMTT(20)
        <5> QED
          BY <5>2, <5>3
      <4> QED
        BY <2>2, <4>1, <4>2
    <3> HIDE DEF l
    <3>5. ASSUME NEW j \in 1..Len(v), i < j, j <= i + l
          PROVE  v[j] = BodyOf(v[i].n)
      <4>1. CASE j \in 1..Len(u)
        BY <2>1, <3>2, <3>3, <3>5, <4>1
      <4>2. CASE j = Len(u) + 1
        <5>1. u[i].n = N
          BY <2>1, <3>1, <3>4, <3>5, <4>2, SMT, SMTT(20)
        <5> QED
          BY <2>1, <3>2, <4>2, <5>1
      <4> QED
        BY <2>1, <4>1, <4>2, SMT, SMTT(20)
    <3>6. ASSUME i + l < Len(v)
          PROVE  v[i + l + 1] = HeadOf(v[i].n + 1)
      <4>1. i + l < Len(u) /\ i + l + 1 \in 1..Len(u)
        BY <2>1, <3>1, <3>4, <3>6, SMT, SMTT(20)
      <4> QED
        BY <2>1, <3>2, <3>3, <4>1
    <3> QED
      BY <3>5, <3>6 DEF l
  <2> QED
    BY <2>4, <2>6, <2>7 DEF Chain

\* A handler that reads nothing is added, or none, and no response that reads.
<1>OtherMoves.
  ASSUME NEW c \in Conns, NEW d,
         d.queued = c.queued, d.buffer = c.buffer, d.cur = c.cur, d.reading = c.reading,
         Zero(c.pending, Ons) => Zero(d.pending, Ons),
         NEW h \in Handlers, h \notin Toks,
         d.strand = c.strand \/ d.strand = Append(c.strand, h)
  PROVE  Moves(c, d)
  <2> USE <1>OtherMoves
  <2>1. c.strand \in Seq(Handlers) /\ h \notin BodyToks
    BY BodyTokParts DEF Conns
  <2>2. Zero(c.strand, Toks) => Zero(d.strand, Toks)
    BY <2>1, CountAppend, Zenon
  <2>3. Zero(c.strand, BodyToks) => Zero(d.strand, BodyToks)
    BY <2>1, CountAppend, Zenon
  <2>4. Zero(d.strand, BodyToks) => Zero(c.strand, BodyToks)
    <3>1. \A i \in DOMAIN c.strand : i \in DOMAIN d.strand /\ d.strand[i] = c.strand[i]
      BY <2>1, SMT, SMTT(20)
    <3> QED
      BY <3>1 DEF Zero
  <2> QED
    BY <2>2, <2>3, <2>4 DEF Moves, Free, Midway

\* close().
<1>CloseMoves.
  ASSUME NEW c \in Conns, NEW why
  PROVE  LET d == CloseSocket(c, why) IN Moves(c, d) /\ (Answers(c) => Answers(d))
  <2> USE <1>CloseMoves
  <2> DEFINE x == [op |-> "read", of |-> c.reading, result |-> "aborted"]
             y == [op |-> "written", result |-> "aborted"]
             s == IF c.reading = "none" THEN c.strand ELSE Append(c.strand, x)
             d == CloseSocket(c, why)
  <2>1. /\ d.strand = IF c.writing THEN Append(s, y) ELSE s
        /\ s \in Seq(Handlers) /\ y \in Handlers
        /\ c.reading # "none" => x \in Handlers
        /\ d.queued = c.queued /\ d.buffer = c.buffer /\ d.cur = c.cur
        /\ d.reading = "none" /\ ~d.writing /\ d.pending = c.pending
    BY CloseParts
  <2>2. /\ y.op = "written" /\ y.result = "aborted"
        /\ x.op = "read" /\ x.of = c.reading
        /\ s = IF c.reading = "none" THEN c.strand ELSE Append(c.strand, x)
    OBVIOUS
  <2> HIDE DEF d, x, y, s
  <2>3. c.strand \in Seq(Handlers) /\ c.reading \in {"none", "head", "body"}
    BY DEF Conns
  <2>4. y \notin Toks /\ y \notin BodyToks /\ y \notin Bad
    BY <2>1, <2>2, BodyTokParts, HandlerParts, BadParts
  <2>5. c.reading # "none" => x \notin Bad /\ (x \in BodyToks <=> c.reading = "body")
    BY <2>1, <2>2, BodyTokParts, BadParts
  <2>6. /\ Zero(s, Toks) => Zero(d.strand, Toks)
        /\ Zero(s, Bad) => Zero(d.strand, Bad)
        /\ Zero(s, BodyToks) => Zero(d.strand, BodyToks)
    BY <2>1, <2>4, CountAppend
  <2>7. Zero(d.strand, BodyToks) => Zero(s, BodyToks)
    <3>1. \A i \in DOMAIN s : i \in DOMAIN d.strand /\ d.strand[i] = s[i]
      BY <2>1, SMT, SMTT(20)
    <3> QED
      BY <3>1 DEF Zero
  <2>8. /\ Zero(c.strand, Bad) => Zero(s, Bad)
        /\ c.reading = "none" => s = c.strand
        /\ Zero(c.strand, BodyToks) /\ c.reading # "body" => Zero(s, BodyToks)
    BY <2>1, <2>2, <2>3, <2>5, CountAppend
  <2>9. Zero(s, BodyToks) => Zero(c.strand, BodyToks) /\ c.reading # "body"
    <3>1. \A i \in DOMAIN c.strand : i \in DOMAIN s /\ s[i] = c.strand[i]
      BY <2>1, <2>2, <2>3, SMT, SMTT(20)
    <3>2. c.reading = "body" => Len(c.strand) + 1 \in DOMAIN s /\ s[Len(c.strand) + 1] = x
      BY <2>1, <2>2, <2>3, SMT, SMTT(20)
    <3> QED
      BY <2>5, <3>1, <3>2 DEF Zero
  <2>10. Midway(c) <=> Midway(d)
    BY <2>1, <2>6, <2>7, <2>8, <2>9 DEF Midway
  <2>11. Free(c) => Free(d)
    BY <2>1, <2>6, <2>8 DEF Free
  <2>12. Answers(c) => Answers(d)
    BY <2>1, <2>6, <2>8 DEF Answers
  <2> QED
    BY <2>1, <2>10, <2>11, <2>12 DEF Moves, d

\* read().
<1>ReadFine.
  ASSUME NEW c \in Conns, Free(c), Owned(c), Answers(c), NEW what \in {"head", "body"},
         NEW need \in 0..Length, what = "head" => AtHead(c), what = "body" => InBody(c)
  PROVE  LET d == Read(c, what, need) IN
         /\ Fine(d) /\ d.strand = c.strand /\ d.reading = what /\ d.timer /\ ~d.expired
         /\ d.pending = c.pending /\ d.writing = c.writing /\ d.open = c.open /\ d.fd = c.fd
         /\ d.ended = c.ended /\ d.cur = c.cur /\ d.queued = c.queued
  <2> USE <1>ReadFine
  <2> DEFINE d == Read(c, what, need)
  <2>1. /\ d.strand = c.strand /\ d.reading = what /\ d.timer /\ ~d.expired
        /\ d.pending = c.pending /\ d.writing = c.writing /\ d.open = c.open /\ d.fd = c.fd
        /\ d.ended = c.ended /\ d.cur = c.cur /\ d.queued = c.queued /\ d.buffer = c.buffer
    BY DEF Read, ArmTimer, Conns
  <2> HIDE DEF d
  <2>2. Zero(d.strand, BodyToks)
    BY <2>1, FreeNotMidway, Zenon
  <2>3. Midway(d) <=> what = "body"
    BY <2>1, <2>2 DEF Midway
  <2>4. Owned(d) /\ (AtHead(c) => AtHead(d)) /\ (InBody(c) => InBody(d))
    BY <2>1, SameParts
  <2>5. Answers(d)
    BY <2>1 DEF Answers
  <2> QED
    BY <2>1, <2>3, <2>4, <2>5 DEF Fine, Stream, d

\* write() sends what is pending or drops it.
<1>WriteMoves.
  ASSUME NEW c \in Conns
  PROVE  Moves(c, Write(c)) /\ (Answers(c) => Answers(Write(c)))
  <2> USE <1>WriteMoves
  <2> DEFINE d == Write(c)
  <2>1. /\ d.strand = c.strand /\ d.reading = c.reading
        /\ d.cur = c.cur /\ d.queued = c.queued /\ d.buffer = c.buffer
        /\ d.pending = c.pending \/ d.pending = <<>>
    BY WriteParts
  <2> HIDE DEF d
  <2>2. \A T : Zero(c.pending, T) => Zero(d.pending, T)
    BY <2>1, ZeroEmpty
  <2> QED
    BY <2>1, <2>2 DEF Moves, Answers, Free, Midway, d

\* write_helper().
<1>WriteHelperFine.
  ASSUME NEW c \in Conns, Owned(c), Answers(c), NEW r \in Resps, r \notin Wrong,
         r.then = "read" => Free(c) /\ AtHead(c), r.then # "read" => Stream(c)
  PROVE  Fine(WriteHelper(c, r))
  <2> USE <1>WriteHelperFine
  <2> DEFINE e == [c EXCEPT !.pending = Append(@, r)]
             d == WriteHelper(c, r)
  <2>1. c.pending \in Seq(Resps) /\ Append(c.pending, r) \in Seq(Resps)
    BY SMT, SMTT(20) DEF Conns
  <2>2. /\ e \in Conns /\ e.pending = Append(c.pending, r) /\ e.strand = c.strand
        /\ e.reading = c.reading /\ e.cur = c.cur /\ e.queued = c.queued /\ e.buffer = c.buffer
    BY <2>1, Zenon DEF Conns
  <2>3. d = e \/ d = Write(e)
    BY DEF WriteHelper
  <2> HIDE DEF e, d
  <2>4. Answers(e)
    <3>1. Zero(e.pending, Wrong)
      BY <2>1, <2>2, CountAppend DEF Answers
    <3> QED
      BY <2>2, <3>1 DEF Answers
  <2>5. Owned(e)
    BY <2>2, SameParts
  <2>6. Stream(e)
    <3>1. CASE r.then = "read"
      <4>1. ~Midway(e)
        BY <2>2, <3>1, FreeNotMidway DEF Midway
      <4>2. AtHead(e)
        BY <2>2, <3>1, SameParts
      <4> QED
        BY <4>1, <4>2 DEF Stream
    <3>2. CASE r.then # "read"
      <4>1. Zero(c.pending, Ons) => Zero(e.pending, Ons)
        BY <2>1, <2>2, <3>2, CountAppend, SMT, SMTT(20) DEF Ons
      <4>2. Moves(c, e)
        BY <2>2, <4>1 DEF Moves, Free, Midway
      <4> QED
        BY <3>2, <4>2, MovesStream
    <3> QED
      BY <3>1, <3>2
  <2>7. (Moves(e, d) /\ Answers(d)) \/ d = e
    BY <2>2, <2>3, <2>4, <1>WriteMoves
  <2> QED
    BY <2>4, <2>5, <2>6, <2>7, MovesStream DEF Fine, d

\* The completion handler of read().
<1>ReadEndsFine.
  ASSUME NEW c \in Conns, Answers(c), NEW of, NEW result, NEW d, ReadEnds(c, of, result, d)
  PROVE  Fine(d)
  <2> USE <1>ReadEndsFine
  <2>1. d.pending = c.pending /\ Stream(d) /\ Owned(d) /\ c.strand \in Seq(Handlers)
    BY DEF ReadEnds, Same, Conns
  <2>2. \/ d.strand = c.strand
        \/ \E h \in Handlers : h \notin Bad /\ d.strand = Append(c.strand, h)
    <3>1. CASE Replies(c, d)
      <4>1. PICK r \in Resps : /\ d.strand = Append(c.strand, [op |-> "write_helper", resp |-> r])
                               /\ Right(r.n, r.status)
        BY <3>1, Zenon DEF Replies
      <4> DEFINE h == [op |-> "write_helper", resp |-> r]
      <4>2. h \in Handlers /\ h.op = "write_helper" /\ h.resp = r
        BY WriteHandler
      <4>3. r \notin Wrong
        BY <4>1 DEF Wrong
      <4> HIDE DEF h
      <4>4. h \notin Bad
        BY <4>2, <4>3, BadParts
      <4> QED
        BY <4>1, <4>2, <4>4 DEF h
    <3>2. CASE AsksBody(c, d)
      <4>1. PICK h \in BodyToks : d.strand = Append(c.strand, h) /\ h.op = "start_read"
        BY <3>2, Zenon DEF AsksBody
      <4>2. h \in Handlers
        BY DEF BodyToks
      <4> QED
        BY <4>1, <4>2, BadParts
    <3> QED
      BY <3>1, <3>2 DEF ReadEnds, Silent
  <2>3. Zero(d.strand, Bad)
    BY <2>1, <2>2, CountAppend, Zenon DEF Answers
  <2> QED
    BY <2>1, <2>3 DEF Fine, Answers

\* The front of the pending responses is retried or dropped.
<1>PendingAnswers.
  ASSUME NEW p \in Seq(Resps), p # <<>>, NEW again \in BOOLEAN,
         again => p[1].tries < MaxRetries, Zero(p, Wrong)
  PROVE  /\ Head(p) \in Resps /\ Head(p) = p[1] /\ Right(Head(p).n, Head(p).status)
         /\ Zero(IF again THEN Retried(p) ELSE Tail(p), Wrong)
  <2> USE <1>PendingAnswers
  <2>1. /\ Head(p) \in Resps /\ Head(p) = p[1] /\ Zero(Tail(p), Wrong) /\ Head(p) \notin Wrong
        /\ 1 \in DOMAIN p
    BY CountTail
  <2>2. Right(Head(p).n, Head(p).status)
    BY <2>1 DEF Wrong
  <2>3. ASSUME again
        PROVE  Zero(Retried(p), Wrong)
    <3> DEFINE e == [p[1] EXCEPT !.tries = @ + 1]
    <3>1. e \in Resps /\ e.n = p[1].n /\ e.status = p[1].status
      <4>1. p[1] \in Resps
        BY <2>1
      <4>2. p[1].tries + 1 \in 0..MaxRetries
        BY <2>3, <4>1, ConnectionAssumption, SMT, SMTT(20) DEF Resps
      <4>3. e = [p[1] EXCEPT !.tries = p[1].tries + 1]
        OBVIOUS
      <4>4. e \in Resps
        BY <4>1, <4>2, <4>3, RespTries
      <4> QED
        BY <4>1, <4>4, SMT, SMTT(20) DEF Resps
    <3>2. Retried(p) = [p EXCEPT ![1] = e]
      BY <2>1 DEF Retried
    <3> HIDE DEF e
    <3>3. e \in Wrong <=> p[1] \in Wrong
      BY <2>1, <3>1 DEF Wrong
    <3> QED
      BY <3>1, <3>2, <3>3, CountReplace, Zenon
  <2> QED
    BY <2>1, <2>2, <2>3

\* A handler added to the strand that is not bad.
<1>AddAnswers.
  ASSUME NEW c \in Conns, Answers(c), NEW d, d.pending = c.pending,
         NEW h \in Handlers, h \notin Bad,
         d.strand = c.strand \/ d.strand = Append(c.strand, h)
  PROVE  Answers(d)
  <2> USE <1>AddAnswers
  <2>1. c.strand \in Seq(Handlers) /\ Zero(c.strand, Bad)
    BY DEF Conns, Answers
  <2>2. Zero(d.strand, Bad)
    BY <2>1, CountAppend, Zenon
  <2> QED
    BY <2>2 DEF Answers

\* The completion handler of write().
<1>WrittenFine.
  ASSUME NEW c, Good(c), Owed(c), c.pending # <<>>, Fine(c), NEW result \in Results,
         result = "failed" => errors > 0 \/ gone
  PROVE  Fine(Written(c, result))
  <2> USE <1>WrittenFine
  <2> DEFINE r == Head(c.pending)
             again == result = "failed" /\ r.tries < MaxRetries
             q == IF again THEN Retried(c.pending) ELSE Tail(c.pending)
             d == [CancelTimer(c) EXCEPT
                     !.pending = IF result = "failed" /\ r.tries < MaxRetries
                                 THEN Retried(@) ELSE Tail(@)]
             x == [op |-> "start_read", of |-> "head", need |-> 0]
             e == CASE result = "aborted"                  -> d
                    [] result = "failed"                   -> SessionError(d, r.n)
                    [] result = "ok" /\ r.then = "close"   -> CloseSocket(d, "answer")
                    [] result = "ok" /\ r.then = "read"    -> Post(d, x)
  <2>1. c \in Conns /\ AtMost(c) /\ Stream(c) /\ Owned(c) /\ Answers(c)
    BY DEF Good, Fine
  <2>2. c.pending \in Seq(Resps) /\ c.pending # <<>> /\ Zero(c.pending, Wrong)
    BY <2>1 DEF Conns, Answers
  <2>3. again \in BOOLEAN /\ (again => c.pending[1].tries < MaxRetries)
    BY <2>2, CountTail
  <2>4. Written(c, result) = IF e.pending = <<>> THEN e ELSE Write(e)
    BY DEF Written
  <2> HIDE DEF again
  <2>5. /\ r \in Resps /\ Right(r.n, r.status) /\ Zero(q, Wrong) /\ q \in Seq(Resps)
        /\ Zero(c.pending, Ons) => Zero(q, Ons)
        /\ r \in Ons => ~Zero(c.pending, Ons)
    <3>1. r \in Resps /\ Right(r.n, r.status) /\ Zero(q, Wrong)
      BY <2>2, <2>3, <1>PendingAnswers
    <3>2. q \in Seq(Resps) /\ (Zero(c.pending, Ons) => Zero(q, Ons))
      BY <2>2, <2>3, PendingMoves
    <3>3. r \in Ons => ~Zero(c.pending, Ons)
      BY <2>2, CountTail
    <3> QED
      BY <3>1, <3>2, <3>3
  <2> HIDE DEF q, r
  <2>6. /\ d \in Conns /\ d.strand = c.strand /\ d.reading = c.reading /\ d.writing = c.writing
        /\ d.pending = q /\ d.cur = c.cur /\ d.queued = c.queued /\ d.buffer = c.buffer
    <3>1. d = [CancelTimer(c) EXCEPT !.pending = q]
      BY <2>1 DEF CancelTimer, Conns, again, q
    <3> HIDE DEF d
    <3> QED
      BY <2>1, <2>5, <3>1, Zenon DEF CancelTimer, Conns
  <2> HIDE DEF d, x
  <2>7. Moves(c, d)
    BY <2>5, <2>6 DEF Moves, Free, Midway
  <2>8. Answers(d)
    BY <2>1, <2>5, <2>6 DEF Answers
  <2>9. Stream(d) /\ Owned(d)
    BY <2>1, <2>7, MovesStream
  <2>10. e \in Conns /\ Fine(e)
    <3>1. CASE result = "aborted"
      <4>1. e = d
        BY <3>1, Zenon
      <4> QED
        BY <2>6, <2>8, <2>9, <4>1, Zenon DEF Fine
    <3>2. CASE result = "failed"
      <4> DEFINE h == Reply(r.n, 500, "close")
      <4>1. e = SessionError(d, r.n)
        BY <3>2
      <4>2. r.n \in 0..MaxRequests /\ 500 \in Statuses
        BY <2>5, SMT, SMTT(20) DEF Resps, Statuses
      <4>3. /\ Only(d, SessionError(d, r.n))
            /\ SessionError(d, r.n).strand \in {d.strand, Append(d.strand, h)}
        BY <2>6, <4>2, SessionErrorOnly, SMT, SMTT(20)
      <4>4. /\ h \in Handlers /\ h.op = "write_helper" /\ h.resp \in Resps
            /\ h.resp.n = r.n /\ h.resp.status = 500 /\ h \notin Toks
        BY <4>2, ReplyParts, SMT, SMTT(20)
      <4> HIDE DEF h, e
      <4>5. Right(r.n, 500)
        BY <2>5, <3>2 DEF Right
      <4>6. h \notin Bad
        BY <4>4, <4>5, BadParts DEF Wrong
      <4>7. /\ e \in Conns /\ e.pending = d.pending /\ e.reading = d.reading
            /\ e.cur = d.cur /\ e.queued = d.queued /\ e.buffer = d.buffer
            /\ e.strand = d.strand \/ e.strand = Append(d.strand, h)
        BY <4>1, <4>3 DEF Only, Kin, Same
      <4>8. Moves(d, e)
        BY <2>6, <4>4, <4>7, <1>OtherMoves, SMT, SMTT(20)
      <4>9. Answers(e)
        BY <2>6, <2>8, <4>4, <4>6, <4>7, <1>AddAnswers
      <4> QED
        BY <2>9, <4>7, <4>8, <4>9, MovesStream DEF Fine
    <3>3. CASE result = "ok" /\ r.then = "close"
      <4>1. e = CloseSocket(d, "answer")
        BY <3>3
      <4>2. e \in Conns
        BY <2>6, <4>1, CloseKeeps, Zenon
      <4>3. Moves(d, e) /\ Answers(e)
        BY <2>6, <2>8, <4>1, <1>CloseMoves, Zenon
      <4> QED
        BY <2>9, <4>2, <4>3, MovesStream, Zenon DEF Fine
    <3>4. CASE result = "ok" /\ r.then = "read"
      <4>1. e = Post(d, x)
        BY <3>4
      <4>2. x \in Handlers /\ x.op = "start_read" /\ x.of = "head"
        BY StartReadHandler, ConnectionAssumption, SMT, SMTT(20) DEF x
      <4>3. x \notin Bad /\ x \notin BodyToks
        BY <4>2, BadParts, BodyTokParts
      <4> HIDE DEF e
      <4>4. Only(d, e) /\ e.strand = Append(d.strand, x)
        BY <2>6, <4>1, <4>2, PostOnly
      <4>5. /\ e \in Conns /\ e.pending = d.pending /\ e.reading = d.reading
            /\ e.cur = d.cur /\ e.queued = d.queued /\ e.buffer = d.buffer
        BY <4>4, Zenon DEF Only, Kin, Same
      <4>6. c.reading = "none" /\ Zero(c.strand, Toks) /\ ~Free(c)
        <5>1. ~Zero(c.pending, Ons)
          BY <2>5, <3>4 DEF Ons
        <5> QED
          BY <2>1, <5>1 DEF AtMost, Free
      <4>7. Zero(c.strand, BodyToks)
        <5>1. c.strand \in Seq(Handlers)
          BY <2>1 DEF Conns
        <5> QED
          BY <4>6, <5>1, BodyTokParts, SMT, SMTT(20) DEF Zero
      <4>8. AtHead(c)
        BY <2>1, <4>6, <4>7 DEF Stream, Midway
      <4>9. AtHead(e)
        BY <2>6, <4>5, <4>8, SameParts
      <4>10. ~Midway(e)
        <5>1. Zero(e.strand, BodyToks)
          <6>1. d.strand \in Seq(Handlers) /\ Zero(d.strand, BodyToks)
            BY <2>6, <4>7 DEF Conns
          <6>2. Zero(Append(d.strand, x), BodyToks)
            BY <4>2, <4>3, <6>1, CountAppend, Zenon
          <6> QED
            BY <4>4, <6>2
        <5> QED
          BY <2>6, <4>5, <4>6, <5>1 DEF Midway
      <4>11. Answers(e) /\ Owned(e)
        BY <2>6, <2>8, <2>9, <4>2, <4>3, <4>4, <4>5, <1>AddAnswers, SameParts
      <4> QED
        BY <4>5, <4>9, <4>10, <4>11 DEF Fine, Stream
    <3>5. r.then \in {"read", "close"}
      BY <2>5, SMT, SMTT(20) DEF Resps
    <3> QED
      BY <3>1, <3>2, <3>3, <3>4, <3>5 DEF Results
  <2> HIDE DEF e
  <2>11. Fine(Write(e))
    BY <2>10, <1>WriteMoves, MovesStream DEF Fine
  <2> QED
    BY <2>4, <2>10, <2>11

\* connection_timeout_handler.
<1>TimeoutFine.
  ASSUME NEW c \in Conns, Fine(c)
  PROVE  Fine(TimeoutHandler(c))
  <2> USE <1>TimeoutFine
  <2>1. ASSUME NEW why
        PROVE  Fine(CloseSocket(c, why))
    BY <1>CloseMoves, MovesStream DEF Fine
  <2> QED
    BY <2>1 DEF TimeoutHandler

\* What a request may get, it may still get.
<1>RightGrows.
  ASSUME Grown, NEW n, NEW status, Right(n, status)
  PROVE  Right(n, status)'
  <2> USE <1>RightGrows
  <2>1. Len(asked) \in Nat /\ Len(asked') \in Nat /\ Len(asked) <= Len(asked')
    BY SMT, SMTT(20) DEF Grown
  <2>2. n \in 1..Len(asked) /\ n \in 1..Len(asked') /\ asked'[n] = asked[n]
    BY <2>1, SMT, SMTT(20) DEF Grown, Right
  <2>3. CASE status = Status(asked[n])
    BY <2>2, <2>3 DEF Right
  <2>4. CASE status = 400 /\ \E m \in 1..(n - 1) : asked[m] = "purgeBody"
    <3>1. PICK m \in 1..(n - 1) : asked[m] = "purgeBody"
      BY <2>4
    <3>2. m \in 1..Len(asked)
      BY <2>1, <2>2, SMT, SMTT(20)
    <3>3. asked'[m] = "purgeBody"
      BY <3>1, <3>2 DEF Grown
    <3> QED
      BY <2>2, <2>4, <3>3 DEF Right
  <2>5. CASE status = 500 /\ (errors > 0 \/ gone)
    <3>1. errors' > 0 \/ gone'
      BY <2>5, SMT, SMTT(20) DEF Grown
    <3> QED
      BY <2>2, <2>5, <3>1 DEF Right
  <2> QED
    BY <2>3, <2>4, <2>5 DEF Right

\* Fewer responses and handlers are wrong, and payments stay as they are.
<1>SetsShrink.
  ASSUME Grown
  PROVE  /\ \A r : r \in Wrong' => r \in Wrong
         /\ \A h : h \in Bad' => h \in Bad
         /\ \A x : Paid(x) => Paid(x)'
  <2> USE <1>SetsShrink
  <2>1. ASSUME NEW r, r \in Wrong'
        PROVE  r \in Wrong
    <3>1. r \in Resps /\ ~Right(r.n, r.status)'
      BY <2>1 DEF Wrong
    <3>2. ~Right(r.n, r.status)
      BY <3>1, <1>RightGrows
    <3> QED
      BY <3>1, <3>2 DEF Wrong
  <2>2. ASSUME NEW h, h \in Bad'
        PROVE  h \in Bad
    <3>1. /\ h \in Handlers
          /\ \/ h.op = "write_helper" /\ h.resp \in Wrong'
             \/ h.op = "written" /\ h.result = "failed" /\ errors' = 0 /\ ~gone'
      BY <2>2 DEF Bad
    <3>2. errors' = 0 /\ ~gone' => errors = 0 /\ ~gone
      BY SMT, SMTT(20) DEF Grown
    <3>3. h.resp \in Wrong' => h.resp \in Wrong
      BY <2>1
    <3> QED
      BY <3>1, <3>2, <3>3 DEF Bad
  <2>3. ASSUME NEW x, Paid(x)
        PROVE  Paid(x)'
    <3>1. Len(asked) \in Nat /\ Len(asked') \in Nat /\ Len(asked) <= Len(asked')
      BY SMT, SMTT(20) DEF Grown
    <3>2. x.n \in 1..Len(asked) /\ asked[x.n] = "payment"
      BY <2>3 DEF Paid
    <3>3. x.n \in 1..Len(asked') /\ asked'[x.n] = "payment"
      BY <3>1, <3>2, SMT, SMTT(20) DEF Grown
    <3> QED
      BY <2>3, <3>3 DEF Paid
  <2> QED
    BY <2>1, <2>2, <2>3

\* What holds of the new connection holds after the step.
<1>OwnedGrows.
  ASSUME Grown, Owned(conn')
  PROVE  Owned(conn)'
  <2> USE <1>OwnedGrows
  <2>1. \A i \in DOMAIN conn'.queued : Paid(conn'.queued[i])
    BY DEF Owned
  <2>2. \A x : Paid(x) => Paid(x)'
    BY <1>SetsShrink
  <2>3. \A i \in DOMAIN conn'.queued : Paid(conn.queued[i])'
    BY <2>1, <2>2, Zenon DEF Paid
  <2> QED
    BY <2>3 DEF Owned

\* The same of the responses.
<1>AnswersGrow.
  ASSUME Grown, Answers(conn')
  PROVE  Answers(conn)'
  <2> USE <1>AnswersGrow
  <2>1. /\ \A i \in DOMAIN conn'.pending : conn'.pending[i] \notin Wrong'
        /\ \A i \in DOMAIN conn'.strand : conn'.strand[i] \notin Bad'
    BY <1>SetsShrink, Zenon DEF Answers, Zero
  <2> QED
    BY <2>1 DEF Answers, Zero

\* The responses received stay right.
<1>LoggedGrows.
  ASSUME Grown, Logged, log' = log
  PROVE  Logged'
  <2> USE <1>LoggedGrows
  <2>1. \A i \in DOMAIN log : Right(log[i].n, log[i].status)'
    BY <1>RightGrows, Zenon DEF Logged
  <2> QED
    BY <2>1 DEF Logged, Right

\* The place in the stream, when the client does nothing.
<1>StreamStays.
  ASSUME Stream(conn'), UNCHANGED <<asked, owes, wire>>
  PROVE  Stream(conn)'
  BY <1>StreamStays DEF Stream, Free, Midway, InBody, AtHead, Rest

\* The callbacks of the strand.
<1>StrandFine.
  ASSUME IInv, FInv, RunStartRead \/ RunWriteHelper \/ RunReadDone \/ RunWritten \/ RunTimeout
  PROVE  FInv'
  <2> USE <1>StrandFine
  <2> DEFINE h == Head(conn.strand)
             p == Popped
  <2>1. conn.strand # <<>> /\ UNCHANGED <<asked, owes, wire, gone, log, errors>>
    BY DEF RunStartRead, RunWriteHelper, RunReadDone, RunWritten, RunTimeout, Run, client
  <2>2. Good(conn) /\ Lone(conn) /\ Fine(conn) /\ Logged /\ ClientOK /\ Bounded(conn.buffer)
    BY TypeParts DEF IInv, FInv
  <2>3. Grown
    BY <2>1, <2>2, SMT, SMTT(20) DEF Grown, ClientOK
  <2>4. /\ p \in Conns /\ h \in Handlers /\ h \notin Bad /\ Owned(p) /\ Answers(p)
        /\ h \in Toks => /\ h \in BodyToks => InBody(p)
                         /\ h \notin BodyToks => AtHead(p)
        /\ h \notin Toks => Stream(p)
        /\ p.buffer = conn.buffer
    BY <2>1, <2>2, PopFine, Zenon
  <2>5. /\ Good(p) /\ GoodTok(h, conn.buffer)
        /\ h \in Toks => Free(p)
        /\ h \in Marks => Owed(p) /\ p.pending # <<>>
    BY <2>1, <2>2, PoppedKeeps, Zenon
  <2>6. /\ owes \in Nat /\ wire \in Seq(Units) /\ asked \in Seq(Kinds) /\ errors \in Nat
        /\ Bounded(p.buffer)
    BY <2>2, <2>4, ConnectionAssumption, SMT, SMTT(20) DEF ClientOK
  <2> HIDE DEF h, p
  <2>7. Fine(conn')
    <3>1. CASE RunStartRead
      <4>1. h.op = "start_read" /\ conn' = Read(p, h.of, h.need)
        BY <3>1 DEF RunStartRead, Run, h, p
      <4>2. h.of \in {"head", "body"} /\ h.need \in 0..Length /\ h \in Toks
        BY <2>4, <4>1, HandlerParts, Zenon
      <4>3. h \in BodyToks <=> h.of = "body"
        BY <2>4, <4>1, BodyTokParts, Zenon
      <4> QED
        BY <2>4, <2>5, <4>1, <4>2, <4>3, <1>ReadFine, Zenon
    <3>2. CASE RunWriteHelper
      <4>1. h.op = "write_helper" /\ conn' = WriteHelper(p, h.resp)
        BY <3>2, Zenon DEF RunWriteHelper, Run, h, p
      <4>2. h.resp \in Resps /\ (h \in Toks <=> h.resp.then = "read")
        BY <2>4, <4>1, HandlerParts, Zenon
      <4>3. h \notin BodyToks /\ h.resp \notin Wrong
        BY <2>4, <4>1, BodyTokParts, BadParts, Zenon
      <4> QED
        BY <2>4, <2>5, <4>1, <4>2, <4>3, <1>WriteHelperFine
    <3>3. CASE RunReadDone
      <4>1. h.op = "read" /\ conn' = ReadDone(p, h.of, h.result)
        BY <3>3, Zenon DEF RunReadDone, Run, h, p
      <4>2. h.of \in {"head", "body"} /\ h.result \in Results /\ h \in Toks
        BY <2>4, <4>1, HandlerParts, Zenon
      <4>3. h \in BodyToks <=> h.of = "body"
        BY <2>4, <4>1, BodyTokParts, Zenon
      <4>4. /\ h.result = "ok" /\ h.of = "head" => HasHead(p.buffer)
            /\ h.result = "ok" /\ h.of = "body" => Len(p.buffer) >= Length
        BY <2>4, <2>5, <4>1, Zenon DEF GoodTok
      <4>5. ReadEnds(p, h.of, h.result, ReadDone(p, h.of, h.result))
        BY <2>4, <2>5, <2>6, <4>2, <4>3, <4>4, ReadDoneOutcome, Zenon
      <4> QED
        BY <2>4, <4>1, <4>5, <1>ReadEndsFine, Zenon
    <3>4. CASE RunWritten
      <4>1. h.op = "written" /\ conn' = Written(p, h.result)
        BY <3>4 DEF RunWritten, Run, h, p
      <4>2. h.result \in Results /\ h \notin Toks /\ h \in Marks
        BY <2>4, <4>1, HandlerParts
      <4>3. h.result = "failed" => errors > 0 \/ gone
        <5>1. ~(h.result = "failed" /\ errors = 0 /\ ~gone)
          BY <2>4, <4>1, BadParts
        <5> QED
          BY <2>6, <5>1, SMT, SMTT(20)
      <4>4. Fine(p)
        BY <2>4, <4>2 DEF Fine
      <4> QED
        BY <2>5, <4>1, <4>2, <4>3, <4>4, <1>WrittenFine, Zenon
    <3>5. CASE RunTimeout
      <4>1. h.op = "timeout" /\ conn' = TimeoutHandler(p)
        BY <3>5, Zenon DEF RunTimeout, Run, h, p
      <4>2. h \notin Toks
        BY <2>4, <4>1, HandlerParts, Zenon
      <4>3. Fine(p)
        BY <2>4, <4>2, Zenon DEF Fine
      <4> QED
        BY <2>4, <4>1, <4>3, <1>TimeoutFine
    <3> QED
      BY <3>1, <3>2, <3>3, <3>4, <3>5
  <2>8. Owned(conn)' /\ Answers(conn)' /\ Stream(conn)' /\ Logged'
    BY <2>1, <2>2, <2>3, <2>7, <1>OwnedGrows, <1>AnswersGrow, <1>StreamStays,
       <1>LoggedGrows DEF Fine
  <2> QED
    BY <2>8 DEF FInv, Fine

\* A handler is added that is not bad after the step.
<1>AnswersAdd.
  ASSUME Grown, Answers(conn), conn.strand \in Seq(Handlers), conn'.pending = conn.pending,
         NEW h \in Handlers, ~(h \in Bad'),
         conn'.strand = conn.strand \/ conn'.strand = Append(conn.strand, h)
  PROVE  Answers(conn)'
  <2> USE <1>AnswersAdd
  <2>1. \A i \in DOMAIN conn'.strand :
          \/ i \in DOMAIN conn.strand /\ conn'.strand[i] = conn.strand[i]
          \/ conn'.strand[i] = h
    BY SMT, SMTT(20)
  <2>2. \A i \in DOMAIN conn'.strand : conn'.strand[i] \notin Bad'
    BY <2>1, <1>SetsShrink DEF Answers, Zero
  <2>3. \A i \in DOMAIN conn'.pending : conn'.pending[i] \notin Wrong'
    BY <1>SetsShrink DEF Answers, Zero
  <2> QED
    BY <2>2, <2>3 DEF Answers, Zero

\* The completion of a read leaves the stream where it was.
<1>ReadEventFine.
  ASSUME IInv, FInv, NEW h, ReadEvent(h)
  PROVE  FInv'
  <2> USE <1>ReadEventFine
  <2>1. /\ conn \in Conns /\ AtMost(conn) /\ conn.strand \in Seq(Handlers) /\ ClientOK
        /\ conn.reading \in {"none", "head", "body"}
        /\ Stream(conn) /\ Owned(conn) /\ Answers(conn) /\ Logged
    BY TypeParts DEF IInv, Good, FInv, Fine, Conns
  <2>2. /\ h \in Handlers /\ h.op = "read" /\ h.of = conn.reading /\ conn.reading # "none"
        /\ conn'.strand = Append(conn.strand, h) /\ conn'.reading = "none"
        /\ conn'.pending = conn.pending /\ conn'.cur = conn.cur /\ conn'.queued = conn.queued
        /\ conn'.buffer \o wire' = conn.buffer \o wire
        /\ UNCHANGED <<asked, owes, gone, log, errors>>
    BY DEF ReadEvent, Still
  <2>3. Grown
    BY <2>1, <2>2, SMT, SMTT(20) DEF Grown, ClientOK
  <2>4. Answers(conn)'
    <3>1. ~(h \in Bad')
      BY <2>2 DEF Bad
    <3> QED
      BY <2>1, <2>2, <2>3, <3>1, <1>AnswersAdd
  <2>5. Owned(conn)' /\ Logged'
    BY <2>1, <2>2, <2>3, SameParts, <1>OwnedGrows, <1>LoggedGrows, Zenon
  <2>6. Zero(conn.strand, Toks) /\ ~Free(conn)
    BY <2>1, <2>2 DEF AtMost, Free
  <2>7. Zero(conn.strand, BodyToks)
    BY <2>1, <2>6, BodyTokParts, SMT, SMTT(20) DEF Zero
  <2>8. h \in BodyToks <=> conn.reading = "body"
    BY <2>2, BodyTokParts
  <2>9. Midway(conn) <=> conn.reading = "body"
    BY <2>7, Zenon DEF Midway
  <2>10. Midway(conn') <=> conn.reading = "body"
    <3>1. h \notin BodyToks => Zero(conn'.strand, BodyToks)
      BY <2>1, <2>2, <2>7, CountAppend, Zenon
    <3>2. Len(conn.strand) + 1 \in DOMAIN conn'.strand /\ conn'.strand[Len(conn.strand) + 1] = h
      BY <2>1, <2>2, SMT, SMTT(20)
    <3>3. h \in BodyToks => ~Zero(conn'.strand, BodyToks)
      BY <3>2 DEF Zero
    <3> QED
      BY <2>2, <2>8, <3>1, <3>3, Zenon DEF Midway
  <2>11. Rest(conn)' = Rest(conn)
    BY <2>2, Zenon DEF Rest
  <2>12. (InBody(conn) => InBody(conn)') /\ (AtHead(conn) => AtHead(conn)')
    BY <2>2, <2>11 DEF InBody, AtHead
  <2>13. Midway(conn') <=> Midway(conn)'
    BY DEF Midway
  <2>14. Stream(conn)'
    BY <2>1, <2>6, <2>9, <2>10, <2>12, <2>13 DEF Stream
  <2> QED
    BY <2>4, <2>5, <2>14, Zenon DEF FInv, Fine

\* The completion of a write, or the timer.
<1>OtherEventFine.
  ASSUME IInv, FInv, NEW h, WriteEvent(h) \/ ExpireEvent(h)
  PROVE  FInv'
  <2> USE <1>OtherEventFine
  <2>1. /\ conn \in Conns /\ Lone(conn) /\ conn.strand \in Seq(Handlers) /\ ClientOK
        /\ conn.pending \in Seq(Resps)
        /\ Stream(conn) /\ Owned(conn) /\ Answers(conn) /\ Logged
    BY TypeParts DEF IInv, Good, FInv, Fine, Conns
  <2>2. /\ h \in Handlers /\ h.op \in {"written", "timeout"}
        /\ conn'.strand = conn.strand \/ conn'.strand = Append(conn.strand, h)
        /\ conn'.reading = conn.reading /\ conn'.pending = conn.pending
        /\ conn'.cur = conn.cur /\ conn'.queued = conn.queued /\ conn'.buffer = conn.buffer
        /\ UNCHANGED <<asked, owes, wire, gone>>
    BY Zenon DEF WriteEvent, ExpireEvent, Still, client
  <2>3. errors \in Nat /\ errors' \in Nat /\ errors <= errors'
    BY <2>1, ConnectionAssumption, SMT, SMTT(20) DEF WriteEvent, ExpireEvent, ClientOK
  <2>4. Grown
    BY <2>1, <2>2, <2>3, SMT, SMTT(20) DEF Grown, ClientOK
  <2>5. h \notin Toks /\ ~(h \in Bad')
    <3>1. h \notin Toks
      BY <2>2, HandlerParts, Zenon
    <3>2. h.op = "written" /\ h.result = "failed" => gone' \/ errors' > 0
      BY <2>2 DEF WriteEvent, ExpireEvent
    <3> QED
      BY <2>2, <2>3, <3>1, <3>2, SMT, SMTT(20) DEF Bad
  <2>6. Answers(conn)'
    BY <2>1, <2>2, <2>4, <2>5, <1>AnswersAdd, Zenon
  <2>7. Moves(conn, conn')
    BY <2>1, <2>2, <2>5, <1>OtherMoves
  <2>8. Stream(conn)' /\ Owned(conn)'
    BY <2>1, <2>2, <2>4, <2>7, MovesStream, <1>StreamStays, <1>OwnedGrows
  <2>9. Logged'
    <3>1. CASE log' = log
      BY <2>1, <2>4, <3>1, <1>LoggedGrows
    <3>2. CASE log' # log
      <4> DEFINE S == [n : 0..MaxRequests, status : Statuses]
                 x == [n |-> conn.pending[1].n, status |-> conn.pending[1].status]
      <4>1. conn.writing /\ log' = Append(log, x)
        BY <3>2, Zenon DEF WriteEvent, ExpireEvent
      <4>2. conn.pending # <<>>
        BY <2>1, <4>1 DEF Lone
      <4>3. 1 \in DOMAIN conn.pending /\ conn.pending[1] \in Resps
        BY <2>1, <4>2, SMT, SMTT(20)
      <4>4. Right(conn.pending[1].n, conn.pending[1].status)
        BY <2>1, <4>3, Zenon DEF Answers, Zero, Wrong
      <4>5. x \in S /\ Right(x.n, x.status)
        BY <4>3, <4>4, SMT, SMTT(20) DEF Resps, Statuses
      <4>6. log \in Seq(S)
        BY <2>1 DEF ClientOK
      <4> HIDE DEF x, S
      <4>7. \A i \in DOMAIN log' : (i \in DOMAIN log /\ log'[i] = log[i]) \/ log'[i] = x
        BY <4>1, <4>5, <4>6, SMT, SMTT(20)
      <4>8. \A i \in DOMAIN log' : Right(log'[i].n, log'[i].status)
        BY <2>1, <4>5, <4>7 DEF Logged
      <4>9. ASSUME NEW i \in DOMAIN log'
            PROVE  Right(log[i].n, log[i].status)'
        <5>1. \A n, status : Right(n, status) => Right(n, status)'
          BY <2>4, <1>RightGrows
        <5>2. PICK y : y = log'[i]
          OBVIOUS
        <5>3. Right(y.n, y.status)'
          BY <4>8, <5>1, <5>2
        <5> QED
          BY <5>2, <5>3
      <4> QED
        BY <4>9, Zenon DEF Logged
    <3> QED
      BY <3>1, <3>2
  <2> QED
    BY <2>6, <2>8, <2>9, Zenon DEF FInv, Fine

\* The session is destroyed.
<1>DestroyFine.
  ASSUME IInv, FInv, Destroy
  PROVE  FInv'
  <2> USE <1>DestroyFine
  <2>1. conn \in Conns /\ ClientOK /\ Stream(conn) /\ Owned(conn) /\ Answers(conn) /\ Logged
    BY TypeParts DEF IInv, FInv, Fine
  <2>2. /\ conn'.strand = conn.strand /\ conn'.reading = conn.reading
        /\ conn'.pending = conn.pending /\ conn'.cur = conn.cur
        /\ conn'.queued = conn.queued /\ conn'.buffer = conn.buffer
        /\ UNCHANGED <<asked, owes, wire, gone, log, errors>>
    BY <2>1 DEF Destroy, Conns, client
  <2>3. Grown
    BY <2>1, <2>2, SMT, SMTT(20) DEF Grown, ClientOK
  <2>4. Moves(conn, conn') /\ Answers(conn')
    BY <2>1, <2>2 DEF Moves, Free, Midway, Answers
  <2>5. Stream(conn') /\ Owned(conn')
    BY <2>1, <2>4, MovesStream, Zenon
  <2>6. Stream(conn)' /\ Owned(conn)' /\ Answers(conn)' /\ Logged'
    BY <2>1, <2>2, <2>3, <2>4, <2>5, <1>StreamStays, <1>OwnedGrows, <1>AnswersGrow, <1>LoggedGrows
  <2> QED
    BY <2>6 DEF FInv, Fine

\* One unit more is on the wire.
<1>RestGrows.
  ASSUME NEW b \in Seq(Units), NEW w \in Seq(Units), NEW x \in Units
  PROVE  LET u == b \o w
             v == b \o Append(w, x)
         IN  List(u) /\ List(v) /\ Grows(u, v, x)
  <2> USE <1>RestGrows
  <2> DEFINE u == b \o w
             v == b \o Append(w, x)
  <2>1. v = Append(u, x) /\ u \in Seq(Units)
    <3>1. Append(w, x) = w \o <<x>> /\ Append(u, x) = u \o <<x>> /\ u \in Seq(Units)
      BY ConcatOne, SMT, SMTT(20)
    <3>2. <<x>> \in Seq(Units)
      BY SMT, SMTT(20)
    <3>3. b \o (w \o <<x>>) = (b \o w) \o <<x>>
      BY <3>2, SMT, SMTT(20)
    <3> QED
      BY <3>1, <3>3
  <2> HIDE DEF u, v
  <2>2. v \in Seq(Units) /\ Len(v) = Len(u) + 1 /\ v[Len(u) + 1] = x
        /\ \A j \in 1..Len(u) : v[j] = u[j]
    BY <2>1, SMT, SMTT(20)
  <2> QED
    BY <2>1, <2>2, SMT, SMTT(20) DEF List, Grows, u, v

\* What the client sends is the next unit of the stream.
<1>SendChain.
  ASSUME IInv, NEW m \in Nat, NEW r \in Nat, Chain(asked, owes, Rest(conn), m, r),
         (\E kind \in Kinds : Send(kind)) \/ SendBody
  PROVE  Chain(asked, owes, Rest(conn), m, r)'
  <2> USE <1>SendChain
  <2>1. /\ ClientOK /\ conn.buffer \in Seq(Units) /\ Bounded(conn.buffer) /\ Bounded(wire)
        /\ Len(asked) <= MaxRequests /\ (owes > 0 => asked # <<>>)
    BY TypeParts DEF IInv, Conns, Sent
  <2>2. /\ wire \in Seq(Units) /\ asked \in Seq(Kinds) /\ owes \in Nat /\ Len(asked) \in Nat
    BY <2>1, ConnectionAssumption, SMT, SMTT(20) DEF ClientOK
  <2> DEFINE b == conn.buffer
             u == b \o wire
  <2>3. Rest(conn) = u
    BY DEF Rest
  <2>4. ASSUME NEW kind \in Kinds, Send(kind)
        PROVE  Chain(asked, owes, Rest(conn), m, r)'
    <3> DEFINE x == HeadOf(Len(asked) + 1)
               v == b \o Append(wire, x)
    <3>1. /\ owes = 0 /\ Len(asked) < MaxRequests /\ conn' = conn
          /\ asked' = Append(asked, kind) /\ owes' = BodyLength(kind) /\ wire' = Append(wire, x)
      BY <2>4 DEF Send
    <3>2. x \in Units
      BY <2>2, <3>1, ConnectionAssumption, SMT, SMTT(20) DEF HeadOf, Units
    <3>3. Rest(conn)' = v
      BY <3>1 DEF Rest
    <3>4. \A i \in 1..Len(u) : u[i].n \in 1..Len(asked)
      <4>1. u \in Seq(Units) /\ Bounded(u)
        BY <2>1, <2>2, ConcatUnits
      <4> HIDE DEF u
      <4>2. \A i \in 1..Len(u) : u[i] \in Units /\ u[i].n <= Len(asked)
        BY <4>1, SMT, SMTT(20) DEF Bounded
      <4> QED
        BY <2>2, <4>2, SMT, SMTT(20) DEF Units
    <3>5. List(u) /\ List(v) /\ Grows(u, v, x)
      BY <2>1, <2>2, <3>2, <1>RestGrows
    <3> HIDE DEF u, v
    <3>6. Chain(asked, 0, u, m, r)
      BY <2>3, <3>1, Zenon
    <3>7. Chain(Append(asked, kind), BodyLength(kind), v, m, r)
      BY <2>2, <3>4, <3>5, <3>6, <1>ChainSend DEF x
    <3> QED
      BY <3>1, <3>3, <3>7
  <2>5. CASE SendBody
    <3> DEFINE x == BodyOf(Len(asked))
               v == b \o Append(wire, x)
    <3>1. /\ owes > 0 /\ conn' = conn /\ asked' = asked
          /\ owes' = owes - 1 /\ wire' = Append(wire, x)
      BY <2>5, Zenon DEF SendBody
    <3>2. x \in Units
      BY <2>1, <2>2, <3>1, ConnectionAssumption, SMT, SMTT(20) DEF BodyOf, Units
    <3>3. Rest(conn)' = v
      BY <3>1 DEF Rest
    <3>4. List(u) /\ List(v) /\ Grows(u, v, x)
      BY <2>1, <2>2, <3>2, <1>RestGrows
    <3> HIDE DEF u, v
    <3>5. Chain(asked, owes, u, m, r)
      BY <2>3
    <3>6. Chain(asked, owes - 1, v, m, r)
      BY <2>2, <3>1, <3>4, <3>5, <1>ChainSendBody DEF x
    <3> QED
      BY <3>1, <3>3, <3>6, Zenon
  <2> QED
    BY <2>4, <2>5

\* The client sends, or leaves.
<1>ClientFine.
  ASSUME IInv, FInv, (\E kind \in Kinds : Send(kind)) \/ SendBody \/ Leave
  PROVE  FInv'
  <2> USE <1>ClientFine
  <2>1. /\ conn \in Conns /\ ClientOK /\ Stream(conn) /\ Owned(conn) /\ Answers(conn) /\ Logged
        /\ conn.cur \in Nat /\ Length \in Nat
    BY TypeParts, ConnectionAssumption, SMT, SMTT(20) DEF IInv, FInv, Fine, Conns
  <2>2. conn' = conn /\ log' = log /\ errors' = errors /\ (gone => gone')
    BY DEF Send, SendBody, Leave
  <2>3. /\ asked' \in Seq(Kinds) /\ Len(asked) \in Nat /\ Len(asked') \in Nat
        /\ Len(asked) <= Len(asked') /\ \A n \in 1..Len(asked) : asked'[n] = asked[n]
    <3>1. asked' = asked \/ \E kind \in Kinds : asked' = Append(asked, kind)
      BY DEF Send, SendBody, Leave
    <3>2. asked \in Seq(Kinds)
      BY <2>1, Zenon DEF ClientOK
    <3> QED
      BY <3>1, <3>2, SMT, SMTT(20)
  <2>4. Grown
    BY <2>1, <2>2, <2>3, SMT, SMTT(20) DEF Grown, ClientOK
  <2>5. Owned(conn)' /\ Answers(conn)' /\ Logged'
    <3>1. Owned(conn') /\ Answers(conn')
      BY <2>1, <2>2
    <3> QED
      BY <2>1, <2>2, <2>4, <3>1, <1>OwnedGrows, <1>AnswersGrow, <1>LoggedGrows
  <2>6. Stream(conn)'
    <3>1. CASE Leave
      <4>1. UNCHANGED <<asked, owes, wire>> /\ Stream(conn')
        BY <2>1, <2>2, <3>1 DEF Leave
      <4> QED
        BY <4>1, <1>StreamStays
    <3>2. CASE (\E kind \in Kinds : Send(kind)) \/ SendBody
      <4>1. ASSUME NEW r \in Nat, Chain(asked, owes, Rest(conn), conn.cur, r)
            PROVE  Chain(asked, owes, Rest(conn), conn.cur, r)'
        <5>1. \A m \in Nat : Chain(asked, owes, Rest(conn), m, r)
                               => Chain(asked, owes, Rest(conn), m, r)'
          BY <3>2, <1>SendChain, Zenon
        <5> QED
          BY <2>1, <2>2, <4>1, <5>1
      <4>2. conn.cur \in 1..Len(asked) =>
              conn'.cur \in 1..Len(asked') /\ asked'[conn'.cur] = asked[conn.cur]
        BY <2>2, <2>3, SMT, SMTT(20)
      <4>3. InBody(conn) => InBody(conn)'
        BY <2>1, <2>2, <4>1, <4>2, Zenon DEF InBody
      <4>4. AtHead(conn) => AtHead(conn)'
        BY <2>1, <2>2, <4>1, <4>2, Zenon DEF AtHead
      <4>5. (Free(conn) <=> Free(conn)') /\ (Midway(conn) <=> Midway(conn)')
        BY <2>2 DEF Free, Midway
      <4> QED
        BY <2>1, <4>3, <4>4, <4>5 DEF Stream
    <3> QED
      BY <3>1, <3>2
  <2> QED
    BY <2>5, <2>6, Zenon DEF FInv, Fine

<1> SUFFICES ASSUME IInv, FInv, [Next]_vars
             PROVE  FInv'
  OBVIOUS
<1>1. CASE RunStartRead \/ RunWriteHelper \/ RunReadDone \/ RunWritten \/ RunTimeout
  BY <1>1, <1>StrandFine
<1>2. CASE ReadFails \/ \E k \in 0..Len(wire) : ReadCompletes(k)
  BY <1>2, ReadEvents, <1>ReadEventFine
<1>3. CASE WriteCompletes \/ WriteFails
  BY <1>3, WriteEvents, <1>OtherEventFine
<1>4. CASE Expire
  BY <1>4, ExpireEvents, <1>OtherEventFine
<1>5. CASE Destroy
  BY <1>5, <1>DestroyFine
<1>6. CASE (\E kind \in Kinds : Send(kind)) \/ SendBody \/ Leave
  BY <1>6, <1>ClientFine
<1>7. CASE UNCHANGED vars
  <2>1. UNCHANGED <<asked, owes, wire, gone, log, errors, conn>>
    BY <1>7 DEF vars, client
  <2>2. ClientOK
    BY TypeParts DEF IInv
  <2>3. Grown
    BY <2>1, <2>2, SMT, SMTT(20) DEF Grown, ClientOK
  <2>4. Stream(conn') /\ Owned(conn') /\ Answers(conn') /\ Logged
    BY <2>1 DEF FInv, Fine
  <2> QED
    BY <2>1, <2>3, <2>4, <1>StreamStays, <1>OwnedGrows, <1>AnswersGrow,
       <1>LoggedGrows DEF FInv, Fine
<1> QED
  BY <1>1, <1>2, <1>3, <1>4, <1>5, <1>6, <1>7 DEF Next

\* Therefore it always holds.
LEMMA FineInvariance == Spec => [](IInv /\ FInv)
<1>1. Init => IInv /\ FInv
  BY InitInv, InitFine
<1>2. (IInv /\ FInv) /\ [Next]_vars => (IInv /\ FInv)'
  BY StepInv, StepFine
<1> QED
  BY <1>1, <1>2, PTL DEF Spec

\* The callback of post_payment_handler, called by fetch_body once the buffer
\* holds Content-Length units, enqueues exactly the body that came with that
\* payment's head, and no payment twice: whatever the reads took beyond a
\* request, and whatever a handler left in the buffer.
THEOREM PaymentsHaveTheirBody == Spec => []OwnBody
<1>1. FInv => OwnBody
  BY Zenon DEF FInv, Fine, Owned, Paid, OwnBody
<1> QED
  BY <1>1, FineInvariance, PTL

\* What the client receives for a request is the status that its handler, the
\* router or the parser gives to a request of its kind.  A 400 comes besides only
\* after a body that the handler of /purge-payments left in the buffer, a 500
\* only after a failed write.
THEOREM AnswersAreRight == Spec => []RightAnswer
<1>1. FInv => RightAnswer
  BY DEF FInv, Logged, Right, RightAnswer
<1> QED
  BY <1>1, FineInvariance, PTL

(***************************************************************************)
(* A connection on which no write failed, whose client is there: what it   *)
(* does is one thing at a time.                                            *)
(***************************************************************************)

\* Handlers that are not the timer's, and the only one of them in a strand.
Work == {h \in Handlers : h.op # "timeout"}
Sole(s, h) == \E i \in DOMAIN s : s[i] = h /\ \A j \in DOMAIN s : s[j] \in Work => j = i

\* The timer closed the socket; it did, or the socket is open.
Late(c) == c.ended \in {"stalled", "raced"}
Kept(c) == c.fd \/ Late(c)

\* The requests before the one that is read, or whose body is, are answered.
Turn(c, of) == c.cur = IF of = "body" THEN Len(log) + 1 ELSE Len(log)

\* Payments that were enqueued are answered, but those in but.
InLog(n) == \E j \in DOMAIN log : log[j] = [n |-> n, status |-> 202]
Settled(c, but) ==
  \A i \in DOMAIN c.queued : c.queued[i].n \in but \/ InLog(c.queued[i].n) \/ Late(c)

\* A response to the request that is handled: to be sent, or sent.
Fit(c, r) == r.n = c.cur /\ r.n \in 1..Len(asked) /\ Ends(r)
Due(c, r) ==
  /\ Fit(c, r) /\ c.cur = Len(log) + 1
  /\ \A i \in DOMAIN c.queued : c.queued[i].n = r.n => r.status = 202
Done(c, r) ==
  /\ Fit(c, r) /\ c.cur = Len(log) /\ log # <<>>
  /\ log[Len(log)].n = r.n /\ log[Len(log)].status = r.status

\* Why the socket is closed.
Explained(c) ==
  \/ Late(c)
  \/ /\ log # <<>> /\ log[Len(log)].n \in 1..Len(asked)
     /\ Closing(asked[log[Len(log)].n]) \/ log[Len(log)].status = 400

\* The timer runs, or its handler will find that it expired.
Ticks(s) == \E i \in DOMAIN s : s[i].op = "timeout"
Guarded(c) == c.timer \/ (c.expired /\ Ticks(c.strand))

\* Nothing more happens; a read is under way; a write is; a handler will run.
Rests(c) ==
  /\ c.reading = "none" /\ ~c.writing /\ c.pending = <<>> /\ Zero(c.strand, Work)
  /\ ~c.fd /\ Explained(c) /\ Settled(c, {})
Reads(c) ==
  /\ c.reading # "none" /\ ~c.writing /\ c.pending = <<>> /\ Zero(c.strand, Work)
  /\ Kept(c) /\ Guarded(c) /\ Turn(c, c.reading) /\ Settled(c, {})
Writes(c) ==
  /\ c.reading = "none" /\ c.writing /\ Len(c.pending) = 1 /\ Zero(c.strand, Work)
  /\ c.fd /\ Guarded(c) /\ Due(c, c.pending[1]) /\ Settled(c, {c.cur})
Calls(c, h) ==
  \/ /\ h.op \in {"start_read", "read"} /\ c.pending = <<>>
     /\ Kept(c) /\ Turn(c, h.of) /\ Settled(c, {})
     /\ h.op = "read" /\ h.result # "ok" => ~c.fd
  \/ /\ h.op = "write_helper" /\ c.pending = <<>>
     /\ Kept(c) /\ Due(c, h.resp) /\ Settled(c, {c.cur})
  \/ /\ h.op = "written" /\ h.result = "ok" /\ Len(c.pending) = 1
     /\ Kept(c) /\ Done(c, c.pending[1]) /\ Settled(c, {})
  \/ /\ h.op = "written" /\ h.result = "aborted" /\ Len(c.pending) = 1
     /\ ~c.fd /\ Late(c)
Runs(c, h) == c.reading = "none" /\ ~c.writing /\ Sole(c.strand, h) /\ Calls(c, h)

\* One of these.
Calm(c) ==
  /\ c.open = c.fd /\ (c.fd => c.ended = "no")
  /\ Rests(c) \/ Reads(c) \/ Writes(c) \/ \E h \in Work : Runs(c, h)

\* The responses so far are in order, and the connection is calm: the invariant.
CInv == InOrder /\ (errors = 0 /\ ~gone => Calm(conn))

\* What happens to the only handler of a strand.
LEMMA SoleCount ==
  ASSUME NEW s \in Seq(Handlers), NEW h \in Handlers
  PROVE  /\ Zero(s, Work) /\ h \in Work => Sole(Append(s, h), h)
         /\ \A g : Sole(s, g) /\ h \notin Work => Sole(Append(s, h), g)
         /\ \A g \in Work : Sole(s, g) => ~Zero(s, Work) /\ s # <<>>
<1> DEFINE t == Append(s, h)
<1>1. /\ \A i \in DOMAIN s : i \in DOMAIN t /\ t[i] = s[i]
      /\ Len(s) + 1 \in DOMAIN t /\ t[Len(s) + 1] = h
      /\ \A i \in DOMAIN t : i \in DOMAIN s \/ i = Len(s) + 1
  BY SMT, SMTT(20)
<1> HIDE DEF t
<1>2. Zero(s, Work) /\ h \in Work => Sole(t, h)
  BY <1>1, Zenon DEF Zero, Sole
<1>3. ASSUME NEW g, Sole(s, g), h \notin Work
      PROVE  Sole(t, g)
  <2>1. PICK i \in DOMAIN s : s[i] = g /\ \A j \in DOMAIN s : s[j] \in Work => j = i
    BY <1>3, Zenon DEF Sole
  <2>2. i \in DOMAIN t /\ t[i] = g /\ \A j \in DOMAIN t : t[j] \in Work => j = i
    BY <1>1, <1>3, <2>1
  <2> QED
    BY <2>2 DEF Sole
<1>4. ASSUME NEW g \in Work, Sole(s, g)
      PROVE  ~Zero(s, Work) /\ s # <<>>
  BY <1>4, SMT, SMTT(20) DEF Zero, Sole
<1> QED
  BY <1>2, <1>3, <1>4, Zenon DEF t

\* The first handler is the only one, or the only one stays.
LEMMA SolePop ==
  ASSUME NEW s \in Seq(Handlers), s # <<>>, NEW g \in Work, Sole(s, g)
  PROVE  /\ Head(s) \in Work => Head(s) = g /\ Zero(Tail(s), Work)
         /\ Head(s) \notin Work => Sole(Tail(s), g)
<1>1. Head(s) = s[1] /\ 1 \in DOMAIN s
  BY SMT, SMTT(20)
<1>2. /\ \A i \in DOMAIN Tail(s) : i + 1 \in DOMAIN s /\ Tail(s)[i] = s[i + 1] /\ i + 1 # 1
      /\ \A i \in DOMAIN s : i # 1 => i - 1 \in DOMAIN Tail(s) /\ Tail(s)[i - 1] = s[i]
  BY SMT, SMTT(20)
<1>3. PICK i \in DOMAIN s : s[i] = g /\ \A j \in DOMAIN s : s[j] \in Work => j = i
  BY DEF Sole
<1>4. CASE Head(s) \in Work
  <2>1. i = 1
    BY <1>1, <1>3, <1>4, Zenon
  <2>2. Zero(Tail(s), Work)
    BY <1>2, <1>3, <2>1, Zenon DEF Zero
  <2> QED
    BY <1>1, <1>3, <1>4, <2>1, <2>2
<1>5. CASE Head(s) \notin Work
  <2>1. i # 1
    BY <1>1, <1>3, <1>5
  <2>2. i - 1 \in DOMAIN Tail(s) /\ Tail(s)[i - 1] = g
    BY <1>2, <1>3, <2>1
  <2>3. ASSUME NEW j \in DOMAIN Tail(s), Tail(s)[j] \in Work
        PROVE  j = i - 1
    <3>1. j + 1 \in DOMAIN s /\ s[j + 1] \in Work
      BY <1>2, <2>3
    <3>2. j + 1 = i /\ j \in Int
      BY <1>3, <3>1, SMT, SMTT(20)
    <3> QED
      BY <3>2, SMT, SMTT(20)
  <2> QED
    BY <1>5, <2>2, <2>3 DEF Sole
<1> QED
  BY <1>4, <1>5

\* What depends on the members that Still names only.
LEMMA StillParts ==
  ASSUME NEW c, NEW d, d.fd = c.fd, d.ended = c.ended, d.cur = c.cur, d.queued = c.queued
  PROVE  /\ Late(c) <=> Late(d)
         /\ Kept(c) <=> Kept(d)
         /\ Explained(c) <=> Explained(d)
         /\ \A of : Turn(c, of) => Turn(d, of)
         /\ \A but : Settled(c, but) => Settled(d, but)
         /\ \A r : (Due(c, r) => Due(d, r)) /\ (Done(c, r) => Done(d, r))
<1>1. Late(c) <=> Late(d)
  BY DEF Late
<1>2. Kept(c) <=> Kept(d)
  BY <1>1, Zenon DEF Kept
<1>3. Explained(c) <=> Explained(d)
  BY <1>1 DEF Explained
<1>4. \A of : Turn(c, of) => Turn(d, of)
  BY DEF Turn
<1>5. ASSUME NEW but, Settled(c, but)
      PROVE  Settled(d, but)
  BY <1>1, <1>5, Zenon DEF Settled
<1>6. ASSUME NEW r
      PROVE  (Due(c, r) => Due(d, r)) /\ (Done(c, r) => Done(d, r))
  <2>1. Fit(c, r) => Fit(d, r)
    BY DEF Fit
  <2> QED
    BY <2>1 DEF Due, Done
<1> QED
  BY <1>1, <1>2, <1>3, <1>4, <1>5, <1>6

\* The same of what a handler relies on.
LEMMA CallsStill ==
  ASSUME NEW c, NEW d, Still(c, d), NEW h, Calls(c, h)
  PROVE  Calls(d, h)
<1>1. /\ d.pending = c.pending /\ d.fd = c.fd /\ d.ended = c.ended
      /\ d.cur = c.cur /\ d.queued = c.queued
  BY Zenon DEF Still
<1>2. /\ Late(c) <=> Late(d)
      /\ Kept(c) <=> Kept(d)
      /\ \A of : Turn(c, of) => Turn(d, of)
      /\ \A but : Settled(c, but) => Settled(d, but)
      /\ \A r : (Due(c, r) => Due(d, r)) /\ (Done(c, r) => Done(d, r))
  BY <1>1, StillParts, Zenon
<1> QED
  BY <1>1, <1>2, Zenon DEF Calls

\* Work under way, taken from the strand.
Ready(c, h) ==
  /\ c.open = c.fd /\ (c.fd => c.ended = "no")
  /\ c.reading = "none" /\ ~c.writing /\ Zero(c.strand, Work) /\ Calls(c, h)

\* The strand gives away its first handler.
LEMMA PopCalm ==
  ASSUME conn \in Conns, Calm(conn), conn.strand # <<>>,
         NEW p \in Conns, Still(conn, p), p.strand = Tail(conn.strand),
         p.reading = conn.reading, p.writing = conn.writing,
         NEW h, h = Head(conn.strand)
  PROVE  /\ h \in Work => Ready(p, h)
         /\ h \notin Work =>
              /\ Zero(conn.strand, Work) => Zero(p.strand, Work)
              /\ \A g \in Work : Runs(conn, g) => Runs(p, g)
<1>1. conn.strand \in Seq(Handlers)
  BY Zenon DEF Conns
<1>2. /\ Zero(conn.strand, Work) => Zero(p.strand, Work) /\ h \notin Work
  BY <1>1, CountTail, SMT, SMTT(20)
<1>3. ASSUME NEW g \in Work, Runs(conn, g)
      PROVE  /\ h \in Work => h = g /\ Ready(p, g)
             /\ h \notin Work => Runs(p, g)
  <2>1. /\ h \in Work => h = g /\ Zero(p.strand, Work)
        /\ h \notin Work => Sole(p.strand, g)
    BY <1>1, <1>3, SolePop, SMT, SMTT(20) DEF Runs
  <2>2. Calls(p, g)
    BY <1>3, CallsStill DEF Runs
  <2> QED
    BY <1>3, <2>1, <2>2, Zenon DEF Runs, Ready, Still, Calm
<1>4. ASSUME h \in Work
      PROVE  \E g \in Work : Runs(conn, g)
  BY <1>2, <1>4, Zenon DEF Calm, Rests, Reads, Writes
<1> QED
  BY <1>2, <1>3, <1>4

\* A connection that the timer closed, with nothing left to do.
LEMMA LateRests ==
  ASSUME NEW c \in Conns, Late(c), ~c.fd, ~c.open, c.reading = "none", ~c.writing, c.pending = <<>>,
         Zero(c.strand, Work)
  PROVE  Calm(c)
<1>1. Explained(c) /\ Settled(c, {})
  BY DEF Explained, Settled
<1>2. c.open = c.fd
  BY Zenon DEF Conns
<1> QED
  BY <1>1, <1>2, Zenon DEF Calm, Rests

\* read().
LEMMA ReadCalm ==
  ASSUME NEW c \in Conns, NEW h \in Handlers, Ready(c, h), h.op = "start_read",
         NEW d, d.strand = c.strand, d.reading = h.of, d.timer,
         d.pending = c.pending, d.writing = c.writing, d.open = c.open, d.fd = c.fd,
         d.ended = c.ended, d.cur = c.cur, d.queued = c.queued
  PROVE  Calm(d)
<1>1. h.of \in {"head", "body"}
  BY HandlerParts
<1>2. c.pending = <<>> /\ Kept(c) /\ Turn(c, h.of) /\ Settled(c, {})
  BY Zenon DEF Ready, Calls
<1>3. Kept(d) /\ Turn(d, d.reading) /\ Settled(d, {})
  BY <1>2, StillParts, Zenon
<1>4. Reads(d)
  BY <1>1, <1>2, <1>3, Zenon DEF Reads, Guarded, Ready
<1> QED
  BY <1>4, Zenon DEF Calm, Ready

\* write_helper().
LEMMA WriteHelperCalm ==
  ASSUME NEW c \in Conns, NEW h \in Handlers, Ready(c, h), h.op = "write_helper"
  PROVE  Calm(WriteHelper(c, h.resp))
<1> DEFINE r == h.resp
           e == [c EXCEPT !.pending = Append(@, r)]
           d == Write(e)
<1>1. r \in Resps
  BY HandlerParts
<1>2. c.pending = <<>> /\ Kept(c) /\ Due(c, r) /\ Settled(c, {c.cur})
  BY Zenon DEF Ready, Calls
<1>3. Append(c.pending, r) = <<r>> /\ <<r>> \in Seq(Resps) /\ Len(<<r>>) = 1 /\ <<r>>[1] = r
  BY <1>1, <1>2, SMT, SMTT(20)
<1>4. /\ e \in Conns /\ e.pending = <<r>> /\ e.strand = c.strand /\ e.open = c.open
      /\ e.reading = c.reading /\ e.cur = c.cur /\ e.queued = c.queued
      /\ e.fd = c.fd /\ e.ended = c.ended /\ e.writing = c.writing
  BY <1>3, Zenon DEF Conns
<1>5. WriteHelper(c, h.resp) = d
  <2>1. Len(e.pending) = 1
    BY <1>3, <1>4
  <2> QED
    BY <2>1 DEF WriteHelper
<1> HIDE DEF e, r
<1>6. /\ d \in Conns /\ d.strand = e.strand /\ d.reading = e.reading
      /\ d.open = e.open /\ d.fd = e.fd
      /\ d.ended = e.ended /\ d.cur = e.cur /\ d.queued = e.queued
      /\ e.open => d.writing /\ d.pending = e.pending /\ d.timer
      /\ ~e.open => d.writing = e.writing /\ d.pending = <<>>
  BY <1>4, WriteParts, Zenon
<1> HIDE DEF d
<1>7. /\ Late(c) => Late(d)
      /\ Due(d, r) /\ Settled(d, {d.cur})
  BY <1>2, <1>4, <1>6, StillParts, Zenon
<1>8. c.open \in BOOLEAN /\ c.open = c.fd
  BY DEF Conns, Ready
<1>9. CASE c.open
  <2>1. d.writing /\ d.pending = <<r>> /\ d.timer /\ d.fd
    BY <1>4, <1>6, <1>8, <1>9
  <2>2. Len(d.pending) = 1 /\ d.pending[1] = r
    BY <1>3, <2>1
  <2>3. Writes(d)
    BY <1>4, <1>6, <1>7, <2>1, <2>2, Zenon DEF Writes, Guarded, Ready
  <2> QED
    BY <1>4, <1>5, <1>6, <2>3, Zenon DEF Calm, Ready
<1>10. CASE ~c.open
  <2>1. Late(d)
    BY <1>2, <1>7, <1>8, <1>10 DEF Kept
  <2> QED
    BY <1>4, <1>5, <1>6, <1>8, <1>10, <2>1, LateRests, Zenon DEF Ready
<1> QED
  BY <1>8, <1>9, <1>10, Zenon

\* The completion handler of read().
LEMMA ReadDoneCalm ==
  ASSUME NEW c \in Conns, NEW h \in Handlers, Ready(c, h), h.op = "read",
         NEW d, ReadEnds(c, h.of, h.result, d), log \in Seq([n : 0..MaxRequests, status : Statuses])
  PROVE  Calm(d)
<1>1. h.of \in {"head", "body"} /\ c.strand \in Seq(Handlers) /\ c.cur \in Nat /\ Len(log) \in Nat
  <2>1. h.of \in {"head", "body"}
    BY HandlerParts
  <2>2. c.strand \in Seq(Handlers) /\ c.cur \in Nat
    BY SMT, SMTT(20) DEF Conns
  <2> QED
    BY <2>1, <2>2, SMT, SMTT(20)
<1>2. /\ c.pending = <<>> /\ Kept(c) /\ Turn(c, h.of) /\ Settled(c, {})
      /\ h.result # "ok" => ~c.fd
      /\ c.open = c.fd /\ (c.fd => c.ended = "no")
      /\ c.reading = "none" /\ ~c.writing /\ Zero(c.strand, Work)
  BY Zenon DEF Ready, Calls
<1>3. /\ d \in Conns /\ d.pending = <<>> /\ ~d.writing /\ d.reading = "none"
      /\ d.fd = c.fd /\ d.ended = c.ended
  BY <1>2, Zenon DEF ReadEnds, Same
<1>4. (Late(c) <=> Late(d)) /\ (Kept(c) <=> Kept(d))
  BY <1>3 DEF Late, Kept
<1>5. CASE h.result # "ok"
  <2>1. ~d.open /\ d.strand = c.strand
    BY <1>5, Zenon DEF ReadEnds
  <2> QED
    BY <1>2, <1>3, <1>4, <1>5, <2>1, LateRests, Zenon DEF Kept
<1>6. CASE h.result = "ok"
  <2>1. /\ d.open = c.open /\ d.cur = (IF h.of = "head" THEN c.cur + 1 ELSE c.cur)
        /\ Silent(c, d) \/ Replies(c, d) \/ AsksBody(c, d)
    BY <1>6 DEF ReadEnds
  <2>2. d.cur = Len(log) + 1
    BY <1>1, <1>2, <2>1, Zenon DEF Turn
  <2>3. CASE Silent(c, d)
    BY <1>2, <1>3, <1>4, <2>1, <2>3, LateRests, Zenon DEF Kept, Silent
  <2>4. CASE Replies(c, d)
    <3>1. PICK r \in Resps :
            /\ d.strand = Append(c.strand, [op |-> "write_helper", resp |-> r]) /\ d.open
            /\ r.n = d.cur /\ Right(r.n, r.status) /\ Ends(r)
            /\ \A i \in DOMAIN d.queued : d.queued[i].n = r.n => r.status = 202
            /\ \A i \in DOMAIN d.queued :
                 d.queued[i].n = r.n \/ \E j \in DOMAIN c.queued : c.queued[j].n = d.queued[i].n
      BY <2>4, Zenon DEF Replies
    <3> DEFINE g == [op |-> "write_helper", resp |-> r]
    <3>2. g \in Handlers /\ g.op = "write_helper" /\ g.resp = r
      BY WriteHandler
    <3> HIDE DEF g
    <3>3. g \in Work
      BY <3>2 DEF Work
    <3>4. Sole(d.strand, g)
      <4>1. d.strand = Append(c.strand, g)
        BY <3>1, Zenon DEF g
      <4>2. Sole(Append(c.strand, g), g)
        BY <1>1, <1>2, <3>2, <3>3, SoleCount, Zenon
      <4> QED
        BY <4>1, <4>2, Zenon
    <3>5. Due(d, r)
      BY <2>2, <3>1, Zenon DEF Due, Fit, Right
    <3>6. Settled(d, {d.cur})
      <4>1. ASSUME NEW i \in DOMAIN d.queued, d.queued[i].n # d.cur
            PROVE  InLog(d.queued[i].n) \/ Late(d)
        <5>1. PICK j \in DOMAIN c.queued : c.queued[j].n = d.queued[i].n
          BY <3>1, <4>1
        <5>2. InLog(c.queued[j].n) \/ Late(c)
          BY <1>2, Zenon DEF Settled
        <5> QED
          BY <1>4, <5>1, <5>2, Zenon
      <4> QED
        BY <4>1, Zenon DEF Settled
    <3>7. Calls(d, g)
      BY <1>2, <1>3, <1>4, <3>2, <3>5, <3>6, Zenon DEF Calls
    <3>8. Runs(d, g)
      BY <1>3, <3>4, <3>7 DEF Runs
    <3> QED
      BY <1>2, <1>3, <2>1, <3>3, <3>8, Zenon DEF Calm
  <2>5. CASE AsksBody(c, d)
    <3>1. PICK g \in BodyToks :
            d.strand = Append(c.strand, g) /\ g.op = "start_read" /\ d.open /\ d.queued = c.queued
      BY <2>5, Zenon DEF AsksBody
    <3>2. g \in Handlers /\ g.of = "body" /\ g \in Work
      BY <3>1 DEF BodyToks, Work
    <3>3. Sole(d.strand, g)
      BY <1>1, <1>2, <3>1, <3>2, SoleCount, Zenon
    <3>4. Settled(d, {})
      BY <1>2, <1>4, <3>1, Zenon DEF Settled
    <3>5. Turn(d, g.of)
      BY <2>2, <3>2 DEF Turn
    <3>6. Calls(d, g)
      BY <1>2, <1>3, <1>4, <3>1, <3>4, <3>5, Zenon DEF Calls
    <3>7. Runs(d, g)
      BY <1>3, <3>3, <3>6, Zenon DEF Runs
    <3> QED
      BY <1>2, <1>3, <2>1, <3>2, <3>7, Zenon DEF Calm
  <2> QED
    BY <2>1, <2>3, <2>4, <2>5, Zenon
<1> QED
  BY <1>5, <1>6

\* A sequence with one member.
LEMMA Single ==
  ASSUME NEW S, NEW p \in Seq(S), Len(p) = 1
  PROVE  p # <<>> /\ Head(p) = p[1] /\ p[1] \in S /\ Tail(p) = <<>>
<1>1. p # <<>>
  BY SMT, SMTT(20)
<1>2. Head(p) = p[1]
  BY <1>1, SMT, SMTT(20)
<1>3. p[1] \in S
  BY SMT, SMTT(20)
<1>4. Tail(p) \in Seq(S) /\ Len(Tail(p)) = 0
  BY <1>1, SMT, SMTT(20)
<1>5. Tail(p) = <<>>
  <2> DEFINE e == <<>>
             t == Tail(p)
  <2>1. e \in Seq(S) /\ Len(e) = 0 /\ t \in Seq(S) /\ Len(t) = 0
    BY <1>4, SMT, SMTT(20)
  <2> HIDE DEF e, t
  <2>2. Len(e) = Len(t) /\ \A i \in 1..Len(t) : t[i] = e[i]
    BY <2>1, SMT, SMTT(20)
  <2>3. t = e
    BY <2>1, <2>2, SameSeq
  <2> QED
    BY <2>3, Zenon DEF e, t
<1> QED
  BY <1>1, <1>2, <1>3, <1>5

\* The completion handler of write(), on the only response.
LEMMA WrittenCalm ==
  ASSUME NEW c \in Conns, NEW h \in Handlers, Ready(c, h), h.op = "written"
  PROVE  Calm(Written(c, h.result))
<1> DEFINE result == h.result
           r == Head(c.pending)
           d == [CancelTimer(c) EXCEPT
                   !.pending = IF result = "failed" /\ r.tries < MaxRetries
                               THEN Retried(@) ELSE Tail(@)]
           x == [op |-> "start_read", of |-> "head", need |-> 0]
           e == CASE result = "aborted"                  -> d
                  [] result = "failed"                   -> SessionError(d, r.n)
                  [] result = "ok" /\ r.then = "close"   -> CloseSocket(d, "answer")
                  [] result = "ok" /\ r.then = "read"    -> Post(d, x)
<1>1. /\ \/ result = "ok" /\ Kept(c) /\ Done(c, c.pending[1]) /\ Settled(c, {})
         \/ result = "aborted" /\ ~c.fd /\ Late(c)
      /\ Len(c.pending) = 1 /\ c.pending \in Seq(Resps) /\ c.strand \in Seq(Handlers)
      /\ c.open = c.fd /\ (c.fd => c.ended = "no") /\ c.open \in BOOLEAN
      /\ c.reading = "none" /\ ~c.writing /\ Zero(c.strand, Work)
  BY DEF Ready, Calls, Conns
<1>2. r = c.pending[1] /\ r \in Resps /\ Tail(c.pending) = <<>>
  BY <1>1, Single, Zenon
<1>3. r.then \in {"read", "close"}
  BY <1>2, SMT, SMTT(20) DEF Resps
<1>4. Written(c, result) = IF e.pending = <<>> THEN e ELSE Write(e)
  BY DEF Written
<1>5. /\ d \in Conns /\ d.pending = <<>> /\ d.strand = c.strand /\ d.reading = c.reading
      /\ d.writing = c.writing /\ d.open = c.open /\ d.fd = c.fd /\ d.ended = c.ended
      /\ d.cur = c.cur /\ d.queued = c.queued
  <2>1. d = [CancelTimer(c) EXCEPT !.pending = <<>>]
    BY <1>1, <1>2, Zenon DEF CancelTimer, Conns
  <2>2. <<>> \in Seq(Resps)
    BY SMT, SMTT(20)
  <2> HIDE DEF d
  <2> QED
    BY <2>1, <2>2, Zenon DEF CancelTimer, Conns
<1> HIDE DEF d, r, result, x
<1>6. /\ Late(c) <=> Late(d)
      /\ Kept(c) <=> Kept(d)
      /\ \A but : Settled(c, but) => Settled(d, but)
      /\ Done(c, r) => Done(d, r)
  BY <1>5, StillParts, Zenon
<1>7. CASE result = "aborted"
  <2>1. Written(c, result) = d
    BY <1>4, <1>5, <1>7
  <2> QED
    BY <1>1, <1>5, <1>6, <1>7, <2>1, LateRests, Zenon DEF result
<1>8. CASE result = "ok" /\ r.then = "close"
  <2> DEFINE f == CloseSocket(d, "answer")
  <2>1. /\ f.strand = d.strand /\ f.queued = d.queued /\ f.cur = d.cur
        /\ f.reading = "none" /\ ~f.writing /\ f.pending = d.pending
        /\ ~f.open /\ ~f.fd /\ f.ended = IF d.ended = "no" THEN "answer" ELSE d.ended
    BY <1>1, <1>5, CloseParts, ZenonT(40)
  <2>2. f \in Conns
    BY <1>5, CloseKeeps, Zenon
  <2>3. e = f
    BY <1>8
  <2> HIDE DEF f, e
  <2>4. Written(c, result) = f
    BY <1>4, <1>5, <2>1, <2>3
  <2>5. Done(d, r) /\ Settled(d, {})
    BY <1>1, <1>2, <1>6, <1>8, Zenon
  <2>6. Explained(f)
    BY <1>8, <2>5, Zenon DEF Explained, Done, Fit, Ends
  <2>7. Late(d) => Late(f)
    BY <2>1 DEF Late
  <2>8. Settled(f, {})
    BY <2>1, <2>5, <2>7 DEF Settled
  <2>9. f.open = f.fd
    BY <2>1, <2>2 DEF Conns
  <2>10. Rests(f)
    BY <1>1, <1>5, <2>1, <2>6, <2>8, Zenon DEF Rests
  <2> QED
    BY <2>1, <2>4, <2>9, <2>10, Zenon DEF Calm, result
<1>9. CASE result = "ok" /\ r.then = "read"
  <2> DEFINE f == Post(d, x)
  <2>1. x \in Handlers /\ x.op = "start_read" /\ x.of = "head"
    BY StartReadHandler, ConnectionAssumption, SMT, SMTT(20) DEF x
  <2>2. Only(d, f) /\ f.strand = Append(d.strand, x)
    BY <1>5, <2>1, PostOnly
  <2>3. e = f
    BY <1>9, Zenon
  <2> HIDE DEF f, e
  <2>4. /\ f.pending = d.pending /\ f.reading = d.reading /\ f.writing = d.writing
        /\ f.open = d.open /\ f.fd = d.fd /\ f.ended = d.ended /\ f.cur = d.cur
        /\ f.queued = d.queued
    BY <2>2, Zenon DEF Only, Kin, Same
  <2>5. Written(c, result) = f
    BY <1>4, <1>5, <2>3, <2>4
  <2>6. Kept(d) /\ Turn(d, "head") /\ Settled(d, {})
    BY <1>1, <1>2, <1>6, <1>9, Zenon DEF Done, Turn
  <2>7. Kept(f) /\ Turn(f, "head") /\ Settled(f, {})
    BY <2>4, <2>6, StillParts
  <2>8. x \in Work
    BY <2>1 DEF Work
  <2>9. Sole(f.strand, x)
    BY <1>1, <1>5, <2>1, <2>2, <2>8, SoleCount, Zenon
  <2>10. Calls(f, x)
    BY <1>5, <2>1, <2>4, <2>7, Zenon DEF Calls
  <2>11. Runs(f, x)
    BY <1>1, <1>5, <2>4, <2>9, <2>10, Zenon DEF Runs
  <2> QED
    BY <1>1, <1>5, <2>4, <2>5, <2>8, <2>11, Zenon DEF Calm, result
<1> QED
  BY <1>1, <1>3, <1>7, <1>8, <1>9, Zenon

\* The timer closes the socket of a calm connection c, whose strand has lost
\* the timer's handler already.
LEMMA TimedOutCalm ==
  ASSUME NEW c \in Conns, c.open = c.fd, c.fd => c.ended = "no",
         NEW why \in {"stalled", "raced"},
         \/ Rests(c)
         \/ /\ c.reading # "none" /\ ~c.writing /\ c.pending = <<>> /\ Zero(c.strand, Work)
            /\ Kept(c) /\ Turn(c, c.reading) /\ Settled(c, {})
         \/ /\ c.reading = "none" /\ c.writing /\ Len(c.pending) = 1 /\ Zero(c.strand, Work)
            /\ c.fd
         \/ \E g \in Work : Runs(c, g)
  PROVE  Calm(CloseSocket(c, why))
<1> DEFINE d == CloseSocket(c, why)
           x == [op |-> "read", of |-> c.reading, result |-> "aborted"]
           y == [op |-> "written", result |-> "aborted"]
           s == IF c.reading = "none" THEN c.strand ELSE Append(c.strand, x)
<1>1. /\ d.strand = IF c.writing THEN Append(s, y) ELSE s
      /\ y \in Handlers /\ (c.reading # "none" => x \in Handlers)
      /\ d.queued = c.queued /\ d.cur = c.cur
      /\ d.reading = "none" /\ ~d.writing /\ d.pending = c.pending
      /\ ~d.open /\ ~d.fd
      /\ d.ended = IF c.ended = "no" THEN why ELSE c.ended
  BY CloseParts, Zenon
<1>2. /\ s = IF c.reading = "none" THEN c.strand ELSE Append(c.strand, x)
      /\ x.op = "read" /\ x.of = c.reading /\ x.result = "aborted"
      /\ y.op = "written" /\ y.result = "aborted"
  BY Zenon
<1>3. d \in Conns
  BY CloseKeeps, Zenon
<1>4. c.strand \in Seq(Handlers) /\ c.writing \in BOOLEAN
  BY Zenon DEF Conns
<1> HIDE DEF d, x, y, s
<1>5. d.open = d.fd
  BY <1>1, <1>3 DEF Conns
<1>6. /\ Late(c) => Late(d)
      /\ Kept(c) => Late(d)
      /\ Late(d) \/ d.ended = c.ended
  BY <1>1, Zenon DEF Late, Kept
<1>7. \A but : Settled(c, but) => Settled(d, but)
  BY <1>1, <1>6, Zenon DEF Settled
<1>8. CASE Rests(c)
  <2>1. d.strand = c.strand
    BY <1>1, <1>2, <1>8, Zenon DEF Rests
  <2>2. Explained(d)
    BY <1>6, <1>8, Zenon DEF Rests, Explained
  <2>3. Rests(d)
    BY <1>1, <1>7, <1>8, <2>1, <2>2, Zenon DEF Rests
  <2> QED
    BY <1>1, <1>5, <2>3, Zenon DEF Calm, d
<1>9. CASE /\ c.reading # "none" /\ ~c.writing /\ c.pending = <<>> /\ Zero(c.strand, Work)
           /\ Kept(c) /\ Turn(c, c.reading) /\ Settled(c, {})
  <2>1. d.strand = Append(c.strand, x) /\ x \in Handlers
    BY <1>1, <1>2, <1>9, ZenonT(40)
  <2>2. x \in Work
    BY <1>2, <2>1 DEF Work
  <2>3. Sole(d.strand, x)
    BY <1>4, <1>9, <2>1, <2>2, SoleCount, Zenon
  <2>4. Kept(d) /\ Turn(d, x.of) /\ Settled(d, {})
    BY <1>1, <1>2, <1>6, <1>7, <1>9, Zenon DEF Kept, Turn
  <2>5. Calls(d, x)
    BY <1>1, <1>2, <1>9, <2>4, Zenon DEF Calls
  <2>6. Runs(d, x)
    BY <1>1, <2>3, <2>5, Zenon DEF Runs
  <2> QED
    BY <1>1, <1>5, <2>2, <2>6, Zenon DEF Calm, d
<1>10. CASE /\ c.reading = "none" /\ c.writing /\ Len(c.pending) = 1 /\ Zero(c.strand, Work)
            /\ c.fd
  <2>1. d.strand = Append(c.strand, y)
    BY <1>1, <1>2, <1>10, Zenon
  <2>2. y \in Work
    BY <1>1, <1>2 DEF Work
  <2>3. Sole(d.strand, y)
    BY <1>1, <1>4, <1>10, <2>1, <2>2, SoleCount, Zenon
  <2>4. Late(d) /\ Len(d.pending) = 1
    BY <1>1, <1>6, <1>10 DEF Kept
  <2>5. Calls(d, y)
    BY <1>1, <1>2, <2>4, Zenon DEF Calls
  <2>6. Runs(d, y)
    BY <1>1, <2>3, <2>5, Zenon DEF Runs
  <2> QED
    BY <1>1, <1>5, <2>2, <2>6, Zenon DEF Calm, d
<1>11. ASSUME NEW g \in Work, Runs(c, g)
       PROVE  Calm(d)
  <2>1. d.strand = c.strand
    BY <1>1, <1>2, <1>11, Zenon DEF Runs
  <2>2. Kept(c) => Kept(d)
    BY <1>6, Zenon DEF Kept
  <2>3. \A of : Turn(c, of) => Turn(d, of)
    BY <1>1 DEF Turn
  <2>4. \A r : (Due(c, r) => Due(d, r)) /\ (Done(c, r) => Done(d, r))
    <3>1. \A r : Fit(c, r) => Fit(d, r)
      BY <1>1 DEF Fit
    <3> QED
      BY <1>1, <3>1, ZenonT(40) DEF Due, Done
  <2>5. Calls(d, g)
    <3>1. Calls(c, g)
      BY <1>11, Zenon DEF Runs
    <3> QED
      BY <1>1, <1>6, <1>7, <2>2, <2>3, <2>4, <3>1, Zenon DEF Calls
  <2>6. Runs(d, g)
    BY <1>1, <1>11, <2>1, <2>5 DEF Runs
  <2> QED
    BY <1>1, <1>5, <2>6, Zenon DEF Calm
<1> QED
  BY <1>8, <1>9, <1>10, <1>11, Zenon DEF d

\* connection_timeout_handler, when p is what the strand leaves of the
\* connection.
LEMMA TimeoutCalm ==
  ASSUME conn \in Conns, Calm(conn), NEW p \in Conns, Still(conn, p),
         p.reading = conn.reading, p.writing = conn.writing,
         p.timer = conn.timer, p.expired = conn.expired,
         Zero(conn.strand, Work) => Zero(p.strand, Work),
         \A g \in Work : Runs(conn, g) => Runs(p, g)
  PROVE  Calm(TimeoutHandler(p))
<1>1. /\ p.pending = conn.pending /\ p.open = conn.open /\ p.fd = conn.fd
      /\ p.ended = conn.ended /\ p.cur = conn.cur /\ p.queued = conn.queued
  BY Zenon DEF Still
<1>2. /\ Kept(conn) => Kept(p)
      /\ Explained(conn) => Explained(p)
      /\ \A of : Turn(conn, of) => Turn(p, of)
      /\ \A but : Settled(conn, but) => Settled(p, but)
      /\ \A r : Due(conn, r) => Due(p, r)
  BY <1>1, StillParts, Zenon
<1>3. /\ p.open = p.fd /\ (p.fd => p.ended = "no")
      /\ Rests(conn) \/ Reads(conn) \/ Writes(conn) \/ \E g \in Work : Runs(conn, g)
  BY <1>1 DEF Calm
<1>4. Rests(conn) => Rests(p)
  BY <1>1, <1>2, Zenon DEF Rests
<1>5. CASE ~p.expired
  <2>1. TimeoutHandler(p) = p
    BY <1>5 DEF TimeoutHandler
  <2>2. Guarded(conn) => Guarded(p)
    BY <1>5 DEF Guarded
  <2>3. Reads(conn) => Reads(p)
    BY <1>1, <1>2, <2>2, Zenon DEF Reads
  <2>4. Writes(conn) => Writes(p)
    BY <1>1, <1>2, <2>2, Zenon DEF Writes
  <2> QED
    BY <1>3, <1>4, <2>1, <2>3, <2>4 DEF Calm
<1>6. CASE p.expired
  <2> DEFINE why == IF p.reading # "none" \/ p.writing THEN "stalled" ELSE "raced"
  <2>1. TimeoutHandler(p) = CloseSocket(p, why) /\ why \in {"stalled", "raced"}
    BY <1>6 DEF TimeoutHandler
  <2>2. Reads(conn) =>
          /\ p.reading # "none" /\ ~p.writing /\ p.pending = <<>> /\ Zero(p.strand, Work)
          /\ Kept(p) /\ Turn(p, p.reading) /\ Settled(p, {})
    BY <1>1, <1>2, Zenon DEF Reads
  <2>3. Writes(conn) =>
          /\ p.reading = "none" /\ p.writing /\ Len(p.pending) = 1 /\ Zero(p.strand, Work)
          /\ p.fd
    BY <1>1, Zenon DEF Writes
  <2> HIDE DEF why
  <2> QED
    BY <1>3, <1>4, <2>1, <2>2, <2>3, TimedOutCalm, Zenon
<1> QED
  BY <1>5, <1>6

\* A calm connection stays calm when requests are sent.
LEMMA CalmGrows ==
  ASSUME Grown, log' = log, Calm(conn'), log \in Seq([n : 0..MaxRequests, status : Statuses])
  PROVE  Calm(conn)'
<1>1. Len(asked) \in Nat /\ Len(asked') \in Nat /\ Len(asked) <= Len(asked')
  BY SMT, SMTT(20) DEF Grown
<1>2. \A n \in 1..Len(asked) : n \in 1..Len(asked') /\ asked'[n] = asked[n]
  BY <1>1, SMT, SMTT(20) DEF Grown
<1>3. (Late(conn') <=> Late(conn)') /\ (Kept(conn') <=> Kept(conn)')
  BY Zenon DEF Late, Kept
<1>4. Explained(conn') => Explained(conn)'
  BY <1>2, <1>3 DEF Explained
<1>5. \A r : Fit(conn', r) => Fit(conn, r)'
  BY <1>2, Zenon DEF Fit, Ends
<1>6. /\ \A r : Due(conn', r) => Due(conn, r)'
      /\ \A r : Done(conn', r) => Done(conn, r)'
  BY <1>5, Zenon DEF Due, Done
<1>7. /\ \A of : Turn(conn', of) => Turn(conn, of)'
      /\ \A but : Settled(conn', but) => Settled(conn, but)'
  BY <1>3 DEF Turn, Settled, InLog
<1>8. Guarded(conn') <=> Guarded(conn)'
  BY DEF Guarded
<1>9. Settled(conn', {}) => Settled(conn, {})'
  BY <1>7, Zenon
<1>10. Settled(conn', {conn'.cur}) => Settled(conn, {conn.cur})'
  BY <1>3, ZenonT(40) DEF Settled, InLog
<1>11. Rests(conn') => Rests(conn)'
  BY <1>4, <1>9, Zenon DEF Rests
<1>12. Reads(conn') => Reads(conn)'
  <2>1. Turn(conn', conn'.reading) => Turn(conn, conn.reading)'
    BY Zenon DEF Turn
  <2> QED
    BY <1>3, <1>8, <1>9, <2>1 DEF Reads
<1>13. Due(conn', conn'.pending[1]) => Due(conn, conn.pending[1])'
  <2>1. PICK r : r = conn'.pending[1]
    OBVIOUS
  <2>2. Due(conn', r) => Due(conn, r)'
    BY <1>6, Zenon
  <2> QED
    BY <2>1, <2>2, SMT, SMTT(20) DEF Due, Fit, Ends
<1>14. Done(conn', conn'.pending[1]) => Done(conn, conn.pending[1])'
  <2>1. PICK r : r = conn'.pending[1]
    OBVIOUS
  <2>2. Done(conn', r) => Done(conn, r)'
    BY <1>6, Zenon
  <2> QED
    BY <2>1, <2>2, Zenon DEF Done, Fit, Ends
<1>15. Writes(conn') => Writes(conn)'
  BY <1>8, <1>10, <1>13 DEF Writes
<1>16. ASSUME NEW h \in Work, Runs(conn', h)
       PROVE  Runs(conn, h)'
  <2>1. Turn(conn', h.of) => Turn(conn, h.of)'
    BY <1>7
  <2>2. Due(conn', h.resp) => Due(conn, h.resp)'
    BY <1>6
  <2>3. Calls(conn, h)'
    BY <1>3, <1>9, <1>10, <1>14, <1>16, <2>1, <2>2, Zenon DEF Calls, Runs
  <2> QED
    BY <1>16, <2>3 DEF Runs
<1>17. (\E h \in Work : Runs(conn', h)) => (\E h \in Work : Runs(conn, h))'
  BY <1>16
<1> QED
  BY <1>11, <1>12, <1>15, <1>17, Zenon DEF Calm

\* The callbacks of the strand.
LEMMA StrandCalm ==
  ASSUME IInv, FInv, Calm(conn),
         RunStartRead \/ RunWriteHelper \/ RunReadDone \/ RunWritten \/ RunTimeout
  PROVE  Calm(conn')
<1> DEFINE h == Head(conn.strand)
           p == Popped
<1>1. conn.strand # <<>>
  BY Zenon DEF RunStartRead, RunWriteHelper, RunReadDone, RunWritten, RunTimeout, Run
<1>2. Good(conn) /\ Lone(conn) /\ Fine(conn) /\ ClientOK /\ Bounded(conn.buffer) /\ conn \in Conns
  BY TypeParts, Zenon DEF IInv, FInv
<1>3. /\ p \in Conns /\ h \in Handlers /\ Owned(p) /\ Answers(p)
      /\ h \in Toks => /\ h \in BodyToks => InBody(p)
                       /\ h \notin BodyToks => AtHead(p)
      /\ p.strand = Tail(conn.strand) /\ Same(conn, p)
      /\ p.open = conn.open /\ p.fd = conn.fd /\ p.timer = conn.timer
      /\ p.expired = conn.expired /\ p.ended = conn.ended
      /\ p.buffer = conn.buffer /\ p.cur = conn.cur /\ p.queued = conn.queued
  BY <1>1, <1>2, PopFine, Zenon
<1>4. /\ Good(p) /\ GoodTok(h, conn.buffer)
      /\ h \in Toks => Free(p)
  BY <1>1, <1>2, PoppedKeeps, Zenon
<1>5. /\ owes \in Nat /\ wire \in Seq(Units) /\ asked \in Seq(Kinds) /\ errors \in Nat
      /\ log \in Seq([n : 0..MaxRequests, status : Statuses]) /\ Bounded(p.buffer)
  BY <1>2, <1>3, ConnectionAssumption, SMT, SMTT(20) DEF ClientOK
<1> HIDE DEF h, p
<1>6. Still(conn, p) /\ p.reading = conn.reading /\ p.writing = conn.writing
  BY <1>3, Zenon DEF Still, Same
<1>7. /\ h \in Work => Ready(p, h)
      /\ h \notin Work =>
           /\ Zero(conn.strand, Work) => Zero(p.strand, Work)
           /\ \A g \in Work : Runs(conn, g) => Runs(p, g)
  BY <1>1, <1>2, <1>3, <1>6, PopCalm, Zenon DEF h
<1>8. h.op # "timeout" => Ready(p, h)
  BY <1>3, <1>7, Zenon DEF Work
<1>9. CASE RunStartRead
  <2>1. h.op = "start_read" /\ conn' = Read(p, h.of, h.need)
    BY <1>9, Zenon DEF RunStartRead, Run, h, p
  <2>2. LET d == Read(p, h.of, h.need) IN
        /\ d.strand = p.strand /\ d.reading = h.of /\ d.timer
        /\ d.pending = p.pending /\ d.writing = p.writing /\ d.open = p.open /\ d.fd = p.fd
        /\ d.ended = p.ended /\ d.cur = p.cur /\ d.queued = p.queued
    <3>1. p \in Conns
      BY <1>3, Zenon
    <3> QED
      BY <3>1, Zenon DEF Read, ArmTimer, Conns
  <2> QED
    BY <1>3, <1>8, <2>1, <2>2, ReadCalm, Zenon
<1>10. CASE RunWriteHelper
  <2>1. h.op = "write_helper" /\ conn' = WriteHelper(p, h.resp)
    BY <1>10 DEF RunWriteHelper, Run, h, p
  <2> QED
    BY <1>3, <1>8, <2>1, WriteHelperCalm, Zenon
<1>11. CASE RunReadDone
  <2>1. h.op = "read" /\ conn' = ReadDone(p, h.of, h.result)
    BY <1>11, Zenon DEF RunReadDone, Run, h, p
  <2>2. h.of \in {"head", "body"} /\ h.result \in Results /\ h \in Toks
    BY <1>3, <2>1, HandlerParts, Zenon
  <2>3. h \in BodyToks <=> h.of = "body"
    BY <1>3, <2>1, BodyTokParts
  <2>4. /\ h.result = "ok" /\ h.of = "head" => HasHead(p.buffer)
        /\ h.result = "ok" /\ h.of = "body" => Len(p.buffer) >= Length
    BY <1>3, <1>4, <2>1, Zenon DEF GoodTok
  <2>5. ReadEnds(p, h.of, h.result, ReadDone(p, h.of, h.result))
    BY <1>3, <1>4, <1>5, <2>2, <2>3, <2>4, ReadDoneOutcome, Zenon
  <2> QED
    BY <1>3, <1>5, <1>8, <2>1, <2>5, ReadDoneCalm, Zenon
<1>12. CASE RunWritten
  <2>1. h.op = "written" /\ conn' = Written(p, h.result)
    BY <1>12, Zenon DEF RunWritten, Run, h, p
  <2> QED
    BY <1>3, <1>8, <2>1, WrittenCalm, Zenon
<1>13. CASE RunTimeout
  <2>1. h.op = "timeout" /\ conn' = TimeoutHandler(p)
    BY <1>13 DEF RunTimeout, Run, h, p
  <2>2. h \notin Work
    BY <2>1 DEF Work
  <2> QED
    BY <1>2, <1>3, <1>6, <1>7, <2>1, <2>2, TimeoutCalm, Zenon
<1> QED
  BY <1>9, <1>10, <1>11, <1>12, <1>13, Zenon

\* A read completes, or fails on a closed descriptor.
LEMMA ReadEventCalm ==
  ASSUME conn \in Conns, Calm(conn), ~gone, NEW h, ReadEvent(h)
  PROVE  Calm(conn')
<1>1. /\ h \in Work /\ h \in Handlers /\ h.op = "read" /\ h.of = conn.reading
      /\ conn.reading # "none" /\ (h.result # "ok" => ~conn.fd)
      /\ conn'.strand = Append(conn.strand, h) /\ conn'.reading = "none"
      /\ conn'.writing = conn.writing /\ Still(conn, conn')
  BY Zenon DEF ReadEvent, Work
<1>2. /\ conn'.pending = conn.pending /\ conn'.open = conn.open /\ conn'.fd = conn.fd
      /\ conn'.ended = conn.ended /\ conn'.cur = conn.cur /\ conn'.queued = conn.queued
  BY <1>1 DEF Still
<1>3. /\ ~conn.writing /\ conn.pending = <<>> /\ Zero(conn.strand, Work)
      /\ Kept(conn) /\ Turn(conn, conn.reading) /\ Settled(conn, {})
  BY <1>1, Zenon DEF Calm, Rests, Reads, Writes, Runs
<1>4. conn.strand \in Seq(Handlers)
  BY DEF Conns
<1>5. Sole(conn'.strand, h)
  BY <1>1, <1>3, <1>4, SoleCount, Zenon
<1>6. Kept(conn') /\ Turn(conn', h.of) /\ Settled(conn', {})
  BY <1>1, <1>2, <1>3, StillParts, Zenon
<1>7. Calls(conn', h)
  BY <1>1, <1>2, <1>3, <1>6, Zenon DEF Calls
<1>8. Runs(conn', h)
  BY <1>1, <1>3, <1>5, <1>7, Zenon DEF Runs
<1> QED
  BY <1>1, <1>2, <1>8, Zenon DEF Calm

\* The time of the timer comes.
LEMMA ExpireCalm ==
  ASSUME conn \in Conns, Calm(conn), NEW h, ExpireEvent(h)
  PROVE  Calm(conn')
<1>1. /\ h \notin Work /\ h \in Handlers /\ h.op = "timeout"
      /\ conn'.strand = IF conn.timer THEN Append(conn.strand, h) ELSE conn.strand
      /\ conn'.expired /\ (conn.timer \/ Posted("timeout") # {})
      /\ Still(conn, conn') /\ conn'.reading = conn.reading /\ conn'.writing = conn.writing
  BY Zenon DEF ExpireEvent, Work
<1>2. /\ conn'.pending = conn.pending /\ conn'.open = conn.open /\ conn'.fd = conn.fd
      /\ conn'.ended = conn.ended /\ conn'.cur = conn.cur /\ conn'.queued = conn.queued
  BY <1>1 DEF Still
<1>3. conn.strand \in Seq(Handlers)
  BY Zenon DEF Conns
<1>4. /\ Kept(conn) => Kept(conn')
      /\ Explained(conn) => Explained(conn')
      /\ \A of : Turn(conn, of) => Turn(conn', of)
      /\ \A but : Settled(conn, but) => Settled(conn', but)
      /\ \A r : Due(conn, r) => Due(conn', r)
  BY <1>2, StillParts, Zenon
<1>5. Zero(conn.strand, Work) => Zero(conn'.strand, Work)
  BY <1>1, <1>3, CountAppend, Zenon
<1>6. \A g : Sole(conn.strand, g) => Sole(conn'.strand, g)
  BY <1>1, <1>3, SoleCount
<1>7. Guarded(conn')
  <2>1. CASE conn.timer
    <3>1. /\ Len(conn.strand) + 1 \in DOMAIN conn'.strand
          /\ conn'.strand[Len(conn.strand) + 1].op = "timeout"
      BY <1>1, <1>3, <2>1, SMT, SMTT(20)
    <3> QED
      BY <1>1, <3>1, Zenon DEF Guarded, Ticks
  <2>2. CASE ~conn.timer
    BY <1>1, <2>2 DEF Guarded, Ticks, Posted
  <2> QED
    BY <2>1, <2>2, Zenon
<1>8. Rests(conn) => Rests(conn')
  BY <1>1, <1>2, <1>4, <1>5, Zenon DEF Rests
<1>9. Reads(conn) => Reads(conn')
  BY <1>1, <1>2, <1>4, <1>5, <1>7, Zenon DEF Reads
<1>10. Writes(conn) => Writes(conn')
  BY <1>1, <1>2, <1>4, <1>5, <1>7, Zenon DEF Writes
<1>11. \A g \in Work : Runs(conn, g) => Runs(conn', g)
  <2>1. \A g : Calls(conn, g) => Calls(conn', g)
    BY <1>1, CallsStill, Zenon
  <2> QED
    BY <1>1, <1>6, <2>1 DEF Runs
<1> QED
  BY <1>2, <1>8, <1>9, <1>10, <1>11, Zenon DEF Calm

\* A calm connection whose descriptor is open has something to do: it is
\* not destroyed.
LEMMA CalmNotIdle ==
  ASSUME conn \in Conns, Calm(conn), conn.fd
  PROVE  ~Idle
<1>1. conn.strand \in Seq(Handlers)
  BY Zenon DEF Conns
<1>2. \A g \in Work : Runs(conn, g) => conn.strand # <<>>
  BY <1>1, SMT, SMTT(20) DEF Runs, Sole
<1> QED
  BY <1>2 DEF Calm, Rests, Reads, Writes, Idle

\* A response is received: it is the next one.
LEMMA WriteEventCalm ==
  ASSUME conn \in Conns, ClientOK, Calm(conn), InOrder, errors = 0, ~gone,
         NEW h, WriteEvent(h), h.result = "ok"
  PROVE  Calm(conn)' /\ InOrder'
<1> DEFINE r == conn.pending[1]
           x == [n |-> conn.pending[1].n, status |-> conn.pending[1].status]
<1>1. /\ h \in Work /\ h \in Handlers /\ h.op = "written" /\ conn.writing
      /\ conn'.strand = Append(conn.strand, h) /\ ~conn'.writing
      /\ conn'.reading = conn.reading /\ Still(conn, conn')
      /\ log' = Append(log, x) /\ errors' = errors /\ asked' = asked
  BY Zenon DEF WriteEvent, Work, client
<1>2. /\ conn'.pending = conn.pending /\ conn'.open = conn.open /\ conn'.fd = conn.fd
      /\ conn'.ended = conn.ended /\ conn'.cur = conn.cur /\ conn'.queued = conn.queued
  BY <1>1 DEF Still
<1>3. /\ conn.reading = "none" /\ Len(conn.pending) = 1 /\ Zero(conn.strand, Work)
      /\ conn.fd /\ Due(conn, r) /\ Settled(conn, {conn.cur})
  BY <1>1, Zenon DEF Calm, Rests, Reads, Writes, Runs
<1>4. conn.strand \in Seq(Handlers) /\ conn.pending \in Seq(Resps)
  BY Zenon DEF Conns
<1>5. r \in Resps
  BY <1>3, <1>4, Single, Zenon
<1>6. r.n \in 0..MaxRequests /\ r.status \in Statuses
  BY <1>5, Zenon DEF Resps, Statuses
<1>7. /\ x \in [n : 0..MaxRequests, status : Statuses] /\ x.n = r.n /\ x.status = r.status
      /\ x = [n |-> r.n, status |-> r.status]
  BY <1>6
<1>8. log \in Seq([n : 0..MaxRequests, status : Statuses])
  BY Zenon DEF ClientOK
<1> HIDE DEF x, r
<1>9. /\ Len(log') = Len(log) + 1 /\ log' # <<>> /\ log'[Len(log')] = x /\ Len(log) \in Nat
      /\ \A i \in DOMAIN log : i \in DOMAIN log' /\ log'[i] = log[i]
      /\ \A i \in DOMAIN log' : i \in DOMAIN log \/ i = Len(log) + 1
      /\ Len(log) + 1 \in DOMAIN log'
  BY <1>1, <1>7, <1>8, SMT, SMTT(20)
<1>10. /\ r.n = conn.cur /\ r.n \in 1..Len(asked) /\ Ends(r) /\ conn.cur = Len(log) + 1
       /\ \A i \in DOMAIN conn.queued : conn.queued[i].n = r.n => r.status = 202
  BY <1>3, Zenon DEF Due, Fit
<1>11. InOrder'
  <2>1. \A i \in DOMAIN log : log[i].n = i
    BY Zenon DEF InOrder
  <2>2. \A i \in DOMAIN log' : log'[i].n = i
    BY <1>7, <1>9, <1>10, <2>1, ZenonT(40)
  <2> QED
    BY <2>2 DEF InOrder
<1>12. Done(conn, conn.pending[1])'
  <2>1. conn'.pending[1] = r
    BY <1>2, Zenon DEF r
  <2>2. Ends(conn.pending[1])'
    BY <1>1, <1>10, <2>1, Zenon DEF Ends
  <2> QED
    BY <1>1, <1>2, <1>7, <1>9, <1>10, <2>1, <2>2 DEF Done, Fit
<1>13. Settled(conn, {})'
  <2>1. ASSUME NEW i \in DOMAIN conn.queued
        PROVE  InLog(conn.queued[i].n)' \/ Late(conn)'
    <3>1. CASE conn.queued[i].n = conn.cur
      <4>1. log'[Len(log) + 1] = [n |-> conn'.queued[i].n, status |-> 202]
        BY <1>2, <1>7, <1>9, <1>10, <3>1, SMT, SMTT(20)
      <4> QED
        BY <1>9, <4>1, ZenonT(40) DEF InLog
    <3>2. CASE conn.queued[i].n # conn.cur
      <4>1. InLog(conn.queued[i].n) \/ Late(conn)
        BY <1>3, <3>2, Zenon DEF Settled
      <4>2. CASE Late(conn)
        BY <1>2, <4>2, Zenon DEF Late
      <4>3. CASE InLog(conn.queued[i].n)
        <5>1. PICK j \in DOMAIN log : log[j] = [n |-> conn.queued[i].n, status |-> 202]
          BY <4>3, Zenon DEF InLog
        <5>2. j \in DOMAIN log' /\ log'[j] = [n |-> conn'.queued[i].n, status |-> 202]
          BY <1>2, <1>9, <5>1
        <5> QED
          BY <5>2, Zenon DEF InLog
      <4> QED
        BY <4>1, <4>2, <4>3, Zenon
    <3> QED
      BY <3>1, <3>2, Zenon
  <2> QED
    BY <1>2, <2>1, Zenon DEF Settled
<1>14. Sole(conn'.strand, h)
  BY <1>1, <1>3, <1>4, SoleCount, Zenon
<1>15. Kept(conn)'
  BY <1>2, <1>3 DEF Kept
<1>16. Calls(conn, h)'
  BY <1>1, <1>2, <1>3, <1>12, <1>13, <1>15, Zenon DEF Calls
<1>17. Runs(conn, h)'
  BY <1>1, <1>3, <1>14, <1>16, Zenon DEF Runs
<1>18. (conn.open = conn.fd /\ (conn.fd => conn.ended = "no"))'
  BY <1>2, Zenon DEF Calm
<1> QED
  BY <1>1, <1>11, <1>17, <1>18, Zenon DEF Calm

\* At the start the first read is asked for.
LEMMA InitCalm == Init => CInv
<1> SUFFICES ASSUME Init
             PROVE  CInv
  BY Zenon
<1> DEFINE h == [op |-> "start_read", of |-> "head", need |-> 0]
<1>1. /\ conn.strand = <<h>> /\ conn.reading = "none" /\ conn.pending = <<>> /\ ~conn.writing
      /\ conn.cur = 0 /\ conn.queued = <<>> /\ conn.open = conn.fd /\ conn.fd /\ conn.ended = "no"
      /\ log = <<>>
  BY Zenon DEF Init
<1>2. h \in Handlers /\ h.op = "start_read" /\ h.of = "head"
  BY StartReadHandler, ConnectionAssumption, SMT, SMTT(20)
<1>3. h \in Work
  BY <1>2 DEF Work
<1> HIDE DEF h
<1>4. Sole(conn.strand, h)
  BY <1>1, SMT, SMTT(20) DEF Sole
<1>5. Kept(conn) /\ Turn(conn, h.of) /\ Settled(conn, {})
  BY <1>1, <1>2, SMT, SMTT(20) DEF Kept, Turn, Settled
<1>6. Calls(conn, h)
  BY <1>1, <1>2, <1>5, Zenon DEF Calls
<1>7. Runs(conn, h)
  BY <1>1, <1>4, <1>6 DEF Runs
<1>8. InOrder
  BY <1>1, SMT, SMTT(20) DEF InOrder
<1> QED
  BY <1>1, <1>3, <1>7, <1>8 DEF CInv, Calm

\* A step that leaves the responses received as they are.
LEMMA QuietCalm ==
  ASSUME Grown, CInv, log' = log, log \in Seq([n : 0..MaxRequests, status : Statuses]),
         errors' = 0 /\ ~gone' /\ errors = 0 /\ ~gone /\ Calm(conn) => Calm(conn')
  PROVE  CInv'
<1>1. errors' = 0 => errors = 0
  BY SMT, SMTT(20) DEF Grown
<1>2. ~gone' => ~gone
  BY DEF Grown
<1>3. InOrder'
  BY <1>1 DEF CInv, InOrder
<1>4. errors' = 0 /\ ~gone' => Calm(conn)'
  BY <1>1, <1>2, CalmGrows DEF CInv
<1> QED
  BY <1>3, <1>4 DEF CInv

\* Every step keeps it.
LEMMA StepCalm == IInv /\ FInv /\ CInv /\ [Next]_vars => CInv'
<1> SUFFICES ASSUME IInv, FInv, CInv, [Next]_vars
             PROVE  CInv'
  BY Zenon
<1>1. conn \in Conns /\ ClientOK
  BY TypeParts DEF IInv
<1>2. /\ log \in Seq([n : 0..MaxRequests, status : Statuses])
      /\ asked \in Seq(Kinds) /\ errors \in Nat
  BY <1>1, SMT, SMTT(20) DEF ClientOK
<1>3. ASSUME UNCHANGED <<asked, gone, log, errors>>
      PROVE  Grown
  BY <1>2, <1>3, SMT, SMTT(20) DEF Grown
<1>4. CASE RunStartRead \/ RunWriteHelper \/ RunReadDone \/ RunWritten \/ RunTimeout
  <2>1. UNCHANGED <<asked, gone, log, errors>>
    BY <1>4 DEF RunStartRead, RunWriteHelper, RunReadDone, RunWritten, RunTimeout, Run, client
  <2>2. Calm(conn) => Calm(conn')
    BY <1>4, StrandCalm
  <2> QED
    BY <1>2, <1>3, <2>1, <2>2, QuietCalm, Zenon
<1>5. CASE ReadFails \/ \E k \in 0..Len(wire) : ReadCompletes(k)
  <2>1. PICK h : ReadEvent(h)
    BY <1>5, ReadEvents, Zenon
  <2>2. UNCHANGED <<asked, gone, log, errors>>
    BY <2>1 DEF ReadEvent
  <2>3. ~gone /\ Calm(conn) => Calm(conn')
    BY <1>1, <2>1, ReadEventCalm
  <2> QED
    BY <1>2, <1>3, <2>2, <2>3, QuietCalm
<1>6. CASE WriteCompletes \/ WriteFails
  <2>1. PICK h : WriteEvent(h)
    BY <1>6, WriteEvents, Zenon
  <2>2. asked' = asked /\ gone' = gone
    BY <2>1 DEF WriteEvent, client
  <2>3. CASE h.result = "ok" /\ ~gone /\ errors = 0
    <3>1. Calm(conn)' /\ InOrder'
      BY <1>1, <2>1, <2>3, WriteEventCalm DEF CInv
    <3> QED
      BY <3>1 DEF CInv
  <2>4. CASE h.result = "ok" /\ ~gone /\ errors # 0
    <3>1. errors' # 0
      BY <2>1, <2>4 DEF WriteEvent
    <3> QED
      BY <3>1, Zenon DEF CInv, InOrder
  <2>5. CASE gone \/ h.result # "ok"
    <3>1. log' = log /\ errors' \in Nat /\ errors <= errors' /\ (gone \/ errors' > 0)
      BY <1>2, <2>1, <2>5, SMT, SMTT(20) DEF WriteEvent
    <3>2. Grown
      BY <1>2, <2>2, <3>1, SMT, SMTT(20) DEF Grown
    <3>3. ~(errors' = 0 /\ ~gone')
      BY <2>2, <3>1, SMT, SMTT(20)
    <3> QED
      BY <1>2, <3>1, <3>2, <3>3, QuietCalm, Zenon
  <2> QED
    BY <2>3, <2>4, <2>5
<1>7. CASE Expire
  <2>1. PICK h : ExpireEvent(h)
    BY <1>7, ExpireEvents, Zenon
  <2>2. UNCHANGED <<asked, gone, log, errors>>
    BY <2>1 DEF ExpireEvent, client
  <2>3. Calm(conn) => Calm(conn')
    BY <1>1, <2>1, ExpireCalm
  <2> QED
    BY <1>2, <1>3, <2>2, <2>3, QuietCalm
<1>8. CASE Destroy
  <2>1. UNCHANGED <<asked, gone, log, errors>> /\ Idle /\ conn.fd
    BY <1>8 DEF Destroy, client
  <2>2. ~Calm(conn)
    BY <1>1, <2>1, CalmNotIdle
  <2> QED
    BY <1>2, <1>3, <2>1, <2>2, QuietCalm
<1>9. CASE (\E kind \in Kinds : Send(kind)) \/ SendBody \/ Leave
  <2>1. conn' = conn /\ log' = log /\ errors' = errors /\ (gone => gone')
    BY <1>9 DEF Send, SendBody, Leave
  <2>2. /\ asked' \in Seq(Kinds) /\ Len(asked) <= Len(asked')
        /\ \A n \in 1..Len(asked) : asked'[n] = asked[n]
    <3>1. asked' = asked \/ \E kind \in Kinds : asked' = Append(asked, kind)
      BY <1>9 DEF Send, SendBody, Leave
    <3>2. ASSUME NEW kind \in Kinds, asked' = Append(asked, kind)
          PROVE  /\ asked' \in Seq(Kinds) /\ Len(asked) <= Len(asked')
                 /\ \A n \in 1..Len(asked) : asked'[n] = asked[n]
      BY <1>2, <3>2, SMT, SMTT(20)
    <3>3. CASE asked' = asked
      BY <1>2, <3>3, SMT, SMTT(20)
    <3> QED
      BY <3>1, <3>2, <3>3
  <2>3. Grown
    BY <1>2, <2>1, <2>2, SMT, SMTT(20) DEF Grown
  <2> QED
    BY <1>2, <2>1, <2>3, QuietCalm
<1>10. CASE UNCHANGED vars
  <2>1. UNCHANGED <<asked, gone, log, errors>> /\ conn' = conn
    BY <1>10 DEF vars, client
  <2> QED
    BY <1>2, <1>3, <2>1, QuietCalm
<1> QED
  BY <1>4, <1>5, <1>6, <1>7, <1>8, <1>9, <1>10 DEF Next

\* Therefore it always holds.
LEMMA CalmInvariance == Spec => [](IInv /\ CInv)
<1>1. Init => IInv /\ FInv /\ CInv
  BY InitInv, InitFine, InitCalm
<1>2. (IInv /\ FInv /\ CInv) /\ [Next]_vars => (IInv /\ FInv /\ CInv)'
  BY StepInv, StepFine, StepCalm
<1> QED
  BY <1>1, <1>2, PTL DEF Spec

\* Unless a write failed, responses leave the connection in the order of the
\* requests, one for each: the next head is parsed only after the response to
\* the one before was written, so that m_pending_writes never holds two.
THEOREM AnswersInOrder == Spec => []InOrder
<1>1. CInv => InOrder
  BY DEF CInv
<1> QED
  BY <1>1, CalmInvariance, PTL

\* A payment that post_payment_handler's callback enqueued has its 202 received,
\* pending or posted, unless the client left, a write failed or the timer closed
\* the socket: no callback drops a response of a connection that stays open.
THEOREM AcceptedPaymentsAnswered == Spec => []AcceptedIsAnswered
<1>1. IInv /\ CInv => AcceptedIsAnswered
  <2>0. IInv => errors \in Nat
    BY TypeParts, SMT, SMTT(20) DEF IInv, ClientOK
  <2> SUFFICES ASSUME IInv, CInv, NEW i \in DOMAIN conn.queued, errors = 0, ~gone, ~Late(conn),
                      ~InLog(conn.queued[i].n)
               PROVE  \/ \E j \in DOMAIN conn.pending : conn.pending[j].n = conn.queued[i].n
                      \/ \E j \in Posted("write_helper") : conn.strand[j].resp.n = conn.queued[i].n
    BY <2>0, SMT, SMTT(20) DEF AcceptedIsAnswered, Late, InLog
  <2>1. Calm(conn) /\ conn.pending \in Seq(Resps)
    BY TypeParts DEF CInv, IInv, Conns
  <2>2. ~Settled(conn, {})
    BY Zenon DEF Settled
  <2>3. Settled(conn, {conn.cur}) => conn.queued[i].n = conn.cur
    BY Zenon DEF Settled
  <2>4. CASE Writes(conn)
    <3>1. 1 \in DOMAIN conn.pending /\ conn.pending[1].n = conn.queued[i].n
      BY <2>1, <2>3, <2>4, SMT, SMTT(20) DEF Writes, Due, Fit
    <3> QED
      BY <3>1, Zenon
  <2>5. ASSUME NEW h \in Work, Runs(conn, h)
        PROVE  \E j \in Posted("write_helper") : conn.strand[j].resp.n = conn.queued[i].n
    <3>1. h.op = "write_helper" /\ Due(conn, h.resp) /\ Settled(conn, {conn.cur})
      BY <2>2, <2>5, Zenon DEF Runs, Calls
    <3>2. PICK j \in DOMAIN conn.strand : conn.strand[j] = h
      BY <2>5, Zenon DEF Runs, Sole
    <3>3. j \in Posted("write_helper") /\ conn.strand[j].resp.n = conn.queued[i].n
      BY <2>3, <3>1, <3>2, Zenon DEF Posted, Due, Fit
    <3> QED
      BY <3>3
  <2>6. ~Rests(conn) /\ ~Reads(conn)
    BY <2>2 DEF Rests, Reads
  <2> QED
    BY <2>1, <2>4, <2>5, <2>6 DEF Calm
<1> QED
  BY <1>1, CalmInvariance, PTL

\* The server closes the connection of a client that stays, with no failed
\* write, only from connection_timeout_handler or after a response that was sent
\* with close(): the session of a client that waits is never destroyed.
THEOREM ClosesAreExplained == Spec => []CloseExplained
<1>1. CInv => CloseExplained
  <2> SUFFICES ASSUME CInv, ~conn.fd, ~gone, errors = 0
               PROVE  Explained(conn)
    BY DEF CloseExplained, Explained, Late
  <2>1. Calm(conn)
    BY DEF CInv
  <2> QED
    BY <2>1, Zenon DEF Calm, Rests, Reads, Writes, Runs, Calls, Kept, Explained
<1> QED
  BY <1>1, CalmInvariance, PTL

\* Unless a write failed, the one timer that read and write share is set while
\* either is under way, or its handler, already posted, will close the socket:
\* the completion of one never cancels the timer of the other.
THEOREM OperationsAreTimed == Spec => []TimerGuards
<1>1. CInv => TimerGuards
  <2> SUFFICES ASSUME CInv, ~gone, errors = 0, conn.reading # "none" \/ conn.writing
               PROVE  Guarded(conn)
    BY DEF TimerGuards, Guarded, Ticks, Posted
  <2>1. Calm(conn)
    BY DEF CInv
  <2> QED
    BY <2>1, Zenon DEF Calm, Rests, Reads, Writes, Runs
<1> QED
  BY <1>1, CalmInvariance, PTL
==============================================================================
