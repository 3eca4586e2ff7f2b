------------------------- MODULE SummaryFanoutProofs --------------------------
(***************************************************************************)
(* What holds of SummaryFanout for every number of requests, REST threads, *)
(* payments, crashes and silent calls.                                     *)
(***************************************************************************)
EXTENDS SummaryFanout, FiniteSetTheorems, TLAPS

ReqStates   == {"new", "queued", "running", "waiting", "answered", "failed"}
InnerStates == {"none", "calling", "running", "replied", "failed", "silent"}

(***************************************************************************)
(* Two instances, each the other's other.                                  *)
(***************************************************************************)

\* OTHER_INSTANCE_URL names the one other instance.
LEMMA OtherType ==
  ASSUME NEW i \in Instances
  PROVE  /\ Other(i) \in Instances /\ Other(i) # i
         /\ \A j \in Instances : j = i \/ j = Other(i)
         /\ Other(Other(i)) = i
<1>1. IsFiniteSet(Instances) /\ Cardinality(Instances) = 2
  BY FanoutAssumption
<1>2. /\ IsFiniteSet(Instances \ {i})
      /\ Cardinality(Instances \ {i}) = 1
  BY <1>1, FS_RemoveElement
<1>3. PICK j : Instances \ {i} = {j}
  BY <1>2, FS_Singleton, Zenon
<1>4. j \in Instances /\ j # i /\ \A k \in Instances : k = i \/ k = j
  BY <1>3
<1>5. Other(i) = j /\ Other(j) = i
  BY <1>4 DEF Other
<1> QED
  BY <1>4, <1>5

(***************************************************************************)
(* Type correctness.                                                       *)
(***************************************************************************)

\* The states of requests and calls.
LEMMA StatesType ==
  /\ TypeOK => req \in [Requests -> ReqStates] /\ inner \in [Requests -> InnerStates]
  /\ TypeOK => /\ up \in [Instances -> BOOLEAN] /\ at \in [Requests -> Instances]
               /\ total \in [Instances -> 0..MaxTotal]
               /\ own \in [Requests -> 0..MaxTotal]
               /\ peer \in [Requests -> 0..MaxTotal]
               /\ own_low \in [Requests -> 0..MaxTotal]
               /\ peer_low \in [Requests -> 0..MaxTotal]
               /\ crashes \in 0..MaxCrashes
BY DEF TypeOK, ReqStates, InnerStates

\* Every step keeps every variable in its type.
LEMMA TypeStep == TypeOK /\ [Next]_vars => TypeOK'
<1> SUFFICES ASSUME TypeOK, [Next]_vars
             PROVE  TypeOK'
  OBVIOUS
<1>0. /\ MaxTotal \in Nat /\ MaxCrashes \in Nat
      /\ 0 \in 0..MaxTotal /\ 0 \in 0..MaxCrashes
  BY FanoutAssumption
<1>1. /\ up \in [Instances -> BOOLEAN] /\ at \in [Requests -> Instances]
      /\ total \in [Instances -> 0..MaxTotal]
      /\ req \in [Requests -> ReqStates] /\ inner \in [Requests -> InnerStates]
      /\ own \in [Requests -> 0..MaxTotal] /\ peer \in [Requests -> 0..MaxTotal]
      /\ own_low \in [Requests -> 0..MaxTotal] /\ peer_low \in [Requests -> 0..MaxTotal]
      /\ crashes \in 0..MaxCrashes
  BY StatesType
<1> DEFINE Rest == /\ at' \in [Requests -> Instances]
                   /\ req' \in [Requests -> ReqStates]
                   /\ inner' \in [Requests -> InnerStates]
                   /\ own' \in [Requests -> 0..MaxTotal]
                   /\ peer' \in [Requests -> 0..MaxTotal]
                   /\ own_low' \in [Requests -> 0..MaxTotal]
                   /\ peer_low' \in [Requests -> 0..MaxTotal]
<1>2. ASSUME Rest, UNCHANGED <<up, total, crashes>>
      PROVE  TypeOK'
  BY <1>1, <1>2 DEF TypeOK, ReqStates, InnerStates
<1>3. ASSUME NEW i \in Instances, StoreProcessed(i)
      PROVE  TypeOK'
  <2>1. total' = [total EXCEPT ![i] = @ + 1]
    BY <1>3 DEF StoreProcessed
  <2>2. total[i] \in Nat /\ total[Other(i)] \in Nat /\ total[i] + total[Other(i)] < MaxTotal
    BY <1>1, <1>3, OtherType DEF StoreProcessed
  <2>3. total' \in [Instances -> 0..MaxTotal]
    BY <1>0, <1>1, <2>1, <2>2
  <2>4. UNCHANGED <<up, at, req, inner, own, peer, own_low, peer_low, crashes>>
    BY <1>3 DEF StoreProcessed, parts, lows
  <2> QED
    BY <1>1, <2>3, <2>4 DEF TypeOK, ReqStates, InnerStates
<1>4. ASSUME NEW i \in Instances, Crash(i)
      PROVE  TypeOK'
  <2>1. total' \in [Instances -> 0..MaxTotal]
    BY <1>0, <1>1, <1>4 DEF Crash
  <2>2. crashes' \in 0..MaxCrashes /\ up' \in [Instances -> BOOLEAN]
    BY <1>0, <1>1, <1>4 DEF Crash
  <2>3. Rest
    BY <1>0, <1>1, <1>4 DEF Crash, ReqStates, InnerStates
  <2> QED
    BY <2>1, <2>2, <2>3 DEF TypeOK, ReqStates, InnerStates
<1>5. ASSUME NEW i \in Instances, Restart(i)
      PROVE  TypeOK'
  BY <1>1, <1>5 DEF Restart, parts, lows, TypeOK, ReqStates, InnerStates
<1>6. ASSUME NEW r \in Requests, Arrive(r)
      PROVE  TypeOK'
  <2>1. total[at[r]] \in 0..MaxTotal /\ total[Other(at[r])] \in 0..MaxTotal
    BY <1>1, OtherType
  <2>2. Rest
    BY <1>1, <1>6, <2>1 DEF Arrive, ReqStates
  <2> QED
    BY <1>2, <1>6, <2>2 DEF Arrive
<1>7. ASSUME NEW r \in Requests, Respond(r)
      PROVE  TypeOK'
  <2>1. Rest
    BY <1>0, <1>1, <1>7 DEF Respond, Sent, ReqStates, InnerStates
  <2> QED
    BY <1>2, <1>7, <2>1 DEF Respond
<1>8. ASSUME NEW r \in Requests,
             Handle(r) \/ LocalQuery(r) \/ HandleInternal(r) \/ RespondInternal(r)
                \/ CallFails(r) \/ GoSilent(r)
      PROVE  TypeOK'
  <2>1. total[at[r]] \in 0..MaxTotal /\ total[Other(at[r])] \in 0..MaxTotal
    BY <1>1, OtherType
  <2>2. Rest
    BY <1>1, <1>8, <2>1 DEF Handle, LocalQuery, HandleInternal, RespondInternal, CallFails,
                            GoSilent, parts, lows, ReqStates, InnerStates
  <2> QED
    BY <1>2, <1>8, <2>2 DEF Handle, LocalQuery, HandleInternal, RespondInternal, CallFails,
                            GoSilent
<1>9. CASE UNCHANGED vars
  BY <1>1, <1>2, <1>9 DEF vars, parts, lows
<1> QED
  BY <1>3, <1>4, <1>5, <1>6, <1>7, <1>8, <1>9 DEF Next, Serve

\* Initially every variable has its type.
LEMMA TypeInit == Init => TypeOK
<1> SUFFICES ASSUME Init PROVE TypeOK
  OBVIOUS
<1>0. 0 \in 0..MaxTotal /\ 0 \in 0..MaxCrashes /\ MaxTotal \in Nat
  BY FanoutAssumption
<1>1. up \in [Instances -> BOOLEAN]
  BY DEF Init
<1> QED
  BY <1>0, <1>1 DEF Init, TypeOK

\* The states of requests and calls, and the sums in them, have their types.
THEOREM TypeCorrect == Spec => []TypeOK
BY TypeInit, TypeStep, PTL DEF Spec

(***************************************************************************)
(* The answer covers both instances.                                       *)
(***************************************************************************)

\* What the local query will find at least, and what the call will.
OwnPart(r)  == IF req[r] = "waiting" THEN own[r] ELSE total[at[r]]
PeerPart(r) == IF inner[r] = "replied" THEN peer[r] ELSE total[Other(at[r])]

\* What the invariant says of one request: the parts of its answer that are
\* collected already, with the totals for the parts that are not, cover the
\* totals as they were, unless the call failed.
PartInv(r) ==
  /\ req[r] \in {"new", "queued"} => inner[r] = "none"
  /\ inner[r] # "replied" => peer[r] = 0
  /\ crashes = 0 => peer[r] <= total[Other(at[r])]
  /\ req[r] = "waiting" => own[r] <= total[at[r]]
  /\ req[r] \in {"queued", "running", "waiting"} =>
       own_low[r] <= OwnPart(r) /\ (inner[r] # "failed" => peer_low[r] <= PeerPart(r))

\* A request that is left alone by a step in which totals may grow.
LEMMA PartKept ==
  ASSUME TypeOK, NEW r \in Requests, PartInv(r), crashes' = crashes,
         at'[r] = at[r], req'[r] = req[r], inner'[r] = inner[r],
         own'[r] = own[r], peer'[r] = peer[r],
         own_low'[r] = own_low[r], peer_low'[r] = peer_low[r],
         \A i \in Instances : total'[i] \in Nat /\ total[i] <= total'[i]
  PROVE  PartInv(r)'
<1>1. PICK i, j : i = at[r] /\ j = Other(at[r])
  OBVIOUS
<1>2. /\ i \in Instances /\ j \in Instances
      /\ total[i] \in Nat /\ total[j] \in Nat /\ own[r] \in Nat /\ peer[r] \in Nat
      /\ own_low[r] \in Nat /\ peer_low[r] \in Nat
  BY <1>1, StatesType, OtherType, FanoutAssumption
<1>3. Other(at[r])' = j /\ at'[r] = i
  BY <1>1 DEF Other
<1>4. total'[i] \in Nat /\ total[i] <= total'[i] /\ total'[j] \in Nat /\ total[j] <= total'[j]
  BY <1>2
<1> QED
  BY <1>1, <1>2, <1>3, <1>4, SMT, SMTT(20) DEF PartInv, OwnPart, PeerPart

\* A crash: the requests of the instance are gone, and of what the other one's
\* requests ask it for only the replies are left.
LEMMA PartCrash ==
  ASSUME TypeOK, NEW x \in Requests, PartInv(x), NEW k \in Instances, Crash(k)
  PROVE  PartInv(x)'
<1>1. PICK i, j : i = at[x] /\ j = Other(at[x])
  OBVIOUS
<1>2. /\ i \in Instances /\ j \in Instances /\ i # j /\ (k = i \/ k = j)
      /\ total[i] \in Nat /\ total[j] \in Nat /\ own[x] \in Nat /\ peer[x] \in Nat
      /\ own_low[x] \in Nat /\ peer_low[x] \in Nat /\ crashes \in Nat
      /\ total \in [Instances -> 0..MaxTotal]
  BY <1>1, StatesType, OtherType, FanoutAssumption
<1>3. at' = at /\ peer' = peer /\ crashes' = crashes + 1
  BY DEF Crash
<1>4. Other(at[x])' = j /\ at'[x] = i
  BY <1>1, <1>3 DEF Other
<1>5. /\ total'[i] = IF k = i THEN 0 ELSE total[i]
      /\ total'[j] = IF k = j THEN 0 ELSE total[j]
  BY <1>2 DEF Crash
<1> DEFINE died == k = i /\ req[x] \in {"queued", "running", "waiting"}
<1>6. /\ req'[x] = IF died THEN "failed" ELSE req[x]
      /\ inner'[x] = IF k = j /\ inner[x] \in {"calling", "running"} THEN "failed" ELSE inner[x]
  BY <1>1 DEF Crash
<1>7. /\ own'[x] = IF died THEN 0 ELSE own[x]
      /\ own_low'[x] = IF died THEN 0 ELSE own_low[x]
      /\ peer_low'[x] = IF died \/ (k = j /\ inner[x] # "replied") THEN 0 ELSE peer_low[x]
  BY <1>1 DEF Crash
<1>8. crashes' # 0 /\ peer'[x] = peer[x]
  BY <1>2, <1>3
<1>9. /\ inner'[x] # "replied" => peer'[x] = 0
      /\ req'[x] \in {"new", "queued"} => inner'[x] = "none"
  BY <1>6, <1>8 DEF PartInv
<1>10. CASE died
  <2>1. req'[x] = "failed"
    BY <1>6, <1>10
  <2> QED
    BY <1>8, <1>9, <2>1 DEF PartInv
<1>11. CASE req[x] \notin {"queued", "running", "waiting"}
  <2>1. req'[x] = req[x]
    BY <1>6, <1>11
  <2> QED
    BY <1>8, <1>9, <1>11, <2>1 DEF PartInv
<1>12. CASE k # i /\ req[x] \in {"queued", "running", "waiting"}
  <2>1. /\ k = j /\ req'[x] = req[x] /\ own'[x] = own[x] /\ own_low'[x] = own_low[x]
        /\ total'[i] = total[i] /\ total'[j] = 0
    BY <1>2, <1>5, <1>6, <1>7, <1>12
  <2>2. own_low'[x] <= OwnPart(x)' /\ (req'[x] = "waiting" => own'[x] <= total'[i])
    BY <1>1, <1>4, <1>12, <2>1 DEF PartInv, OwnPart
  <2>3. inner'[x] # "failed" => peer_low'[x] <= PeerPart(x)'
    <3>1. CASE inner[x] = "replied"
      <4>1. inner'[x] = "replied" /\ peer_low'[x] = peer_low[x]
        BY <1>6, <1>7, <1>12, <3>1
      <4> QED
        BY <1>8, <1>12, <3>1, <4>1 DEF PartInv, PeerPart
    <3>2. CASE inner[x] # "replied"
      <4>1. inner'[x] # "replied" /\ peer_low'[x] = 0
        BY <1>6, <1>7, <2>1, <3>2
      <4> QED
        BY <1>4, <2>1, <4>1 DEF PeerPart
    <3> QED
      BY <3>1, <3>2
  <2> QED
    BY <1>4, <1>8, <1>9, <2>2, <2>3 DEF PartInv
<1> QED
  BY <1>10, <1>11, <1>12

\* Every step keeps the parts complete.
LEMMA PartStep ==
  TypeOK /\ (\A r \in Requests : PartInv(r)) /\ [Next]_vars
    => \A r \in Requests : PartInv(r)'
<1> SUFFICES ASSUME TypeOK, \A r \in Requests : PartInv(r), [Next]_vars
             PROVE  \A r \in Requests : PartInv(r)'
  OBVIOUS
<1>0. /\ at \in [Requests -> Instances]
      /\ total \in [Instances -> 0..MaxTotal]
      /\ req \in [Requests -> ReqStates] /\ inner \in [Requests -> InnerStates]
      /\ own \in [Requests -> 0..MaxTotal] /\ peer \in [Requests -> 0..MaxTotal]
      /\ own_low \in [Requests -> 0..MaxTotal] /\ peer_low \in [Requests -> 0..MaxTotal]
      /\ crashes \in Nat /\ MaxTotal \in Nat
      /\ \A i \in Instances : total[i] \in Nat
  BY StatesType, FanoutAssumption
<1>1. ASSUME NEW j \in Instances, StoreProcessed(j)
      PROVE  \A r \in Requests : PartInv(r)'
  <2>1. \A i \in Instances : total'[i] \in Nat /\ total[i] <= total'[i]
    BY <1>0, <1>1 DEF StoreProcessed
  <2> QED
    BY <1>1, <2>1, PartKept DEF StoreProcessed, parts, lows
<1>2. ASSUME NEW j \in Instances, Restart(j)
      PROVE  \A r \in Requests : PartInv(r)'
  BY <1>0, <1>2, PartKept DEF Restart, parts, lows
<1>3. ASSUME NEW r \in Requests, Arrive(r) \/ Serve(r) \/ CallFails(r) \/ GoSilent(r)
      PROVE  \A x \in Requests : PartInv(x)'
  <2>0. total' = total /\ crashes' = crashes /\ at' = at
    BY <1>3 DEF Arrive, Serve, Handle, LocalQuery, Respond, HandleInternal,
                RespondInternal, CallFails, GoSilent
  <2>1. ASSUME NEW x \in Requests \ {r}
        PROVE  PartInv(x)'
    <3>1. /\ req'[x] = req[x] /\ inner'[x] = inner[x]
          /\ own'[x] = own[x] /\ peer'[x] = peer[x]
          /\ own_low'[x] = own_low[x] /\ peer_low'[x] = peer_low[x]
      BY <1>0, <1>3 DEF Arrive, Serve, Handle, LocalQuery, Respond, Sent, HandleInternal,
                        RespondInternal, CallFails, GoSilent, parts, lows
    <3>2. \A i \in Instances : total'[i] \in Nat /\ total[i] <= total'[i]
      BY <1>0, <2>0
    <3> QED
      BY <2>0, <3>1, <3>2, PartKept
  <2>2. PICK i, j : i = at[r] /\ j = Other(at[r])
    OBVIOUS
  <2>3. /\ i \in Instances /\ j \in Instances
        /\ total[i] \in Nat /\ total[j] \in Nat /\ own[r] \in Nat /\ peer[r] \in Nat
        /\ own_low[r] \in Nat /\ peer_low[r] \in Nat
    BY <1>0, <2>2, OtherType
  <2>4. /\ Other(at[r])' = j /\ at'[r] = i
        /\ total'[i] = total[i] /\ total'[j] = total[j]
    BY <2>0, <2>2 DEF Other
  <2>5. PartInv(r)
    OBVIOUS
  <2> DEFINE Same == own'[r] = own[r] /\ own_low'[r] = own_low[r] /\ peer_low'[r] = peer_low[r]
  <2>6. CASE Arrive(r)
    <3>1. /\ req[r] = "new" /\ req'[r] = "queued" /\ inner'[r] = inner[r]
          /\ own_low'[r] = total[i] /\ peer_low'[r] = total[j]
          /\ own'[r] = own[r] /\ peer'[r] = peer[r]
      BY <1>0, <2>2, <2>6 DEF Arrive
    <3> QED
      BY <2>0, <2>1, <2>2, <2>3, <2>4, <2>5, <3>1, SMT, SMTT(20) DEF PartInv, OwnPart, PeerPart
  <2>7. CASE Handle(r)
    <3>1. /\ req[r] = "queued" /\ req'[r] = "running" /\ inner'[r] \in {"calling", "failed"}
          /\ Same /\ peer'[r] = peer[r]
      BY <1>0, <2>7 DEF Handle, parts, lows
    <3> QED
      BY <2>0, <2>1, <2>2, <2>3, <2>4, <2>5, <3>1, SMT, SMTT(20) DEF PartInv, OwnPart, PeerPart
  <2>8. CASE LocalQuery(r)
    <3>1. /\ req[r] = "running" /\ req'[r] = "waiting" /\ inner'[r] = inner[r]
          /\ own'[r] = total[i] /\ peer'[r] = peer[r]
          /\ own_low'[r] = own_low[r] /\ peer_low'[r] = peer_low[r]
      BY <1>0, <2>2, <2>8 DEF LocalQuery, lows
    <3> QED
      BY <2>0, <2>1, <2>2, <2>3, <2>4, <2>5, <3>1, SMT, SMTT(20) DEF PartInv, OwnPart, PeerPart
  <2>9. CASE Respond(r)
    <3>1. req'[r] = "answered" /\ inner'[r] = "none" /\ peer'[r] = 0
      BY <1>0, <2>9 DEF Respond, Sent
    <3> QED
      BY <2>0, <2>1, <2>3, <2>4, <3>1, SMT, SMTT(20) DEF PartInv
  <2>10. CASE HandleInternal(r) \/ CallFails(r) \/ GoSilent(r)
    <3>1. /\ inner[r] \in {"calling", "running"}
          /\ inner'[r] \in {"running", "failed", "silent"}
          /\ req'[r] = req[r] /\ Same /\ peer'[r] = peer[r]
      BY <1>0, <2>10 DEF HandleInternal, CallFails, GoSilent, parts, lows
    <3> QED
      BY <2>0, <2>1, <2>2, <2>3, <2>4, <2>5, <3>1, SMT, SMTT(20) DEF PartInv, OwnPart, PeerPart
  <2>11. CASE RespondInternal(r)
    <3>1. /\ inner[r] = "running" /\ inner'[r] = "replied" /\ req'[r] = req[r]
          /\ Same /\ peer'[r] = total[j]
      BY <1>0, <2>2, <2>11 DEF RespondInternal, lows
    <3> QED
      BY <2>0, <2>1, <2>2, <2>3, <2>4, <2>5, <3>1, SMT, SMTT(20) DEF PartInv, OwnPart, PeerPart
  <2> QED
    BY <1>3, <2>6, <2>7, <2>8, <2>9, <2>10, <2>11 DEF Serve
<1>4. CASE UNCHANGED vars
  BY <1>0, <1>4, PartKept DEF vars, parts, lows
<1> QED
  BY <1>1, <1>2, <1>3, <1>4, PartCrash DEF Next

\* payments_summary_handler sends no less than was stored here when the request
\* came in, and there unless the call failed or a crash wiped it out, and no more
\* than is stored, for every number of requests, threads, payments and crashes.
THEOREM AnswersAreComplete == Spec => AnswerComplete
<1> DEFINE Parts == \A r \in Requests : PartInv(r)
           Covers(r) == /\ own_low[r] <= own[r] /\ own[r] <= total[at[r]]
                        /\ IF inner[r] = "failed" THEN peer[r] = 0 ELSE peer_low[r] <= peer[r]
                        /\ crashes = 0 => peer[r] <= total[Other(at[r])]
<1>1. Init => Parts
  <2> SUFFICES ASSUME Init, NEW r \in Requests
               PROVE  PartInv(r)
    OBVIOUS
  <2>1. at[r] \in Instances /\ Other(at[r]) \in Instances
    BY OtherType DEF Init
  <2> QED
    BY <2>1 DEF Init, PartInv
<1>2. TypeOK /\ Parts /\ [Next]_vars => Parts'
  BY PartStep
<1>3. ASSUME TypeOK, Parts, [Next]_vars, NEW r \in Requests,
             req[r] = "waiting", req'[r] = "answered"
      PROVE  Covers(r)
  <2>0. req \in [Requests -> ReqStates]
    BY <1>3, StatesType
  <2>1. Respond(r)
    BY <1>3, <2>0, Zenon DEF Next, Serve, StoreProcessed, Arrive, Handle, LocalQuery, Respond, Sent,
         HandleInternal, RespondInternal, CallFails, GoSilent, Crash, Restart, vars
  <2>2. inner[r] \in {"replied", "failed"} /\ PartInv(r)
    BY <1>3, <2>1 DEF Respond
  <2> QED
    BY <1>3, <2>2 DEF PartInv, OwnPart, PeerPart
<1>4. TypeOK /\ Parts /\ [Next]_vars =>
        [\A r \in Requests : req[r] = "waiting" /\ req'[r] = "answered" => Covers(r)]_vars
  BY <1>3
<1> QED
  BY <1>1, <1>2, <1>4, TypeInit, TypeStep, PTL DEF Spec, AnswerComplete

(***************************************************************************)
(* No gridlock: the safety half of EverySummaryAnswered.                   *)
(***************************************************************************)

Clients(i)   == {r \in Requests : at[r] = i /\ req[r] \in {"running", "waiting"}}
Internals(i) == {r \in Requests : Other(at[r]) = i /\ inner[r] = "running"}

\* Threads are counted by the requests that hold them.
LEMMA BusyParts ==
  ASSUME NEW i
  PROVE  /\ IsFiniteSet(Clients(i)) /\ IsFiniteSet(Internals(i))
         /\ IsFiniteSet(Clients(i)') /\ IsFiniteSet(Internals(i)')
         /\ Cardinality(Clients(i)) \in Nat /\ Cardinality(Internals(i)) \in Nat
         /\ Cardinality(Clients(i)') \in Nat /\ Cardinality(Internals(i)') \in Nat
         /\ Busy(i) = Cardinality(Clients(i)) + Cardinality(Internals(i))
         /\ Busy(i)' = Cardinality(Clients(i)') + Cardinality(Internals(i)')
<1>1. /\ IsFiniteSet(Clients(i)) /\ IsFiniteSet(Internals(i))
      /\ IsFiniteSet(Clients(i)') /\ IsFiniteSet(Internals(i)')
  BY FanoutAssumption, FS_Subset DEF Clients, Internals
<1> QED
  BY <1>1, FS_CardinalityType DEF Busy, Clients, Internals

Silent == {r \in Requests : inner[r] = "silent"}

\* Requests and calls are under way only at instances that are up, and a handler
\* that has begun has made its call.
CallInv(r) ==
  /\ req[r] \in {"queued", "running", "waiting"} => up[at[r]]
  /\ req[r] \in {"running", "waiting"} => inner[r] # "none"
  /\ inner[r] = "calling" => up[Other(at[r])]

SilenceInv == Cardinality(Silent) <= MaxSilences

\* Every step keeps what CallInv says of each request.
LEMMA CallStep ==
  TypeOK /\ (\A r \in Requests : CallInv(r)) /\ [Next]_vars
    => \A r \in Requests : CallInv(r)'
<1> SUFFICES ASSUME TypeOK, \A r \in Requests : CallInv(r), [Next]_vars,
                    NEW x \in Requests
             PROVE  CallInv(x)'
  OBVIOUS
<1>0. /\ at \in [Requests -> Instances] /\ up \in [Instances -> BOOLEAN]
      /\ req \in [Requests -> ReqStates] /\ inner \in [Requests -> InnerStates]
      /\ CallInv(x)
  BY StatesType
<1>1. PICK i, j : i = at[x] /\ j = Other(at[x])
  OBVIOUS
<1>2. i \in Instances /\ j \in Instances /\ i # j
  BY <1>0, <1>1, OtherType
<1>3. at' = at
  BY DEF Next, Serve, StoreProcessed, Arrive, Handle, LocalQuery, Respond, HandleInternal,
         RespondInternal, CallFails, GoSilent, Crash, Restart, vars
<1>4. at'[x] = i /\ Other(at[x])' = j
  BY <1>1, <1>3 DEF Other
<1>5. ASSUME req'[x] = req[x], inner'[x] = inner[x], up[i] => up'[i], up[j] => up'[j]
      PROVE  CallInv(x)'
  BY <1>0, <1>1, <1>4, <1>5 DEF CallInv
<1>6. ASSUME NEW k \in Instances, StoreProcessed(k)
      PROVE  CallInv(x)'
  BY <1>5, <1>6 DEF StoreProcessed
<1>7. ASSUME NEW k \in Instances, Restart(k)
      PROVE  CallInv(x)'
  BY <1>0, <1>2, <1>5, <1>7 DEF Restart
<1>8. ASSUME NEW k \in Instances, Crash(k)
      PROVE  CallInv(x)'
  <2>1. /\ up'[i] = IF k = i THEN FALSE ELSE up[i]
        /\ up'[j] = IF k = j THEN FALSE ELSE up[j]
    BY <1>0, <1>2, <1>8 DEF Crash
  <2>2. /\ req'[x] = IF i = k /\ req[x] \in {"queued", "running", "waiting"}
                       THEN "failed" ELSE req[x]
        /\ inner'[x] = IF j = k /\ inner[x] \in {"calling", "running"}
                         THEN "failed" ELSE inner[x]
    BY <1>1, <1>8 DEF Crash
  <2> QED
    BY <1>0, <1>1, <1>4, <2>1, <2>2 DEF CallInv
<1>9. ASSUME NEW r \in Requests, Arrive(r) \/ Serve(r) \/ CallFails(r) \/ GoSilent(r)
      PROVE  CallInv(x)'
  <2>1. up' = up
    BY <1>9 DEF Arrive, Serve, Handle, LocalQuery, Respond, HandleInternal,
                RespondInternal, CallFails, GoSilent
  <2>2. CASE x # r
    <3>1. req'[x] = req[x] /\ inner'[x] = inner[x]
      BY <1>0, <1>9, <2>2 DEF Arrive, Serve, Handle, LocalQuery, Respond, Sent,
                              HandleInternal, RespondInternal, CallFails, GoSilent
    <3> QED
      BY <1>5, <2>1, <3>1
  <2>3. CASE x = r
    <3>1. \/ req[x] = "new" /\ req'[x] = "queued" /\ inner'[x] = inner[x] /\ up[i]
          \/ /\ req[x] = "queued" /\ req'[x] = "running"
             /\ inner'[x] = IF up[j] THEN "calling" ELSE "failed"
          \/ req[x] = "running" /\ req'[x] = "waiting" /\ inner'[x] = inner[x]
          \/ req'[x] = "answered" /\ inner'[x] = "none"
          \/ req'[x] = req[x] /\ inner'[x] \in {"running", "replied", "failed", "silent"}
      BY <1>0, <1>1, <1>9, <2>3 DEF Arrive, Serve, Handle, LocalQuery, Respond, Sent,
                                    HandleInternal, RespondInternal, CallFails, GoSilent
    <3> QED
      BY <1>0, <1>1, <1>4, <2>1, <3>1 DEF CallInv
  <2> QED
    BY <2>2, <2>3
<1>10. CASE UNCHANGED vars
  BY <1>5, <1>10 DEF vars
<1> QED
  BY <1>6, <1>7, <1>8, <1>9, <1>10 DEF Next

\* No more calls fall silent than the network swallows.
LEMMA SilenceStep == TypeOK /\ SilenceInv /\ [Next]_vars => SilenceInv'
<1> SUFFICES ASSUME TypeOK, SilenceInv, [Next]_vars
             PROVE  SilenceInv'
  OBVIOUS
<1>0. inner \in [Requests -> InnerStates] /\ MaxSilences \in Nat
  BY StatesType, FanoutAssumption
<1>1. IsFiniteSet(Silent) /\ Cardinality(Silent) \in Nat
  BY FanoutAssumption, FS_Subset, FS_CardinalityType DEF Silent
<1>2. ASSUME Silent' \subseteq Silent
      PROVE  SilenceInv'
  <2>1. Cardinality(Silent') <= Cardinality(Silent) /\ Cardinality(Silent') \in Nat
    BY <1>1, <1>2, FS_Subset, FS_CardinalityType
  <2> QED
    BY <1>0, <1>1, <2>1 DEF SilenceInv
<1>3. ASSUME NEW r \in Requests, GoSilent(r)
      PROVE  SilenceInv'
  <2>1. Silent' = Silent \cup {r} /\ Cardinality(Silent) < MaxSilences
    BY <1>0, <1>3 DEF GoSilent, Silent
  <2>2. r \notin Silent
    BY <1>3 DEF GoSilent, Silent
  <2>3. Cardinality(Silent \cup {r}) = Cardinality(Silent) + 1
    BY <1>1, <2>2, FS_AddElement, Zenon
  <2>4. Cardinality(Silent') = Cardinality(Silent) + 1
    BY <2>1, <2>3
  <2> QED
    BY <1>0, <1>1, <2>1, <2>4 DEF SilenceInv
<1>4. ASSUME NEW r \in Requests, Arrive(r) \/ Serve(r) \/ CallFails(r)
      PROVE  SilenceInv'
  <2>1. \A x \in Requests : inner'[x] = "silent" => inner[x] = "silent"
    BY <1>0, <1>4 DEF Arrive, Serve, Handle, LocalQuery, Respond, Sent, HandleInternal,
                      RespondInternal, CallFails
  <2> QED
    BY <1>2, <2>1 DEF Silent
<1>5. ASSUME NEW i \in Instances, Crash(i)
      PROVE  SilenceInv'
  <2>1. \A x \in Requests : inner'[x] = "silent" => inner[x] = "silent"
    BY <1>5 DEF Crash
  <2> QED
    BY <1>2, <2>1 DEF Silent
<1>6. ASSUME inner' = inner
      PROVE  SilenceInv'
  BY <1>2, <1>6 DEF Silent
<1> QED
  BY <1>3, <1>4, <1>5, <1>6 DEF Next, StoreProcessed, Restart, vars

\* The threads that nobody gives back: all threads of an instance taken, with
\* no handler that can go on, means all threads of both.
LEMMA BothFull ==
  ASSUME TypeOK, \A r \in Requests : CallInv(r), SilenceInv, MaxSilences < Concurrency,
         \A r \in Requests : ~CanGoOn(r),
         NEW i \in Instances, up[i], ~Thread(i)
  PROVE  2 * Concurrency <= Cardinality(Requests)
<1>0. /\ at \in [Requests -> Instances]
      /\ req \in [Requests -> ReqStates] /\ inner \in [Requests -> InnerStates]
      /\ Concurrency \in Nat /\ MaxSilences \in Nat /\ IsFiniteSet(Requests)
  BY StatesType, FanoutAssumption
<1>1. ASSUME NEW k \in Instances, up[k], ~Thread(k)
      PROVE  Concurrency <= Cardinality(Clients(k))
  <2>1. Internals(k) = {}
    BY DEF Internals, CanGoOn
  <2>2. Cardinality(Internals(k)) = 0
    BY <2>1, FS_EmptySet
  <2>3. ~(Busy(k) < Concurrency)
    BY <1>1 DEF Thread
  <2> QED
    BY <1>0, <2>2, <2>3, BusyParts
<1>2. \A r \in Clients(i) : inner[r] \in {"calling", "silent"}
  BY <1>0 DEF Clients, CallInv, CanGoOn, InnerStates
<1>3. PICK x \in Clients(i) : inner[x] = "calling"
  <2>1. SUFFICES ASSUME \A r \in Clients(i) : inner[r] = "silent"
                 PROVE  FALSE
    BY <1>2
  <2>2. Clients(i) \subseteq Silent
    BY <2>1 DEF Clients, Silent
  <2>3. IsFiniteSet(Silent) /\ Cardinality(Silent) \in Nat
    BY <1>0, FS_Subset, FS_CardinalityType DEF Silent
  <2>4. Cardinality(Clients(i)) <= Cardinality(Silent)
    BY <2>2, <2>3, FS_Subset
  <2> QED
    BY <1>0, <1>1, <2>3, <2>4, BusyParts DEF SilenceInv
<1>4. PICK j : j = Other(i)
  OBVIOUS
<1>5. j \in Instances /\ j # i
  BY <1>4, OtherType
<1>6. x \in Requests /\ at[x] = i
  BY <1>3 DEF Clients
<1>7. up[j] /\ ~Thread(j)
  BY <1>3, <1>4, <1>6 DEF CallInv, CanGoOn
<1>8. Concurrency <= Cardinality(Clients(i)) /\ Concurrency <= Cardinality(Clients(j))
  BY <1>1, <1>5, <1>7
<1>9. Clients(i) \cap Clients(j) = {} /\ Clients(i) \cup Clients(j) \subseteq Requests
  BY <1>5 DEF Clients
<1>10. Cardinality(Clients(i) \cup Clients(j))
         = Cardinality(Clients(i)) + Cardinality(Clients(j))
  <2>1. Cardinality(Clients(i) \cup Clients(j))
          = Cardinality(Clients(i)) + Cardinality(Clients(j))
              - Cardinality(Clients(i) \cap Clients(j))
    BY BusyParts, FS_Union
  <2>2. Cardinality(Clients(i) \cap Clients(j)) = 0
    BY <1>9, FS_EmptySet
  <2> QED
    BY <2>1, <2>2, BusyParts
<1>11. /\ Cardinality(Clients(i) \cup Clients(j)) <= Cardinality(Requests)
       /\ Cardinality(Requests) \in Nat
  BY <1>0, <1>9, FS_Subset, FS_CardinalityType
<1> QED
  BY <1>0, <1>8, <1>10, <1>11, BusyParts

\* payments_summary_handler blocks its REST thread on the other instance, which
\* may block all of its threads on this one.  With fewer client requests under
\* way than the two instances have threads, and fewer lost replies than one has,
\* that never happens: while a client waits for a reply that can come, some
\* handler can take a step, whatever crashes and whichever calls fail.
THEOREM NoGridlock == Spec => []NeverGridlocked
<1> DEFINE Inv == (\A r \in Requests : CallInv(r)) /\ SilenceInv
<1>1. Init => Inv
  <2> SUFFICES ASSUME Init PROVE Inv
    OBVIOUS
  <2>1. \A r \in Requests : CallInv(r)
    BY DEF Init, CallInv
  <2>2. Silent = {}
    BY DEF Init, Silent
  <2>3. Cardinality(Silent) <= MaxSilences
    BY <2>2, FS_EmptySet, FanoutAssumption
  <2> QED
    BY <2>1, <2>3 DEF SilenceInv
<1>2. TypeOK /\ Inv /\ [Next]_vars => Inv'
  BY CallStep, SilenceStep
<1>3. ASSUME TypeOK, Inv
      PROVE  NeverGridlocked
  <2> SUFFICES ASSUME EnoughThreads, NEW r \in Requests, req[r] \in {"queued", "running", "waiting"},
                      inner[r] # "silent", \A x \in Requests : ~CanGoOn(x)
               PROVE  FALSE
    BY DEF NeverGridlocked
  <2>1. /\ at[r] \in Instances /\ Other(at[r]) \in Instances
        /\ inner[r] \in InnerStates /\ CallInv(r) /\ ~CanGoOn(r)
    BY <1>3, StatesType, OtherType
  <2>2. \E i \in Instances : up[i] /\ ~Thread(i)
    <3>1. CASE req[r] = "queued"
      BY <2>1, <3>1 DEF CallInv, CanGoOn
    <3>2. CASE req[r] # "queued"
      <4>1. inner[r] = "calling"
        BY <2>1, <3>2 DEF CallInv, CanGoOn, InnerStates
      <4> QED
        BY <2>1, <4>1 DEF CallInv, CanGoOn
    <3> QED
      BY <3>1, <3>2
  <2>3. 2 * Concurrency <= Cardinality(Requests)
    BY <1>3, <2>2, BothFull DEF EnoughThreads
  <2>4. Cardinality(Requests) \in Nat /\ Concurrency \in Nat
    BY FanoutAssumption, FS_CardinalityType
  <2> QED
    BY <1>3, <2>3, <2>4 DEF EnoughThreads
<1>4. TypeOK /\ Inv => NeverGridlocked
  BY <1>3
<1> QED
  BY <1>1, <1>2, <1>4, TypeInit, TypeStep, PTL DEF Spec
==============================================================================
