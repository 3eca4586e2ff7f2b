---------------------------- MODULE SummaryFanout -----------------------------
(***************************************************************************)
(* GET /payments-summary over two instances.  The instance a client        *)
(* reaches asks the other one for its totals from a thread of its own      *)
(* (call_other_instance under std::async), runs its own query, and then    *)
(* blocks its REST thread on the future.  An internal request is answered  *)
(* from the local totals alone.  Each instance has Concurrency REST        *)
(* threads, which restbed takes from CONCURRENCY, and totals that a crash  *)
(* wipes out.  A call that fails counts as zeros.  No timeout is set on    *)
(* it: a request or a reply that the network swallows leaves the caller    *)
(* waiting for good.                                                       *)
(***************************************************************************)
EXTENDS Integers, FiniteSets

CONSTANTS
  Instances,     \* the two instances behind the balancer
  Requests,      \* client requests for the summary
  Concurrency,   \* REST threads of an instance
  MaxTotal,      \* bound: payments the instances have processed
  MaxCrashes,    \* bound: crashes in a behaviour
  MaxSilences    \* bound: calls between instances that are never answered

ASSUME FanoutAssumption ==
  /\ IsFiniteSet(Instances) /\ Cardinality(Instances) = 2
  /\ IsFiniteSet(Requests)
  /\ Concurrency \in Nat \ {0}
  /\ MaxTotal \in Nat /\ MaxCrashes \in Nat /\ MaxSilences \in Nat

\* OTHER_INSTANCE_URL
Other(i) == CHOOSE j \in Instances : j # i

VARIABLES
  up,        \* per instance: the process is running
  total,     \* per instance: payments in its buckets
  at,        \* per request: the instance the balancer picked
  req,       \* per request: new, queued, running, waiting, answered, failed
  inner,     \* per request: its call to the other instance
  own,       \* per request: what the local query returned
  peer,      \* per request: what call_other_instance returned
  own_low,   \* history: the total here when the request was accepted
  peer_low,  \* history: the total there, or 0 once a crash has wiped it out
  crashes    \* number of crashes

lows  == <<own_low, peer_low>>
parts == <<own, peer, lows>>
vars  == <<up, total, at, req, inner, parts, crashes>>

\* REST threads of i in use: by client requests and by internal ones.
Busy(i) ==
  Cardinality({r \in Requests : at[r] = i /\ req[r] \in {"running", "waiting"}})
    + Cardinality({r \in Requests : Other(at[r]) = i /\ inner[r] = "running"})

\* Mutated form: one thread fewer than configured takes requests.
ThreadOneShort(i) == up[i] /\ Busy(i) < Concurrency - 1

Thread(i) == up[i] /\ Busy(i) < Concurrency

Init ==
  /\ up = [i \in Instances |-> TRUE]
  /\ total = [i \in Instances |-> 0]
  /\ at \in [Requests -> Instances]
  /\ req = [r \in Requests |-> "new"]
  /\ inner = [r \in Requests |-> "none"]
  /\ own = [r \in Requests |-> 0]
  /\ peer = [r \in Requests |-> 0]
  /\ own_low = [r \in Requests |-> 0]
  /\ peer_low = [r \in Requests |-> 0]
  /\ crashes = 0

\* A worker stores a processed payment.
StoreProcessed(i) ==
  /\ up[i] /\ total[i] + total[Other(i)] < MaxTotal
  /\ total' = [total EXCEPT ![i] = @ + 1]
  /\ UNCHANGED <<up, at, req, inner, parts, crashes>>

Arrive(r) ==
  /\ req[r] = "new" /\ up[at[r]]
  /\ req' = [req EXCEPT ![r] = "queued"]
  /\ own_low' = [own_low EXCEPT ![r] = total[at[r]]]
  /\ peer_low' = [peer_low EXCEPT ![r] = total[Other(at[r])]]
  /\ UNCHANGED <<up, total, at, inner, own, peer, crashes>>

\* The answer is sent, and the handler's locals are gone.
Sent(r) ==
  /\ req' = [req EXCEPT ![r] = "answered"]
  /\ inner' = [inner EXCEPT ![r] = "none"]
  /\ own' = [own EXCEPT ![r] = 0]
  /\ peer' = [peer EXCEPT ![r] = 0]
  /\ own_low' = [own_low EXCEPT ![r] = 0]
  /\ peer_low' = [peer_low EXCEPT ![r] = 0]

\* Mutated forms: the future taken for ready when the call is still under way,
\* or only when the call succeeded.
RespondEarly(r) ==
  /\ req[r] = "waiting"
  /\ Sent(r)
  /\ UNCHANGED <<up, total, at, crashes>>

RespondOnReply(r) ==
  /\ req[r] = "waiting" /\ inner[r] = "replied"
  /\ Sent(r)
  /\ UNCHANGED <<up, total, at, crashes>>

\* payments_summary_handler starts the call to the other instance, which fails
\* at once when that instance is down.
Handle(r) ==
  /\ req[r] = "queued" /\ Thread(at[r])
  /\ req' = [req EXCEPT ![r] = "running"]
  /\ inner' = [inner EXCEPT ![r] = IF up[Other(at[r])] THEN "calling" ELSE "failed"]
  /\ UNCHANGED <<up, total, at, parts, crashes>>

\* ... runs the local query ...
LocalQuery(r) ==
  /\ req[r] = "running"
  /\ req' = [req EXCEPT ![r] = "waiting"]
  /\ own' = [own EXCEPT ![r] = total[at[r]]]
  /\ UNCHANGED <<up, total, at, inner, peer, lows, crashes>>

\* ... and, once other_future.get() returns, sends the sum of both.
Respond(r) ==
  /\ req[r] = "waiting" /\ inner[r] \in {"replied", "failed"}
  /\ Sent(r)
  /\ UNCHANGED <<up, total, at, crashes>>

\* The other instance's REST thread takes the internal request ...
HandleInternal(r) ==
  /\ inner[r] = "calling" /\ Thread(Other(at[r]))
  /\ inner' = [inner EXCEPT ![r] = "running"]
  /\ UNCHANGED <<up, total, at, req, parts, crashes>>

\* ... and answers from its own totals, without a call of its own.
RespondInternal(r) ==
  /\ inner[r] = "running"
  /\ inner' = [inner EXCEPT ![r] = "replied"]
  /\ peer' = [peer EXCEPT ![r] = total[Other(at[r])]]
  /\ UNCHANGED <<up, total, at, req, own, lows, crashes>>

\* The call fails although the other instance is up: there is no curl handle, the
\* connection breaks, or the status is not 200.  call_other_instance returns the
\* zeros it began with.
CallFails(r) ==
  /\ inner[r] \in {"calling", "running"}
  /\ inner' = [inner EXCEPT ![r] = "failed"]
  /\ UNCHANGED <<up, total, at, req, parts, crashes>>

\* The network swallows the request, or the reply to it, and tells nobody:
\* curl_easy_perform, without a timeout, does not return.
GoSilent(r) ==
  /\ inner[r] \in {"calling", "running"}
  /\ Cardinality({x \in Requests : inner[x] = "silent"}) < MaxSilences
  /\ inner' = [inner EXCEPT ![r] = "silent"]
  /\ UNCHANGED <<up, total, at, req, parts, crashes>>

\* An instance dies: its totals and its clients' requests are gone, and calls
\* to it fail.
Crash(i) ==
  LET died == {r \in Requests : at[r] = i /\ req[r] \in {"queued", "running", "waiting"}}
      cut  == {r \in Requests : Other(at[r]) = i /\ inner[r] \in {"calling", "running"}}
      lost == {r \in Requests : Other(at[r]) = i /\ inner[r] # "replied"}
  IN
  /\ up[i] /\ crashes < MaxCrashes
  /\ crashes' = crashes + 1
  /\ up' = [up EXCEPT ![i] = FALSE]
  /\ total' = [total EXCEPT ![i] = 0]
  /\ req' = [r \in Requests |-> IF r \in died THEN "failed" ELSE req[r]]
  /\ inner' = [r \in Requests |-> IF r \in cut THEN "failed" ELSE inner[r]]
  /\ own' = [r \in Requests |-> IF r \in died THEN 0 ELSE own[r]]
  /\ own_low' = [r \in Requests |-> IF r \in died THEN 0 ELSE own_low[r]]
  /\ peer_low' = [r \in Requests |-> IF r \in died \union lost THEN 0 ELSE peer_low[r]]
  /\ UNCHANGED <<at, peer>>

Restart(i) ==
  /\ ~up[i]
  /\ up' = [up EXCEPT ![i] = TRUE]
  /\ UNCHANGED <<total, at, req, inner, parts, crashes>>

Serve(r) ==
  Handle(r) \/ LocalQuery(r) \/ Respond(r) \/ HandleInternal(r) \/ RespondInternal(r)

Next ==
  \/ \E i \in Instances : StoreProcessed(i) \/ Crash(i) \/ Restart(i)
  \/ \E r \in Requests : Arrive(r) \/ Serve(r) \/ CallFails(r) \/ GoSilent(r)

Spec == Init /\ [][Next]_vars

\* A REST thread that is free takes a waiting request, and a thread that can
\* go on does; nothing is assumed of clients, the network, failing calls, crashes
\* and restarts.
FairSpec ==
  /\ Spec
  /\ \A r \in Requests :
       /\ WF_vars(Handle(r)) /\ WF_vars(LocalQuery(r)) /\ WF_vars(Respond(r))
       /\ WF_vars(HandleInternal(r)) /\ WF_vars(RespondInternal(r))

------------------------------------------------------------------------------
(* Properties *)

\* Type invariant of the instances and of the requests.
TypeOK ==
  /\ up \in [Instances -> BOOLEAN]
  /\ total \in [Instances -> 0..MaxTotal]
  /\ at \in [Requests -> Instances]
  /\ req \in [Requests -> {"new", "queued", "running", "waiting", "answered", "failed"}]
  /\ inner \in [Requests -> {"none", "calling", "running", "replied", "failed", "silent"}]
  /\ own \in [Requests -> 0..MaxTotal]
  /\ peer \in [Requests -> 0..MaxTotal]
  /\ own_low \in [Requests -> 0..MaxTotal]
  /\ peer_low \in [Requests -> 0..MaxTotal]
  /\ crashes \in 0..MaxCrashes

\* One of the handlers of request r, here or at the other instance, can take
\* its next step: the guards of Serve(r).
CanGoOn(r) ==
  \/ req[r] = "queued" /\ Thread(at[r])
  \/ req[r] = "running"
  \/ req[r] = "waiting" /\ inner[r] \in {"replied", "failed"}
  \/ inner[r] = "calling" /\ Thread(Other(at[r]))
  \/ inner[r] = "running"

\* Fewer requests than the instances have threads, and a thread that no silent
\* call can hold.
EnoughThreads == Cardinality(Requests) < 2 * Concurrency /\ MaxSilences < Concurrency

\* payments_summary_handler blocks a REST thread here on a REST thread of the
\* other instance, which may be blocked on one of this instance.  With enough
\* threads the two never block each other for good: while a request waits, and
\* not for a reply that was lost, some handler can take its next step, whatever
\* has crashed and failed and whatever threads lost replies hold.
NeverGridlocked ==
  EnoughThreads
    /\ (\E r \in Requests : req[r] \in {"queued", "running", "waiting"} /\ inner[r] # "silent")
    => \E r \in Requests : CanGoOn(r)

\* What payments_summary_handler sends covers the local totals as they were when
\* the request came in, and the peer's too unless the call failed or the peer's
\* were lost in a crash; a failed call adds nothing, a slow one is waited for.
\* Nothing is made up: each part is at most what its instance has stored.
AnswerComplete ==
  [][\A r \in Requests :
       req[r] = "waiting" /\ req'[r] = "answered" =>
         /\ own_low[r] <= own[r] /\ own[r] <= total[at[r]]
         /\ IF inner[r] = "failed" THEN peer[r] = 0 ELSE peer_low[r] <= peer[r]
         /\ crashes = 0 => peer[r] <= total[Other(at[r])]]_vars

\* No summary waits for ever: a request that payments_summary_handler is to
\* answer is answered, or fails with its instance, even if the other instance
\* crashes meanwhile or the call to it fails (README: the endpoint "Returns total requests and amounts
\* for each processor between two timestamps").  Only a request whose own call
\* got no reply waits on: the thread it holds for good does not keep the others
\* from being answered.  It holds while fewer client requests are under way
\* than the two instances have threads and an instance has a thread left; else
\* every thread may block in other_future.get() and wait for one of the others.
EverySummaryAnswered ==
  \A r \in Requests :
    req[r] = "queued" ~> req[r] \in {"answered", "failed"} \/ inner[r] = "silent"
==============================================================================
