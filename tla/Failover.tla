------------------------------- MODULE Failover -------------------------------
(***************************************************************************)
(* The choice between the default and the fallback processor: the shared   *)
(* members of PaymentService that process_payment, handle_response,        *)
(* update_time, trigger_switch and evaluate_switch read and write, and the *)
(* worker and fallback-pool threads that run those functions.              *)
(*                                                                         *)
(* None of the members is atomic and there is no lock.  A step of a thread *)
(* is therefore one C++ statement on shared memory, and the statements of  *)
(* different threads interleave.  std::swap(a, b) is the three statements  *)
(* tmp = a; a = b; b = tmp.                                                *)
(*                                                                         *)
(* A local that is not read again is set back to its initial value, which  *)
(* only saves states.                                                      *)
(*                                                                         *)
(* FALLBACK_ENABLED is 1: with 0 no member below is ever written and only  *)
(* the default processor is called.  What becomes of the payment itself is *)
(* modelled in PaymentService; here a call only has its code and duration. *)
(***************************************************************************)
EXTENDS Integers

CONSTANTS
  Workers,        \* threads that run worker_loop
  Pools,          \* detached threads that run process(.., true)
  DefaultUrl,     \* PROCESSOR_URL
  FallbackUrl,    \* FALLBACK_PROCESSOR_URL; unset, it equals DefaultUrl
  FeeDifference,  \* FEE_DIFFERENCE
  Durations,      \* the elapsed times a call may take, in milliseconds
  Conditions      \* what may be the matter with a processor

ASSUME FailoverAssumption ==
  /\ Workers \cap Pools = {}
  /\ FeeDifference \in Nat
  /\ Durations \subseteq Nat \ {0}
  /\ Conditions \subseteq {"ok", "error", "unreachable", "erratic"}

Threads == Workers \cup Pools

\* ProcessorResult::Default and ProcessorResult::Fallback
Default    == "default"
Fallback   == "fallback"
Processors == {Default, Fallback}
Other(p)   == IF p = Default THEN Fallback ELSE Default
Url(p)     == IF p = Default THEN DefaultUrl ELSE FallbackUrl
Urls       == {DefaultUrl, FallbackUrl}

\* The response codes of a processor in condition h.  200 stands for 422 too:
\* process_payment ends after either and handle_response does not tell them
\* apart.  Code 0 is what curl leaves when there was no response, the
\* connection refused or reset, and what a missing curl handle gives.
Codes(h) == CASE h = "ok" -> {200}
              [] h = "error" -> {500}
              [] h = "unreachable" -> {0}
              [] h = "erratic" -> {200, 500}

VARIABLES
  main_url, test_url,              \* swapped by trigger_switch,
  primary_label, secondary_label,  \* in this order
  down,        \* default_down and fallback_down
  time_ms,     \* default_time_ms and fallback_time_ms
  evaluated,   \* fallback_evaluated
  pc,          \* per thread: the next statement
  first,       \* per thread: primary_label_local
  second,      \* per thread: secondary_label_local
  leg,         \* per thread: 1 for the first call, 2 for the second
  code,        \* per thread: response code of the call
  flag,        \* per thread: using_default_as_main, or "fallback is better"
  tmp,         \* per thread: std::swap's temporary
  ret,         \* per thread: where trigger_switch returns to
  health,      \* the condition of each processor (environment)
  overlapped   \* history: two calls of trigger_switch have overlapped

roles  == <<main_url, test_url, primary_label, secondary_label>>
stats  == <<down, time_ms, evaluated>>
locals == <<first, second, leg, code, flag, tmp, ret>>
env    == <<health, overlapped>>
vars   == <<roles, stats, pc, locals, env>>

SwitchPc == {"url2", "url3", "label1", "label2", "label3"}
Pc == SwitchPc \cup {"idle", "route", "send", "unevaluate", "response",
       "setdown", "checkdown", "recover", "clear", "checkother", "time",
       "evaluate", "mark", "compare", "decide", "url1", "return"}

Called(t)       == IF leg[t] = 1 THEN first[t] ELSE second[t]
Goto(t, l)      == pc' = [pc EXCEPT ![t] = l]
At(t, l)        == pc[t] = l
Switching(t)    == pc[t] \in SwitchPc
\* Call trigger_switch and continue at l when it returns.
Switch(t, l)    == Goto(t, "url1") /\ ret' = [ret EXCEPT ![t] = l]
------------------------------------------------------------------------------
(* Mutated forms of the definitions below: plausible bugs of this code.     *)

SwapLabel3Dropped(t) ==
  /\ At(t, "label3")
  /\ Goto(t, ret[t])
  /\ UNCHANGED <<roles, stats, locals, env>>

CheckDownSwitchesIdleOne(t) ==
  /\ At(t, "checkdown")
  /\ IF down[Other(Called(t))] \/ (Called(t) = Default) = flag[t]
     THEN Goto(t, "return") /\ UNCHANGED ret
     ELSE Switch(t, "return")
  /\ UNCHANGED <<roles, stats, first, second, leg, code, flag, tmp, env>>

CompareStrict(t) ==
  /\ At(t, "compare")
  /\ LET def == time_ms[Default]
         fb  == time_ms[Fallback]
     IN  /\ Goto(t, IF def = 0 \/ fb = 0 THEN "return" ELSE "decide")
         /\ flag' = [flag EXCEPT ![t] = fb < def /\ def > FeeDifference * fb]
  /\ UNCHANGED <<roles, stats, first, second, leg, code, tmp, ret, env>>

SetDownDropped(t) ==
  /\ At(t, "setdown")
  /\ Goto(t, "checkdown")
  /\ UNCHANGED <<roles, stats, locals, env>>
------------------------------------------------------------------------------
(* process_payment                                                          *)

\* A worker calls the primary first, a fallback-pool thread the secondary.
\* The two labels are read one after the other.
Begin(t) ==
  /\ At(t, "idle")
  /\ first' = [first EXCEPT ![t] = IF t \in Pools THEN secondary_label
                                                  ELSE primary_label]
  /\ Goto(t, "route")
  /\ UNCHANGED <<roles, stats, second, leg, code, flag, tmp, ret, env>>

Route(t) ==
  /\ At(t, "route")
  /\ second' = [second EXCEPT ![t] = IF t \in Pools THEN primary_label
                                                    ELSE secondary_label]
  /\ Goto(t, "send")
  /\ UNCHANGED <<roles, stats, first, leg, code, flag, tmp, ret, env>>

\* send_to_processor: only the first call of a pool thread is followed by
\* `fallback_evaluated = false`.
Send(t) ==
  /\ At(t, "send")
  /\ \E c \in Codes(health[Called(t)]) : code' = [code EXCEPT ![t] = c]
  /\ Goto(t, IF t \in Pools /\ leg[t] = 1 THEN "unevaluate" ELSE "response")
  /\ UNCHANGED <<roles, stats, first, second, leg, flag, tmp, ret, env>>

Unevaluate(t) ==
  /\ At(t, "unevaluate")
  /\ evaluated' = FALSE
  /\ Goto(t, "response")
  /\ UNCHANGED <<roles, down, time_ms, locals, env>>

\* After handle_response: accepted or refused as a duplicate after the first
\* call, or any outcome of the second, ends it; otherwise the second call.
Return(t) ==
  /\ At(t, "return")
  /\ IF leg[t] = 2 \/ code[t] = 200
     THEN /\ Goto(t, "idle")
          /\ leg' = [leg EXCEPT ![t] = 1]
          /\ first' = [first EXCEPT ![t] = Default]
          /\ second' = [second EXCEPT ![t] = Fallback]
     ELSE /\ Goto(t, "send")
          /\ leg' = [leg EXCEPT ![t] = 2]
          /\ UNCHANGED <<first, second>>
  /\ code' = [code EXCEPT ![t] = 0]
  /\ UNCHANGED <<roles, stats, flag, tmp, ret, env>>
------------------------------------------------------------------------------
(* handle_response                                                          *)

\* Read primary_label into using_default_as_main and branch on the code.
Response(t) ==
  /\ At(t, "response")
  /\ flag' = [flag EXCEPT ![t] = (primary_label = Default)]
  /\ Goto(t, IF code[t] = 500 THEN "setdown" ELSE "recover")
  /\ UNCHANGED <<roles, stats, first, second, leg, code, tmp, ret, env>>

SetDown(t) ==
  /\ At(t, "setdown")
  /\ down' = [down EXCEPT ![Called(t)] = TRUE]
  /\ Goto(t, "checkdown")
  /\ UNCHANGED <<roles, time_ms, evaluated, locals, env>>

\* The flag just stored may be read back from memory or not: the compiler
\* is free to use the stored value.
CheckDown(t) ==
  /\ At(t, "checkdown")
  /\ \E own \in {TRUE, down[Called(t)]} :
       LET is_down == [down EXCEPT ![Called(t)] = own] IN
       IF \/ is_down[Default] /\ ~is_down[Fallback] /\ flag[t]
          \/ ~is_down[Default] /\ is_down[Fallback] /\ ~flag[t]
       THEN Switch(t, "return")
       ELSE Goto(t, "return") /\ UNCHANGED ret
  /\ flag' = [flag EXCEPT ![t] = FALSE]
  /\ UNCHANGED <<roles, stats, first, second, leg, code, tmp, env>>

\* Any other code, 0 included: the processor called is taken to be up.
Recover(t) ==
  /\ At(t, "recover")
  /\ Goto(t, IF down[Called(t)] THEN "clear" ELSE "time")
  /\ flag' = [flag EXCEPT ![t] = FALSE]
  /\ UNCHANGED <<roles, stats, first, second, leg, code, tmp, ret, env>>

Clear(t) ==
  /\ At(t, "clear")
  /\ down' = [down EXCEPT ![Called(t)] = FALSE]
  /\ Goto(t, "checkother")
  /\ UNCHANGED <<roles, time_ms, evaluated, locals, env>>

CheckOther(t) ==
  /\ At(t, "checkother")
  /\ IF down[Other(Called(t))]
     THEN Switch(t, "time")
     ELSE Goto(t, "time") /\ UNCHANGED ret
  /\ UNCHANGED <<roles, stats, first, second, leg, code, flag, tmp, env>>

\* update_time.  The duration was measured by send_to_processor; nothing
\* looked at it since, so it is chosen here.  Without a curl handle
\* send_to_processor leaves code and duration 0.
UpdateTime(t) ==
  /\ At(t, "time")
  /\ \E e \in Durations \cup (IF code[t] = 0 THEN {0} ELSE {}) :
       time_ms' = [time_ms EXCEPT ![Called(t)] = e]
  /\ Goto(t, "evaluate")
  /\ UNCHANGED <<roles, down, evaluated, locals, env>>
------------------------------------------------------------------------------
(* evaluate_switch                                                          *)

Evaluate(t) ==
  /\ At(t, "evaluate")
  /\ Goto(t, IF evaluated THEN "return" ELSE "mark")
  /\ UNCHANGED <<roles, stats, locals, env>>

Mark(t) ==
  /\ At(t, "mark")
  /\ evaluated' = TRUE
  /\ Goto(t, "compare")
  /\ UNCHANGED <<roles, down, time_ms, locals, env>>

\* Read both times.  `def / fb >= fee_difference` is written without the
\* division.
Compare(t) ==
  /\ At(t, "compare")
  /\ LET def == time_ms[Default]
         fb  == time_ms[Fallback]
     IN  /\ Goto(t, IF def = 0 \/ fb = 0 THEN "return" ELSE "decide")
         /\ flag' = [flag EXCEPT ![t] = fb < def /\ def >= FeeDifference * fb]
  /\ UNCHANGED <<roles, stats, first, second, leg, code, tmp, ret, env>>

\* Read main_url and call trigger_switch when it is not the better choice.
Decide(t) ==
  /\ At(t, "decide")
  /\ IF flag[t] = (main_url = DefaultUrl)
     THEN Switch(t, "return")
     ELSE Goto(t, "return") /\ UNCHANGED ret
  /\ flag' = [flag EXCEPT ![t] = FALSE]
  /\ UNCHANGED <<roles, stats, first, second, leg, code, tmp, env>>
------------------------------------------------------------------------------
(* trigger_switch: swap(main_url, test_url), then swap of the two labels.   *)

SwapUrl1(t) ==
  /\ At(t, "url1")
  /\ tmp' = [tmp EXCEPT ![t] = main_url]
  /\ Goto(t, "url2")
  /\ overlapped' = (overlapped \/ \E u \in Threads : Switching(u))
  /\ UNCHANGED <<roles, stats, first, second, leg, code, flag, ret, health>>

SwapUrl2(t) ==
  /\ At(t, "url2")
  /\ main_url' = test_url
  /\ Goto(t, "url3")
  /\ UNCHANGED <<test_url, primary_label, secondary_label, stats, locals, env>>

SwapUrl3(t) ==
  /\ At(t, "url3")
  /\ test_url' = tmp[t]
  /\ Goto(t, "label1")
  /\ UNCHANGED <<main_url, primary_label, secondary_label, stats, locals, env>>

SwapLabel1(t) ==
  /\ At(t, "label1")
  /\ tmp' = [tmp EXCEPT ![t] = primary_label]
  /\ Goto(t, "label2")
  /\ UNCHANGED <<roles, stats, first, second, leg, code, flag, ret, env>>

SwapLabel2(t) ==
  /\ At(t, "label2")
  /\ primary_label' = secondary_label
  /\ Goto(t, "label3")
  /\ UNCHANGED <<main_url, test_url, secondary_label, stats, locals, env>>

SwapLabel3(t) ==
  /\ At(t, "label3")
  /\ secondary_label' = tmp[t]
  /\ Goto(t, ret[t])
  /\ tmp' = [tmp EXCEPT ![t] = Default]
  /\ ret' = [ret EXCEPT ![t] = "return"]
  /\ UNCHANGED <<main_url, test_url, primary_label, stats,
                 first, second, leg, code, flag, env>>

SwitchStep(t) ==
  \/ SwapUrl1(t) \/ SwapUrl2(t) \/ SwapUrl3(t)
  \/ SwapLabel1(t) \/ SwapLabel2(t) \/ SwapLabel3(t)
------------------------------------------------------------------------------
\* The environment: a processor gets into another condition.
HealthChange(p, h) ==
  /\ health[p] # h
  /\ health' = [health EXCEPT ![p] = h]
  /\ UNCHANGED <<roles, stats, pc, locals, overlapped>>

Init ==
  /\ main_url = DefaultUrl /\ test_url = FallbackUrl
  /\ primary_label = Default /\ secondary_label = Fallback
  /\ down = [p \in Processors |-> FALSE]
  /\ time_ms = [p \in Processors |-> 0]
  /\ evaluated = TRUE
  /\ pc = [t \in Threads |-> "idle"]
  /\ first = [t \in Threads |-> Default]
  /\ second = [t \in Threads |-> Fallback]
  /\ leg = [t \in Threads |-> 1]
  /\ code = [t \in Threads |-> 0]
  /\ flag = [t \in Threads |-> FALSE]
  /\ tmp = [t \in Threads |-> Default]
  /\ ret = [t \in Threads |-> "return"]
  /\ health \in [Processors -> Conditions]
  /\ overlapped = FALSE

\* What a thread does once it has begun a payment.
Step(t) ==
  \/ Route(t) \/ Send(t) \/ Unevaluate(t) \/ Return(t)
  \/ Response(t) \/ SetDown(t) \/ CheckDown(t)
  \/ Recover(t) \/ Clear(t) \/ CheckOther(t)
  \/ UpdateTime(t) \/ Evaluate(t) \/ Mark(t) \/ Compare(t) \/ Decide(t)
  \/ SwitchStep(t)

Next ==
  \/ \E t \in Threads : Begin(t) \/ Step(t)
  \/ \E p \in Processors, h \in Conditions : HealthChange(p, h)

Spec == Init /\ [][Next]_vars

\* The behaviours in which calls of process_payment do not overlap: a pool
\* thread runs while the worker waits for its queue to fill.
BeginAlone(t) == (\A u \in Threads : pc[u] = "idle") /\ Begin(t)

SequentialNext ==
  \/ \E t \in Threads : BeginAlone(t) \/ Step(t)
  \/ \E p \in Processors, h \in Conditions : HealthChange(p, h)

Sequential == Init /\ [][SequentialNext]_vars

\* A thread that has begun goes on, and payments keep coming fast enough
\* that the workers get some beside those handed to the fallback pool.
FairSequential ==
  /\ Sequential
  /\ \A t \in Threads : WF_vars(Step(t))
  /\ \A t \in Workers : SF_vars(BeginAlone(t))
------------------------------------------------------------------------------
\* Every member and every local of process_payment has its type; a thread
\* makes at most two calls for a payment.
TypeOK ==
  /\ main_url \in Urls /\ test_url \in Urls
  /\ primary_label \in Processors /\ secondary_label \in Processors
  /\ down \in [Processors -> BOOLEAN]
  /\ time_ms \in [Processors -> Nat]
  /\ evaluated \in BOOLEAN
  /\ pc \in [Threads -> Pc]
  /\ first \in [Threads -> Processors]
  /\ second \in [Threads -> Processors]
  /\ leg \in [Threads -> {1, 2}]
  /\ code \in [Threads -> {0, 200, 500}]
  /\ flag \in [Threads -> BOOLEAN]
  /\ tmp \in [Threads -> Urls \cup Processors]
  /\ \A t \in Threads : pc[t] \in {"url2", "url3"} => tmp[t] \in Urls
  /\ \A t \in Threads : pc[t] \in {"label2", "label3"} => tmp[t] \in Processors
  /\ ret \in [Threads -> {"return", "time"}]
  /\ health \in [Processors -> Conditions]
  /\ overlapped \in BOOLEAN

\* As long as no two calls of trigger_switch overlapped, between switches
\* one processor is the primary, the other the secondary, and main_url,
\* which evaluate_switch looks at, is the primary's.
RolesAgree ==
  ~overlapped /\ (\A t \in Threads : ~Switching(t)) =>
    /\ secondary_label = Other(primary_label)
    /\ main_url = Url(primary_label)
    /\ test_url = Url(secondary_label)

\* Both labels name one processor, and so does every temporary of a swap of
\* the labels that is under way.
OneProcessorLost ==
  /\ primary_label = secondary_label
  /\ \A t \in Threads : pc[t] \in {"label2", "label3"} => tmp[t] = primary_label

\* Once overlapping calls of trigger_switch have made both labels name the
\* same processor, no later switch brings the other one back.
LostForGood ==
  [][OneProcessorLost => OneProcessorLost' /\ primary_label' = primary_label]_vars

\* (Sequential) When a call answered 500, handle_response leaves the failing
\* processor as the primary only if the other one is marked down as well.
FailoverOn500 ==
  \A t \in Threads :
    At(t, "return") /\ code[t] = 500 =>
      primary_label # Called(t) \/ down[Other(Called(t))]

\* (Sequential) After the probe of a pool thread that did not answer 500, the
\* primary is the fallback exactly if the last times make it the better one.
ProbeDecides ==
  \A t \in Pools :
    /\ DefaultUrl # FallbackUrl
    /\ At(t, "return") /\ leg[t] = 1 /\ code[t] # 500
    /\ time_ms[Default] # 0 /\ time_ms[Fallback] # 0
    => (primary_label = Fallback) =
         (/\ time_ms[Fallback] < time_ms[Default]
          /\ time_ms[Default] >= FeeDifference * time_ms[Fallback])

\* (Sequential) If from some time on one processor answers 500 and the other
\* is well, the one that is well is the primary again and again.
FailoverFromErrors ==
  \A p \in Processors :
    <>[](health[p] = "error" /\ health[Other(p)] = "ok")
      => []<>(primary_label = Other(p))
------------------------------------------------------------------------------
(* What the documentation and the code's own messages claim.                *)

\* (Sequential) "if the main processor fails, switches to fallback, and vice
\* versa": also when the failing processor cannot be reached at all.
FailoverFromOutage ==
  \A p \in Processors :
    <>[](health[p] = "unreachable" /\ health[Other(p)] = "ok")
      => []<>(primary_label = Other(p))
==============================================================================
