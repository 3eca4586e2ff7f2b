---------------------------- MODULE FailoverProofs ----------------------------
(***************************************************************************)
(* Theorems about Failover, for every set of worker and pool threads,      *)
(* every pair of URLs, every fee difference and every answer of the        *)
(* processors.                                                             *)
(*                                                                         *)
(* RolesAgree is not inductive: it says nothing of the states inside a     *)
(* switch.  SwitchInv adds, for a switch under way, what the urls, the     *)
(* labels and the swap's temporary are after each of its statements, and   *)
(* that the thread in it is alone.                                         *)
(*                                                                         *)
(* FailoverOn500 and ProbeDecides speak of the end of handle_response in   *)
(* the sequential behaviours.  SeqInv adds that one thread at most is in   *)
(* process_payment, that so no two switches ever overlap, and what each    *)
(* statement on the way to the end has established.                        *)
(***************************************************************************)
EXTENDS Failover, TLAPS

\* The other of two processors is a processor, and Other is its own inverse.
LEMMA OtherFacts ==
  ASSUME NEW p \in Processors
  PROVE  Other(p) \in Processors /\ Other(p) # p /\ Other(Other(p)) = p
  BY Zenon DEF Processors, Other, Default, Fallback

\* Every step keeps every member and local in its type.
LEMMA TypeStep == TypeOK /\ [Next]_vars => TypeOK'
<1> SUFFICES ASSUME TypeOK, [Next]_vars
             PROVE  TypeOK'
  OBVIOUS
<1> USE DEF TypeOK, roles, stats, locals, env, Goto, At
<1>0. \A t \in Threads : Called(t) \in Processors
  BY SMT, SMTT(20) DEF Called
<1>1. ASSUME NEW t \in Threads, Begin(t)
      PROVE  TypeOK'
  BY <1>1, SMT, SMTT(20) DEF Begin, Pc
<1>2. ASSUME NEW t \in Threads, Route(t)
      PROVE  TypeOK'
  BY <1>2, SMT, SMTT(20) DEF Route, Pc
<1>3. ASSUME NEW t \in Threads, Send(t)
      PROVE  TypeOK'
  <2>1. code' \in [Threads -> {0, 200, 500}]
    <3>1. health[Called(t)] \in {"ok", "error", "unreachable", "erratic"}
      BY <1>0, FailoverAssumption, Zenon
    <3>2. Codes(health[Called(t)]) \subseteq {0, 200, 500}
      BY <3>1 DEF Codes
    <3> QED
      BY <1>3, <3>2, SMT, SMTT(20) DEF Send
  <2> QED
    BY <1>3, <2>1, SMT, SMTT(20) DEF Send, Pc
<1>4. ASSUME NEW t \in Threads, Unevaluate(t)
      PROVE  TypeOK'
  BY <1>4, ZenonT(40) DEF Unevaluate, Pc
<1>5. ASSUME NEW t \in Threads, Return(t)
      PROVE  TypeOK'
  BY <1>5, SMT, SMTT(20) DEF Return, Pc, Processors
<1>6. ASSUME NEW t \in Threads, Response(t)
      PROVE  TypeOK'
  BY <1>6, SMT, SMTT(20) DEF Response, Pc
<1>7. ASSUME NEW t \in Threads, SetDown(t)
      PROVE  TypeOK'
  BY <1>0, <1>7, SMT, SMTT(20) DEF SetDown, Pc
<1>8. ASSUME NEW t \in Threads, CheckDown(t)
      PROVE  TypeOK'
  BY <1>8, SMT, SMTT(20) DEF CheckDown, Switch, Pc
<1>9. ASSUME NEW t \in Threads, Recover(t)
      PROVE  TypeOK'
  BY <1>9, SMT, SMTT(20) DEF Recover, Pc
<1>10. ASSUME NEW t \in Threads, Clear(t)
       PROVE  TypeOK'
  BY <1>0, <1>10, SMT, SMTT(20) DEF Clear, Pc
<1>11. ASSUME NEW t \in Threads, CheckOther(t)
       PROVE  TypeOK'
  BY <1>11, SMT, SMTT(20) DEF CheckOther, Switch, Pc
<1>12. ASSUME NEW t \in Threads, UpdateTime(t)
       PROVE  TypeOK'
  BY <1>0, <1>12, FailoverAssumption, SMT, SMTT(20) DEF UpdateTime, Pc
<1>13. ASSUME NEW t \in Threads, Evaluate(t)
       PROVE  TypeOK'
  BY <1>13, SMT, SMTT(20) DEF Evaluate, Pc
<1>14. ASSUME NEW t \in Threads, Mark(t)
       PROVE  TypeOK'
  BY <1>14, SMT, SMTT(20) DEF Mark, Pc
<1>15. ASSUME NEW t \in Threads, Compare(t)
       PROVE  TypeOK'
  BY <1>15, SMT, SMTT(20) DEF Compare, Pc
<1>16. ASSUME NEW t \in Threads, Decide(t)
       PROVE  TypeOK'
  BY <1>16, SMT, SMTT(20) DEF Decide, Switch, Pc
<1>17. ASSUME NEW t \in Threads, SwitchStep(t)
       PROVE  TypeOK'
  <2>1. CASE SwapUrl1(t)
    BY <2>1, SMT, SMTT(20) DEF SwapUrl1, Pc, SwitchPc
  <2>2. CASE SwapUrl2(t)
    BY <2>2, SMT, SMTT(20) DEF SwapUrl2, Pc, SwitchPc
  <2>3. CASE SwapUrl3(t)
    BY <2>3, SMT, SMTT(20) DEF SwapUrl3, Pc, SwitchPc
  <2>4. CASE SwapLabel1(t)
    BY <2>4, SMT, SMTT(20) DEF SwapLabel1, Pc, SwitchPc
  <2>5. CASE SwapLabel2(t)
    BY <2>5, SMT, SMTT(20) DEF SwapLabel2, Pc, SwitchPc
  <2>6. CASE SwapLabel3(t)
    BY <2>6 DEF SwapLabel3, Pc, Processors
  <2> QED
    BY <1>17, <2>1, <2>2, <2>3, <2>4, <2>5, <2>6 DEF SwitchStep
<1>18. ASSUME NEW p \in Processors, NEW h \in Conditions, HealthChange(p, h)
       PROVE  TypeOK'
  BY <1>18 DEF HealthChange
<1>19. CASE UNCHANGED vars
  BY <1>19 DEF vars
<1> QED
  BY <1>1, <1>2, <1>3, <1>4, <1>5, <1>6, <1>7, <1>8, <1>9, <1>10, <1>11,
     <1>12, <1>13, <1>14, <1>15, <1>16, <1>17, <1>18, <1>19 DEF Next, Step

\* The members are type correct in every reachable state, and no payment is
\* sent more than twice by one call of process_payment.
THEOREM TypeCorrect == Spec => []TypeOK
<1>1. Init => TypeOK
  <2> SUFFICES ASSUME Init
               PROVE  TypeOK
    OBVIOUS
  <2>1. /\ main_url \in Urls /\ test_url \in Urls
        /\ primary_label \in Processors /\ secondary_label \in Processors
    BY DEF Init, Urls, Processors
  <2>2. down \in [Processors -> BOOLEAN] /\ time_ms \in [Processors -> Nat]
    BY DEF Init
  <2>3. pc \in [Threads -> Pc]
    BY DEF Init, Pc
  <2>4. first \in [Threads -> Processors] /\ second \in [Threads -> Processors]
    BY DEF Init, Processors
  <2>5. leg \in [Threads -> {1, 2}] /\ code \in [Threads -> {0, 200, 500}]
    BY DEF Init
  <2>6. flag \in [Threads -> BOOLEAN] /\ ret \in [Threads -> {"return", "time"}]
    BY DEF Init
  <2>7. tmp \in [Threads -> Urls \cup Processors]
    BY DEF Init, Processors
  <2>8. \A t \in Threads : pc[t] = "idle"
    BY DEF Init
  <2>9. /\ evaluated \in BOOLEAN /\ overlapped \in BOOLEAN
        /\ health \in [Processors -> Conditions]
    BY Zenon DEF Init
  <2> QED
    BY <2>1, <2>2, <2>3, <2>4, <2>5, <2>6, <2>7, <2>8, <2>9 DEF TypeOK
<1> QED
  BY <1>1, TypeStep, PTL DEF Spec

\* One processor is the primary, the other the secondary, with their URLs.
Settled ==
  /\ secondary_label = Other(primary_label)
  /\ main_url = Url(primary_label)
  /\ test_url = Url(secondary_label)

\* What holds after each statement of a switch by t.
SwitchState(t) ==
  /\ pc[t] = "url2" => Settled /\ tmp[t] = main_url
  /\ pc[t] = "url3" =>
       /\ secondary_label = Other(primary_label)
       /\ main_url = Url(secondary_label) /\ test_url = Url(secondary_label)
       /\ tmp[t] = Url(primary_label)
  /\ pc[t] \in {"label1", "label2"} =>
       /\ secondary_label = Other(primary_label)
       /\ main_url = Url(secondary_label) /\ test_url = Url(primary_label)
  /\ pc[t] = "label2" => tmp[t] = primary_label
  /\ pc[t] = "label3" =>
       /\ primary_label = secondary_label /\ tmp[t] = Other(primary_label)
       /\ main_url = Url(primary_label) /\ test_url = Url(tmp[t])

Alone ==
  /\ \A t, u \in Threads : Switching(t) /\ Switching(u) => t = u
  /\ (\A t \in Threads : ~Switching(t)) => Settled
  /\ \A t \in Threads : SwitchState(t)

SwitchInv == ~overlapped => Alone

\* A step that neither enters nor takes part in a switch.
OutsideSwitch ==
  /\ UNCHANGED <<roles, overlapped>>
  /\ \A u \in Threads : pc[u] \in SwitchPc \/ pc'[u] \in SwitchPc
       => pc'[u] = pc[u] /\ tmp'[u] = tmp[u]

\* Everything but the six statements of trigger_switch is outside a switch.
LEMMA OtherSteps ==
  ASSUME TypeOK, [Next]_vars, \A t \in Threads : ~SwitchStep(t)
  PROVE  OutsideSwitch
<1> USE DEF TypeOK, roles, stats, locals, env, Goto, At, OutsideSwitch, SwitchPc
<1>1. ASSUME NEW t \in Threads, Begin(t) \/ Route(t) \/ Send(t) \/ Unevaluate(t)
      PROVE  OutsideSwitch
  BY <1>1, SMT, SMTT(20) DEF Begin, Route, Send, Unevaluate
<1>2. ASSUME NEW t \in Threads, Return(t) \/ Response(t) \/ SetDown(t)
      PROVE  OutsideSwitch
  BY <1>2, SMT, SMTT(20) DEF Return, Response, SetDown
<1>3. ASSUME NEW t \in Threads, CheckDown(t) \/ CheckOther(t) \/ Decide(t)
      PROVE  OutsideSwitch
  BY <1>3, SMT, SMTT(20) DEF CheckDown, CheckOther, Decide, Switch
<1>4. ASSUME NEW t \in Threads, Recover(t) \/ Clear(t) \/ UpdateTime(t)
      PROVE  OutsideSwitch
  BY <1>4, SMT, SMTT(20) DEF Recover, Clear, UpdateTime
<1>5. ASSUME NEW t \in Threads, Evaluate(t) \/ Mark(t) \/ Compare(t)
      PROVE  OutsideSwitch
  BY <1>5, SMT, SMTT(20) DEF Evaluate, Mark, Compare
<1>6. ASSUME NEW p \in Processors, NEW h \in Conditions, HealthChange(p, h)
      PROVE  OutsideSwitch
  BY <1>6 DEF HealthChange
<1>7. CASE UNCHANGED vars
  BY <1>7 DEF vars
<1> QED
  BY <1>1, <1>2, <1>3, <1>4, <1>5, <1>6, <1>7 DEF Next, Step

\* Every statement of trigger_switch keeps SwitchInv.
LEMMA SwitchSteps ==
  ASSUME TypeOK, SwitchInv, NEW t \in Threads, SwitchStep(t)
  PROVE  SwitchInv'
<1> SUFFICES ASSUME ~overlapped'
             PROVE  Alone'
  BY Zenon DEF SwitchInv
<1> USE DEF TypeOK, roles, stats, locals, env, Goto, At, Alone, Switching, SwitchPc
<1>0. ~overlapped /\ Alone
  BY Zenon DEF SwitchInv, SwitchStep, SwapUrl1, SwapUrl2, SwapUrl3, SwapLabel1,
         SwapLabel2, SwapLabel3
<1>1. CASE SwapUrl1(t)
  <2>1. \A u \in Threads : ~Switching(u)
    BY <1>1, Zenon DEF SwapUrl1
  <2> QED
    BY <1>0, <1>1, <2>1, SMT, SMTT(20) DEF SwapUrl1, SwitchState, Settled
<1>2. CASE SwapUrl2(t)
  BY <1>0, <1>2, SMT, SMTT(20) DEF SwapUrl2, SwitchState, Settled
<1>3. CASE SwapUrl3(t)
  BY <1>0, <1>3, SMT, SMTT(20) DEF SwapUrl3, SwitchState, Settled
<1>4. CASE SwapLabel1(t)
  BY <1>0, <1>4, SMT, SMTT(20) DEF SwapLabel1, SwitchState, Settled
<1>5. CASE SwapLabel2(t)
  BY <1>0, <1>5, OtherFacts, SMT, SMTT(20) DEF SwapLabel2, SwitchState, Settled
<1>6. CASE SwapLabel3(t)
  BY <1>0, <1>6, OtherFacts, SMT, SMTT(20) DEF SwapLabel3, SwitchState, Settled
<1> QED
  BY <1>1, <1>2, <1>3, <1>4, <1>5, <1>6 DEF SwitchStep

\* Every step keeps SwitchInv.
LEMMA SwitchInvStep == TypeOK /\ SwitchInv /\ [Next]_vars => SwitchInv'
<1> SUFFICES ASSUME TypeOK, SwitchInv, [Next]_vars
             PROVE  SwitchInv'
  OBVIOUS
<1>1. ASSUME NEW t \in Threads, SwitchStep(t)
      PROVE  SwitchInv'
  BY <1>1, SwitchSteps
<1>2. CASE OutsideSwitch
  BY <1>2 DEF OutsideSwitch, SwitchInv, Alone, SwitchState, Settled, Switching,
              SwitchPc, roles
<1> QED
  BY <1>1, <1>2, OtherSteps

\* For any number of threads: as long as no two calls of trigger_switch
\* overlapped, the labels name different processors and main_url agrees with
\* primary_label between switches.
THEOREM RolesStayInAgreement == Spec => []RolesAgree
<1>1. Init => SwitchInv
  BY SMT, SMTT(20) DEF Init, SwitchInv, Alone, SwitchState, Settled, Switching, SwitchPc,
         Other, Url, Default, Fallback
<1>2. SwitchInv => RolesAgree
  BY DEF SwitchInv, Alone, RolesAgree, Settled
<1> QED
  BY <1>1, <1>2, SwitchInvStep, TypeCorrect, PTL DEF Spec

\* For any number of threads: once both labels name one processor, every
\* later switch swaps equal values, and the other processor is lost.
THEOREM ProcessorLostForGood == Spec => LostForGood
<1>1. TypeOK /\ [Next]_vars /\ OneProcessorLost
        => OneProcessorLost' /\ primary_label' = primary_label
  <2> SUFFICES ASSUME TypeOK, [Next]_vars, OneProcessorLost
               PROVE  OneProcessorLost' /\ primary_label' = primary_label
    OBVIOUS
  <2> USE DEF TypeOK, roles, stats, locals, env, Goto, At, OneProcessorLost
  <2>1. ASSUME NEW t \in Threads, SwitchStep(t)
        PROVE  OneProcessorLost' /\ primary_label' = primary_label
    BY <2>1, SMT, SMTT(20) DEF SwitchStep, SwapUrl1, SwapUrl2, SwapUrl3, SwapLabel1,
                SwapLabel2, SwapLabel3
  <2>2. CASE OutsideSwitch
    BY <2>2 DEF OutsideSwitch, SwitchPc
  <2> QED
    BY <2>1, <2>2, OtherSteps
<1> QED
  BY <1>1, TypeCorrect, PTL DEF Spec, LostForGood
------------------------------------------------------------------------------
(* Sequential behaviours: one call of process_payment at a time.            *)

\* No two threads are inside process_payment.
Solo == \A t, u \in Threads : pc[t] # "idle" /\ pc[u] # "idle" => t = u

BeforeLabels == {"url1", "url2", "url3", "label1", "label2"}

\* What handle_response knows on its way from a code 500 to its end.
After500(t) ==
  code[t] = 500 =>
    /\ pc[t] \notin {"recover", "clear", "checkother", "time", "evaluate", "mark",
                     "compare", "decide"}
    /\ pc[t] \in {"setdown", "checkdown"} => (flag[t] <=> primary_label = Default)
    /\ pc[t] = "checkdown" => down[Called(t)]
    /\ pc[t] \in BeforeLabels => primary_label = Called(t) /\ ret[t] = "return"
    /\ pc[t] = "label3" => primary_label # Called(t) /\ ret[t] = "return"
    /\ pc[t] = "return" => primary_label # Called(t) \/ down[Other(Called(t))]

\* The fallback is the better choice by the last times.
Better ==
  /\ time_ms[Fallback] < time_ms[Default]
  /\ time_ms[Default] >= FeeDifference * time_ms[Fallback]

\* What holds while a pool thread's probe goes through update_time and
\* evaluate_switch.
Probing(t) ==
  DefaultUrl # FallbackUrl /\ t \in Pools /\ leg[t] = 1 /\ code[t] # 500 =>
    /\ pc[t] \notin {"setdown", "checkdown"}
    /\ \/ pc[t] \in {"response", "recover", "clear", "checkother", "time", "evaluate"}
       \/ pc[t] \in BeforeLabels \cup {"label3"} /\ ret[t] = "time"
       => ~evaluated
    /\ pc[t] = "decide" => (flag[t] <=> Better)
    /\ time_ms[Default] # 0 /\ time_ms[Fallback] # 0 =>
         /\ pc[t] \in BeforeLabels /\ ret[t] = "return"
              => (primary_label = Default <=> Better)
         /\ pc[t] = "label3" /\ ret[t] = "return" => (primary_label = Fallback <=> Better)
         /\ pc[t] = "return" => (primary_label = Fallback <=> Better)

Seq1 == Solo /\ ~overlapped
SeqInv == Seq1 /\ \A t \in Threads : After500(t) /\ Probing(t)

\* A thread that is not in process_payment satisfies both.
LEMMA IdleSeq ==
  ASSUME NEW t, pc[t] = "idle"
  PROVE  After500(t) /\ Probing(t)
BY DEF After500, Probing, BeforeLabels

\* A step that leaves what they speak of alone keeps both.
LEMMA UnchangedSeq ==
  ASSUME NEW t, After500(t), Probing(t), Called(t)' = Called(t), pc' = pc,
         code' = code, flag' = flag, ret' = ret, leg' = leg, down' = down,
         time_ms' = time_ms, evaluated' = evaluated, primary_label' = primary_label
  PROVE  After500(t)' /\ Probing(t)'
<1>1. After500(t)'
  BY SMT, SMTT(20) DEF After500
<1>2. Better' = Better
  BY DEF Better
<1>3. Probing(t)'
  BY <1>2, SMT, SMTT(20) DEF Probing
<1> QED
  BY <1>1, <1>3

\* Only one thread's step can disturb SeqInv, and only for that thread.
LEMMA AloneKeeps ==
  ASSUME TypeOK, SeqInv, NEW t \in Threads, pc[t] # "idle" \/ \A u \in Threads : pc[u] = "idle",
         \A u \in Threads \ {t} : pc'[u] = pc[u],
         ~overlapped', After500(t)', Probing(t)'
  PROVE  SeqInv'
<1>1. \A u \in Threads \ {t} : pc[u] = "idle" /\ pc'[u] = "idle"
  BY Zenon DEF SeqInv, Seq1, Solo
<1>2. \A u \in Threads \ {t} : After500(u)' /\ Probing(u)'
  <2> SUFFICES ASSUME NEW u \in Threads \ {t}
               PROVE  After500(u)' /\ Probing(u)'
    OBVIOUS
  <2>1. pc'[u] = "idle"
    BY <1>1
  <2> QED
    BY <2>1 DEF After500, Probing, BeforeLabels
<1> QED
  BY <1>1, <1>2 DEF SeqInv, Seq1, Solo

\* Between switches the roles are settled.
LEMMA SettledAlone ==
  ASSUME SwitchInv, SeqInv, NEW t \in Threads, pc[t] # "idle" \/ \A u \in Threads : pc[u] = "idle",
         ~Switching(t)
  PROVE  Settled
<1>1. \A u \in Threads : ~Switching(u)
  BY DEF SeqInv, Seq1, Solo, Switching, SwitchPc
<1> QED
  BY <1>1 DEF SwitchInv, Alone, SeqInv, Seq1

\* process_payment up to the call's result.
LEMMA CallSeq ==
  ASSUME TypeOK, SeqInv, NEW t \in Threads,
         BeginAlone(t) \/ Route(t) \/ Send(t) \/ Unevaluate(t) \/ Return(t)
  PROVE  SeqInv'
<1> USE DEF TypeOK, roles, stats, locals, env, Goto, At
<1>1. /\ pc[t] # "idle" \/ \A u \in Threads : pc[u] = "idle"
      /\ \A u \in Threads \ {t} : pc'[u] = pc[u]
      /\ ~overlapped'
  BY SMT, SMTT(20) DEF BeginAlone, Begin, Route, Send, Unevaluate, Return, SeqInv, Seq1
<1>2. /\ pc'[t] \in {"idle", "route", "send", "unevaluate", "response"}
      /\ pc'[t] = "response" => t \notin Pools \/ leg'[t] # 1 \/ ~evaluated'
  BY SMT, SMTT(20) DEF BeginAlone, Begin, Route, Send, Unevaluate, Return
<1>3. After500(t)' /\ Probing(t)'
  <2> HIDE DEF TypeOK, roles, stats, locals, env, Goto, At
  <2>1. After500(t)'
    BY <1>2, Zenon DEF After500, BeforeLabels
  <2>2. Probing(t)'
    BY <1>2 DEF Probing, BeforeLabels
  <2> QED
    BY <2>1, <2>2, Zenon
<1> QED
  BY <1>1, <1>3, AloneKeeps, Zenon

\* handle_response of a code 500.
LEMMA ErrorSeq ==
  ASSUME TypeOK, SwitchInv, SeqInv, NEW t \in Threads, SetDown(t) \/ CheckDown(t)
  PROVE  SeqInv'
<1> USE DEF TypeOK, roles, stats, locals, env, Goto, At
<1>1. /\ pc[t] # "idle" /\ \A u \in Threads \ {t} : pc'[u] = pc[u]
      /\ ~overlapped' /\ pc[t] \in {"setdown", "checkdown"}
  BY SMT, SMTT(20) DEF SetDown, CheckDown, Switch, SeqInv, Seq1
<1>2. After500(t) /\ Settled /\ Called(t) \in Processors
  BY <1>1, SettledAlone, Zenon DEF SeqInv, Switching, SwitchPc, Called
<1>3. /\ Called(t)' = Called(t) /\ code'[t] = code[t] /\ primary_label' = primary_label
      /\ leg'[t] = leg[t]
  BY DEF SetDown, CheckDown, Called
<1>4. CASE SetDown(t)
  <2>1. pc'[t] = "checkdown" /\ flag'[t] = flag[t] /\ down'[Called(t)]
    BY <1>2, <1>4, SMT, SMTT(20) DEF SetDown
  <2>2. After500(t)'
    BY <1>1, <1>2, <1>3, <1>4, <2>1, ZenonT(40) DEF After500, BeforeLabels, SetDown
  <2>3. Probing(t)'
    <3> HIDE DEF TypeOK, roles, stats, locals, env, Goto, At
    <3>1. code[t] # 500 => t \notin Pools \/ leg[t] # 1 \/ DefaultUrl = FallbackUrl
      BY <1>1, Zenon DEF Probing, SeqInv
    <3> QED
      BY <1>3, <3>1, Zenon DEF Probing
  <2> QED
    BY <1>1, <2>2, <2>3, AloneKeeps
<1>5. CASE CheckDown(t)
  <2>1. /\ pc[t] = "checkdown" /\ down' = down
        /\ \/ pc'[t] = "url1" /\ ret'[t] = "return"
           \/ pc'[t] = "return"
    BY <1>5, SMT, SMTT(20) DEF CheckDown, Switch
  <2>2. ASSUME code[t] = 500
        PROVE  IF \/ down[Default] /\ ~down[Fallback] /\ primary_label = Default
                  \/ ~down[Default] /\ down[Fallback] /\ primary_label # Default
               THEN pc'[t] = "url1"
               ELSE pc'[t] = "return"
    <3>1. down[Called(t)] = TRUE /\ (flag[t] <=> primary_label = Default)
      BY <1>2, <2>1, <2>2 DEF After500
    <3>2. [down EXCEPT ![Called(t)] = TRUE] = down
      BY <1>2, <3>1
    <3>3. PICK own \in {TRUE, down[Called(t)]} :
             IF \/ /\ [down EXCEPT ![Called(t)] = own][Default]
                   /\ ~[down EXCEPT ![Called(t)] = own][Fallback] /\ flag[t]
                \/ /\ ~[down EXCEPT ![Called(t)] = own][Default]
                   /\ [down EXCEPT ![Called(t)] = own][Fallback] /\ ~flag[t]
             THEN Switch(t, "return")
             ELSE Goto(t, "return") /\ UNCHANGED ret
      BY <1>5, Zenon DEF CheckDown
    <3>4. own = TRUE
      BY <3>1, Zenon
    <3>5. IF \/ down[Default] /\ ~down[Fallback] /\ flag[t]
             \/ ~down[Default] /\ down[Fallback] /\ ~flag[t]
          THEN Switch(t, "return")
          ELSE Goto(t, "return") /\ UNCHANGED ret
      BY <3>3, <3>2, <3>4, Zenon
    <3> QED
      BY <3>1, <3>5, SMT, SMTT(20) DEF Switch
  <2>3. After500(t)'
    <3> SUFFICES ASSUME code[t] = 500
                 PROVE  /\ pc'[t] = "url1" => primary_label = Called(t)
                        /\ pc'[t] = "return" => primary_label # Called(t) \/ down[Other(Called(t))]
      BY <1>3, <2>1, SMT, SMTT(20) DEF After500, BeforeLabels, Other
    <3>1. down[Called(t)]
      BY <1>2, <2>1, Zenon DEF After500
    <3> QED
      BY <1>2, <2>2, <3>1, SMT, SMTT(20) DEF Settled, Other, Processors, Default, Fallback
  <2>4. Probing(t)'
    <3> HIDE DEF TypeOK, roles, stats, locals, env, Goto, At
    <3>1. code[t] # 500 => t \notin Pools \/ leg[t] # 1 \/ DefaultUrl = FallbackUrl
      BY <1>1, Zenon DEF Probing, SeqInv
    <3> QED
      BY <1>3, <3>1 DEF Probing
  <2> QED
    BY <1>1, <2>3, <2>4, AloneKeeps
<1> QED
  BY <1>4, <1>5

\* handle_response and update_time of any other code, up to evaluate_switch.
LEMMA RecoverSeq ==
  ASSUME TypeOK, SeqInv, NEW t \in Threads,
         Response(t) \/ Recover(t) \/ Clear(t) \/ CheckOther(t) \/ UpdateTime(t)
  PROVE  SeqInv'
<1> USE DEF TypeOK, roles, stats, locals, env, Goto, At
<1>1. /\ pc[t] # "idle" /\ \A u \in Threads \ {t} : pc'[u] = pc[u]
      /\ ~overlapped'
  BY SMT, SMTT(20) DEF Response, Recover, Clear, CheckOther, UpdateTime, Switch, SeqInv, Seq1
<1>2. /\ evaluated' = evaluated /\ code' = code /\ leg' = leg
      /\ primary_label' = primary_label
  BY ZenonT(40) DEF Response, Recover, Clear, CheckOther, UpdateTime
<1>3. \/ /\ pc[t] = "response" /\ code[t] = 500 /\ pc'[t] = "setdown"
         /\ (flag'[t] <=> primary_label = Default)
      \/ pc[t] = "response" /\ code[t] # 500 /\ pc'[t] = "recover"
      \/ /\ pc[t] \in {"recover", "clear", "checkother", "time"}
         /\ \/ pc'[t] \in {"clear", "checkother", "time", "evaluate"}
            \/ pc'[t] = "url1" /\ ret'[t] = "time"
  <2>1. CASE Response(t)
    <3>1. pc[t] = "response" /\ pc'[t] = IF code[t] = 500 THEN "setdown" ELSE "recover"
      BY <2>1, SMT, SMTT(20) DEF Response
    <3>2. flag'[t] = (primary_label = Default)
      BY <2>1, Zenon DEF Response
    <3> QED
      BY <3>1, <3>2, Zenon
  <2>2. CASE Recover(t) \/ Clear(t)
    BY <2>2, SMT, SMTT(20) DEF Recover, Clear
  <2>3. CASE CheckOther(t) \/ UpdateTime(t)
    BY <2>3, SMT, SMTT(20) DEF CheckOther, UpdateTime, Switch
  <2> QED
    BY <2>1, <2>2, <2>3
<1>4. After500(t) /\ Probing(t)
  BY DEF SeqInv
<1> HIDE DEF TypeOK, roles, stats, locals, env, Goto, At
<1>5. After500(t)'
  <2>1. CASE code[t] # 500
    BY <1>2, <2>1, Zenon DEF After500
  <2>2. CASE code[t] = 500
    <3>1. pc[t] \notin {"recover", "clear", "checkother", "time"}
      BY <1>4, <2>2, Zenon DEF After500
    <3>2. pc'[t] = "setdown" /\ (flag'[t] <=> primary_label = Default)
      BY <1>3, <2>2, <3>1, ZenonT(40)
    <3> QED
      BY <1>2, <3>2, Zenon DEF After500, BeforeLabels
  <2> QED
    BY <2>1, <2>2
<1>6. Probing(t)'
  BY <1>2, <1>3, <1>4, SMT, SMTT(20) DEF Probing, BeforeLabels
<1> QED
  BY <1>1, <1>5, <1>6, AloneKeeps, Zenon

\* evaluate_switch.
LEMMA EvaluateSeq ==
  ASSUME TypeOK, SwitchInv, SeqInv, NEW t \in Threads,
         Evaluate(t) \/ Mark(t) \/ Compare(t) \/ Decide(t)
  PROVE  SeqInv'
<1> USE DEF TypeOK, roles, stats, locals, env, Goto, At
<1>1. /\ pc[t] # "idle" /\ \A u \in Threads \ {t} : pc'[u] = pc[u]
      /\ ~overlapped' /\ code' = code /\ leg' = leg
      /\ primary_label' = primary_label /\ time_ms' = time_ms
      /\ pc[t] \in {"evaluate", "mark", "compare", "decide"}
      /\ pc'[t] \in {"mark", "compare", "decide", "return", "url1"}
  BY SMT, SMTT(20) DEF Evaluate, Mark, Compare, Decide, Switch, SeqInv, Seq1
<1>2. After500(t) /\ Probing(t) /\ Settled
  BY <1>1, SettledAlone, Zenon DEF SeqInv, Switching, SwitchPc
<1> HIDE DEF TypeOK, roles, stats, locals, env, Goto, At
<1>3. After500(t)'
  BY <1>1, <1>2, Zenon DEF After500
<1>4. Probing(t)'
  <2>1. SUFFICES ASSUME DefaultUrl # FallbackUrl, t \in Pools, leg[t] = 1, code[t] # 500
                 PROVE  /\ pc'[t] = "url1" => ret'[t] = "return"
                        /\ pc'[t] = "decide" => (flag'[t] <=> Better)
                        /\ time_ms[Default] # 0 /\ time_ms[Fallback] # 0 =>
                             /\ pc'[t] = "url1" => (primary_label = Default <=> Better)
                             /\ pc'[t] = "return" => (primary_label = Fallback <=> Better)
    BY <1>1, SMT, SMTT(20) DEF Probing, BeforeLabels, Better
  <2>2. CASE Evaluate(t)
    <3>1. pc[t] = "evaluate" /\ ~evaluated
      BY <1>2, <2>1, <2>2 DEF Evaluate, Probing, At
    <3>2. pc'[t] = "mark"
      BY <2>2, <3>1, ZenonT(40) DEF Evaluate, Goto, TypeOK
    <3> QED
      BY <3>2, Zenon
  <2>3. CASE Mark(t)
    BY <2>3, SMT, SMTT(20) DEF Mark, Goto, TypeOK
  <2>4. CASE Compare(t)
    BY <2>4, ZenonT(40) DEF Compare, Better, Goto, TypeOK
  <2>5. CASE Decide(t)
    <3>1. (flag[t] <=> Better)
      BY <1>2, <2>1, <2>5, Zenon DEF Decide, Probing, At
    <3>2. (main_url = DefaultUrl) = (primary_label = Default)
      BY <1>2, <2>1, Zenon DEF Settled, Url
    <3>3. (primary_label = Fallback) = (primary_label # Default)
      BY DEF TypeOK, Processors, Default, Fallback
    <3>4. IF Better = (primary_label = Default)
          THEN Switch(t, "return")
          ELSE Goto(t, "return") /\ UNCHANGED ret
      BY <2>5, <3>1, <3>2, Zenon DEF Decide
    <3>5. CASE Better = (primary_label = Default)
      <4>1. pc'[t] = "url1" /\ ret'[t] = "return"
        BY <3>4, <3>5, SMT, SMTT(20) DEF Switch, Goto, TypeOK
      <4> QED
        BY <3>5, <4>1, Zenon
    <3>6. CASE Better # (primary_label = Default)
      <4>1. pc'[t] = "return"
        BY <3>4, <3>6, SMT, SMTT(20) DEF Goto, TypeOK
      <4>2. (primary_label = Fallback <=> Better)
        BY <3>3, <3>6, Zenon DEF Better
      <4> QED
        BY <4>1, <4>2
    <3> QED
      BY <3>5, <3>6, Zenon
  <2> QED
    BY <2>2, <2>3, <2>4, <2>5, Zenon
<1> QED
  BY <1>1, <1>3, <1>4, AloneKeeps, Zenon

\* What Probing says of a thread in trigger_switch or just after it.
LEMMA InSwitch ==
  ASSUME NEW t, code' = code, leg' = leg, time_ms' = time_ms, evaluated' = evaluated,
         Better' = Better,
         DefaultUrl # FallbackUrl /\ t \in Pools /\ leg[t] = 1 /\ code[t] # 500 =>
           /\ pc'[t] \in BeforeLabels \cup {"label3", "return", "time"}
           /\ pc'[t] \in BeforeLabels \cup {"label3"} /\ ret'[t] = "time" => ~evaluated
           /\ pc'[t] = "time" => ~evaluated
           /\ time_ms[Default] # 0 /\ time_ms[Fallback] # 0 =>
                /\ pc'[t] \in BeforeLabels /\ ret'[t] = "return"
                     => (primary_label' = Default <=> Better)
                /\ pc'[t] = "label3" /\ ret'[t] = "return"
                     => (primary_label' = Fallback <=> Better)
                /\ pc'[t] = "return" => (primary_label' = Fallback <=> Better)
  PROVE  Probing(t)'
BY SMT, SMTT(20) DEF Probing, BeforeLabels

\* trigger_switch.
LEMMA TriggerSeq ==
  ASSUME TypeOK, SwitchInv, SeqInv, NEW t \in Threads, SwitchStep(t)
  PROVE  SeqInv'
<1> USE DEF TypeOK, roles, stats, locals, env, Goto, At
<1>1. /\ pc[t] # "idle" /\ \A u \in Threads \ {t} : pc'[u] = pc[u]
      /\ code' = code /\ leg' = leg /\ first' = first /\ second' = second
      /\ stats' = stats
      /\ pc[t] \in BeforeLabels \cup {"label3"}
  BY SMT, SMTT(20) DEF SwitchStep, SwapUrl1, SwapUrl2, SwapUrl3, SwapLabel1, SwapLabel2, SwapLabel3,
         BeforeLabels
<1>2. After500(t) /\ Probing(t) /\ SwitchState(t)
  BY Zenon DEF SeqInv, Seq1, SwitchInv, Alone
<1>3. ~overlapped'
  <2>1. pc[t] = "url1" => \A u \in Threads : ~Switching(u)
    BY <1>1, ZenonT(40) DEF SeqInv, Seq1, Solo, Switching, SwitchPc
  <2> QED
    BY <2>1 DEF SwitchStep, SwapUrl1, SwapUrl2, SwapUrl3, SwapLabel1, SwapLabel2,
                SwapLabel3, SeqInv, Seq1
<1>4. \/ /\ pc[t] \in BeforeLabels /\ pc'[t] \in BeforeLabels
         /\ primary_label' = primary_label /\ ret' = ret
      \/ /\ pc[t] = "label2" /\ pc'[t] = "label3" /\ ret' = ret
         /\ primary_label' = Other(primary_label)
      \/ /\ pc[t] = "label3" /\ pc'[t] = ret[t]
         /\ primary_label' = primary_label
  BY <1>2, SMT, SMTT(20) DEF SwitchStep, SwapUrl1, SwapUrl2, SwapUrl3, SwapLabel1, SwapLabel2,
              SwapLabel3, BeforeLabels, SwitchState
<1>5. Called(t)' = Called(t) /\ Called(t) \in Processors
  BY <1>1 DEF Called
<1>6. Other(primary_label) # primary_label
  BY OtherFacts
<1>7. Other(primary_label) = Fallback <=> primary_label = Default
  BY DEF Other, Processors, Default, Fallback
<1>8. down' = down /\ time_ms' = time_ms /\ evaluated' = evaluated
  BY <1>1
<1> HIDE DEF TypeOK, roles, stats, locals, env, Goto, At
<1>9. After500(t)'
  <2> SUFFICES ASSUME code[t] = 500
               PROVE  /\ pc'[t] \in BeforeLabels \cup {"label3", "return"}
                      /\ pc'[t] \in BeforeLabels
                           => primary_label' = Called(t) /\ ret'[t] = "return"
                      /\ pc'[t] = "label3"
                           => primary_label' # Called(t) /\ ret'[t] = "return"
                      /\ pc'[t] = "return" => primary_label' # Called(t)
    BY <1>1, <1>5, SMT, SMTT(20) DEF After500, BeforeLabels
  <2>1. /\ pc[t] \in BeforeLabels => primary_label = Called(t) /\ ret[t] = "return"
        /\ pc[t] = "label3" => primary_label # Called(t) /\ ret[t] = "return"
    BY <1>2, Zenon DEF After500
  <2> QED
    BY <1>4, <1>6, <2>1, SMT, SMTT(20) DEF BeforeLabels
<1>10. Probing(t)'
  <2> DEFINE before == primary_label = Default
             after  == primary_label = Fallback
  <2>1. Other(primary_label) = Fallback <=> before
    BY <1>7
  <2>2. Better' = Better
    BY <1>8, Zenon DEF Better
  <2>3. SUFFICES ASSUME DefaultUrl # FallbackUrl, t \in Pools, leg[t] = 1, code[t] # 500
                 PROVE  /\ pc'[t] \in BeforeLabels \cup {"label3", "return", "time"}
                        /\ pc'[t] \in BeforeLabels \cup {"label3"} /\ ret'[t] = "time"
                             => ~evaluated
                        /\ pc'[t] = "time" => ~evaluated
                        /\ time_ms[Default] # 0 /\ time_ms[Fallback] # 0 =>
                             /\ pc'[t] \in BeforeLabels /\ ret'[t] = "return"
                                  => (primary_label' = Default <=> Better)
                             /\ pc'[t] = "label3" /\ ret'[t] = "return"
                                  => (primary_label' = Fallback <=> Better)
                             /\ pc'[t] = "return" => (primary_label' = Fallback <=> Better)
    BY <1>1, <1>8, <2>2, InSwitch, Zenon
  <2>4. /\ pc[t] \in BeforeLabels \cup {"label3"} /\ ret[t] = "time" => ~evaluated
        /\ time_ms[Default] # 0 /\ time_ms[Fallback] # 0 =>
             /\ pc[t] \in BeforeLabels /\ ret[t] = "return" => (before <=> Better)
             /\ pc[t] = "label3" /\ ret[t] = "return" => (after <=> Better)
    BY <1>2, <2>3, Zenon DEF Probing
  <2>5. CASE /\ pc[t] \in BeforeLabels /\ pc'[t] \in BeforeLabels
             /\ primary_label' = primary_label /\ ret' = ret
    BY <2>4, <2>5, Zenon DEF BeforeLabels
  <2>6. CASE /\ pc[t] = "label2" /\ pc'[t] = "label3" /\ ret' = ret
             /\ primary_label' = Other(primary_label)
    <3>1. primary_label' = Fallback <=> before
      BY <2>1, <2>6, Zenon
    <3> QED
      BY <2>4, <2>6, <3>1 DEF BeforeLabels
  <2>7. CASE /\ pc[t] = "label3" /\ pc'[t] = ret[t]
             /\ primary_label' = primary_label
    <3>1. ret[t] \in {"return", "time"}
      BY DEF TypeOK
    <3> QED
      BY <2>4, <2>7, <3>1 DEF BeforeLabels
  <2> QED
    BY <1>4, <2>5, <2>6, <2>7
<1> QED
  BY <1>1, <1>3, <1>9, <1>10, AloneKeeps, Zenon

\* Every step of a sequential behaviour keeps SeqInv.
LEMMA SeqStep ==
  ASSUME TypeOK, SwitchInv, SeqInv, [SequentialNext]_vars
  PROVE  SeqInv'
<1>1. ASSUME NEW t \in Threads, BeginAlone(t) \/ Step(t)
      PROVE  SeqInv'
  BY <1>1, CallSeq, ErrorSeq, RecoverSeq, EvaluateSeq, TriggerSeq DEF Step
<1>2. CASE UNCHANGED <<roles, stats, pc, locals, overlapped>>
  <2>1. /\ pc' = pc /\ code' = code /\ flag' = flag /\ ret' = ret /\ leg' = leg
        /\ down' = down /\ time_ms' = time_ms /\ evaluated' = evaluated
        /\ primary_label' = primary_label /\ overlapped' = overlapped
        /\ \A t \in Threads : Called(t)' = Called(t)
    BY <1>2 DEF roles, stats, locals, Called
  <2>2. Seq1'
    BY <2>1 DEF SeqInv, Seq1, Solo
  <2>3. ASSUME NEW t \in Threads
        PROVE  After500(t)' /\ Probing(t)'
    BY <2>1, <2>3, UnchangedSeq DEF SeqInv
  <2> QED
    BY <2>2, <2>3, Zenon DEF SeqInv
<1> QED
  BY <1>1, <1>2 DEF SequentialNext, HealthChange, vars, env

\* What the sequential behaviours keep.
LEMMA SequentialInvariant == Sequential => [](TypeOK /\ SwitchInv /\ SeqInv)
<1>1. Sequential => Spec
  <2>1. [SequentialNext]_vars => [Next]_vars
    BY Zenon DEF SequentialNext, Next, BeginAlone
  <2> QED
    BY <2>1, PTL DEF Sequential, Spec
<1>2. Init => SeqInv
  BY SMT, SMTT(20) DEF Init, SeqInv, Seq1, Solo, After500, Probing, BeforeLabels
<1>3. Spec => []SwitchInv
  <2>1. Init => SwitchInv
    BY SMT, SMTT(20) DEF Init, SwitchInv, Alone, SwitchState, Settled, Switching, SwitchPc,
           Other, Url, Default, Fallback
  <2> QED
    BY <2>1, SwitchInvStep, TypeCorrect, PTL DEF Spec
<1>4. TypeOK /\ SwitchInv /\ SeqInv /\ [SequentialNext]_vars => SeqInv'
  BY SeqStep
<1> QED
  BY <1>1, <1>2, <1>3, <1>4, TypeCorrect, PTL DEF Sequential

\* With one call of process_payment at a time, and for any number of threads:
\* after an answer 500 handle_response has made the other processor the
\* primary, or has it marked down as well.
THEOREM FailoverAfterError == Sequential => []FailoverOn500
<1>1. SeqInv => FailoverOn500
  BY DEF SeqInv, After500, FailoverOn500, At
<1> QED
  BY <1>1, SequentialInvariant, PTL

\* With one call at a time, and for any number of threads, durations and fee
\* difference: after a probe that did not answer 500 the primary is what
\* evaluate_switch's comparison of the two times makes it.
THEOREM ProbeDecidesPrimary == Sequential => []ProbeDecides
<1>1. ASSUME TypeOK, SeqInv
      PROVE  ProbeDecides
  BY <1>1, ZenonT(40) DEF SeqInv, Probing, Better, ProbeDecides, At, Threads
<1>2. TypeOK /\ SeqInv => ProbeDecides
  BY <1>1
<1> QED
  BY <1>2, SequentialInvariant, PTL
==============================================================================
