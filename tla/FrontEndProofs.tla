--------------------------- MODULE FrontEndProofs ---------------------------
(***************************************************************************)
(* Theorems about the sensors HAL front end for every set of sensors,      *)
(* composites, periods and backend threads (SensorManager), and about the  *)
(* wake lock of its events (EventDispatcher).                              *)
(*                                                                         *)
(* Three of the safety properties rest on one inductive invariant. It says *)
(* what a control operation may rely on while state_mutex_ is free and a   *)
(* backend is being called: nobody else changes the requests, the backend  *)
(* is in the state on record, and every sensor the operation does not      *)
(* still have to visit already matches what is asked of it.                *)
(***************************************************************************)
EXTENDS MCFrontEnd, TLAPS, WellFoundedInduction

Visiting == pc \in {"batch", "activate", "join"}
Activating(h) == op.kind = "activate" /\ op.handle = h /\ op.enabled
Deactivating(h) == \/ op.kind = "activate" /\ op.handle = h /\ ~op.enabled
                   \/ op.kind = "deactivateAll"

\* The locals of the control thread, stage by stage.
ControlInv ==
    /\ pc = "idle" => op = NoOp
    /\ pc \in {"idle", "flush", "return"} => todo = {}
    /\ pc = "flush" => op.kind = "flush"
    /\ Visiting =>
         /\ cur \in Hardware /\ cur \notin todo
         /\ want.active = DesiredActive(cur)
         /\ want.activate = (want.active # backend_active[cur])
    /\ pc = "join" => want.activate

\* An Activate() of a hardware sensor visits that sensor and no other.
ActivateInv ==
    op.kind = "activate" /\ op.handle \in Hardware =>
        /\ client_active[op.handle] = op.enabled
        /\ pc = "apply" => todo = {op.handle}
        /\ Visiting => cur = op.handle /\ todo = {}

\* What the manager has on record is what the backend does.
RealInv ==
    \A h \in Hardware :
        real[h] = IF pc = "join" /\ h = cur THEN want.active ELSE backend_active[h]

\* A request of the framework is being served, except the one in progress.
RunsInv ==
    \A h \in Hardware :
        /\ client_active[h] /\ ~Activating(h) => real[h]
        /\ Activating(h) /\ pc = "return" /\ ret => real[h]
        /\ acked[h] => client_active[h] \/ Deactivating(h)

SafeInv == TypeOK /\ ControlInv /\ ActivateInv /\ RealInv /\ RunsInv

\* The backend was told what the requests add up to, unless it refused.
Matched(h) ==
    ~fault[h] => /\ backend_active[h] = DesiredActive(h)
                 /\ backend_active[h] => backend_period[h] = DesiredPeriod(h)

\* A composite is on the list of each of its inputs, and of nothing else.
CompositeInv ==
    \A h \in Hardware :
        composite_periods[h] = {c \in Composites : composite_active[c] /\ h \in InputOf[c]}

\* Sensors the operation has visited, or has no reason to visit, match; the
\* one it is visiting will, and a failure it is about to report is on record.
MatchInv ==
    /\ \A h \in Hardware : h \notin todo /\ ~(Visiting /\ h = cur) => Matched(h)
    /\ pc = "batch" => want = Desired(cur) /\ ~fault[cur]
    /\ pc \in {"activate", "join"} =>
         /\ ~fault[cur] /\ want.active => backend_period[cur] = DesiredPeriod(cur)
         /\ want.ok = ~fault[cur]
    /\ op.kind = "activate" /\ op.handle \in Hardware =>
         /\ pc = "apply" \/ Visiting => ret
         /\ pc = "return" /\ ~ret => fault[op.handle]

FullInv == SafeInv /\ CompositeInv /\ MatchInv

-----------------------------------------------------------------------------
\* ClampSamplingPeriodNs() yields a period.
LEMMA ClampType ==
    ASSUME NEW h \in Hardware, NEW p \in Nat
    PROVE  ClampSamplingPeriodNs(h, p) \in Nat
  BY SensorsAssumption DEF ClampSamplingPeriodNs

\* The minimum the HAL takes over a set of periods exists and is one of them.
LEMMA MinNat ==
    ASSUME NEW S \in SUBSET Nat, S # {}
    PROVE  /\ Min(S) \in S
           /\ \A p \in S : Min(S) <= p
  <1>1. IsWellFoundedOn(OpToRel(<, Nat), Nat)
    BY NatLessThanWellFounded
  <1>2. PICK m \in S : \A p \in S : ~(<<p, m>> \in OpToRel(<, Nat))
    BY <1>1, WFMin, Zenon
  <1>3. \A p \in S : m <= p
    <2>1. OpToRel(<, Nat) = {ss \in Nat \X Nat : ss[1] < ss[2]}
      BY Zenon DEF OpToRel
    <2>2. \A p \in S : ~(<<p, m>> \in {ss \in Nat \X Nat : ss[1] < ss[2]})
      BY <1>2, <2>1, Zenon
    <2>3. ASSUME NEW p \in S PROVE ~(p < m)
      <3>1. <<p, m>> \in Nat \X Nat /\ <<p, m>>[1] = p /\ <<p, m>>[2] = m
        OBVIOUS
      <3> QED
        BY <2>2, <3>1, Zenon
    <2> QED
      BY <2>3
  <1>4. \E m1 \in S : \A p \in S : m1 <= p
    BY <1>3
  <1>5. Min(S) = CHOOSE x \in S : \A y \in S : x <= y
    BY DEF Min
  <1> QED
    BY <1>4, <1>5

LEMMA CompositeRequestsType ==
    ASSUME TypeOK, NEW h \in Hardware
    PROVE  CompositeRequests(h) \subseteq Nat
  <1>1. \A c \in composite_periods[h] : InputPeriod[c] \in Nat
    BY SensorsAssumption DEF TypeOK
  <1> QED
    BY <1>1, ClampType DEF CompositeRequests

LEMMA DesiredPeriodType ==
    ASSUME TypeOK, NEW h \in Hardware
    PROVE  DesiredPeriod(h) \in Nat
  <1> DEFINE client == IF client_active[h] /\ client_period[h] # 0
                       THEN {client_period[h]} ELSE {}
             asked == client \cup CompositeRequests(h)
  <1>1. client_period[h] \in Nat
    BY DEF TypeOK
  <1>2. asked \in SUBSET Nat
    BY <1>1, CompositeRequestsType
  <1>3. asked # {} => Min(asked) \in Nat
    <2> HIDE DEF asked
    <2> QED BY <1>2, MinNat
  <1> QED
    BY <1>1, <1>3 DEF DesiredPeriod

LEMMA DesiredType ==
    ASSUME TypeOK, NEW h \in Hardware
    PROVE  Desired(h) \in [active : BOOLEAN, period : Nat, latency : Nat,
                           batch : BOOLEAN, activate : BOOLEAN, ok : BOOLEAN]
  <1>1. DesiredLatency(h) \in Nat
    BY DEF TypeOK, DesiredLatency
  <1>2. DesiredActive(h) \in BOOLEAN
    BY DEF TypeOK, DesiredActive
  <1> QED
    BY <1>1, <1>2, DesiredPeriodType DEF Desired, NeedActivate

-----------------------------------------------------------------------------
(* Type correctness. *)

LEMMA InitType == Init => TypeOK
  <1> SUFFICES ASSUME Init PROVE TypeOK
    OBVIOUS
  <1>1. client_period \in [Hardware -> Nat]
    BY ClampType, SensorsAssumption DEF Init
  <1>2. op \in [kind : {"none", "activate", "batch", "deactivateAll", "mode", "flush"},
                handle : Handles \cup {Nobody}, enabled : BOOLEAN]
    BY DEF Init, NoOp
  <1>3. want \in [active : BOOLEAN, period : Nat, latency : Nat,
                  batch : BOOLEAN, activate : BOOLEAN, ok : BOOLEAN]
    BY DEF Init, NoWant
  <1>4. pending \in [EventThreads -> Batches]
    BY DEF Init, NoBatch, Batches
  <1> QED
    BY <1>1, <1>2, <1>3, <1>4 DEF Init, TypeOK

OpKinds == {"none", "activate", "batch", "deactivateAll", "mode", "flush"}
ControlType ==
    /\ pc \in {"idle", "apply", "batch", "activate", "join", "flush", "return"}
    /\ op \in [kind : OpKinds, handle : Handles \cup {Nobody}, enabled : BOOLEAN]
    /\ todo \subseteq Hardware
    /\ cur \in Hardware \cup {Nobody}
    /\ want \in [active : BOOLEAN, period : Nat, latency : Nat,
                 batch : BOOLEAN, activate : BOOLEAN, ok : BOOLEAN]
    /\ ret \in BOOLEAN

LEMMA TypeControl == TypeOK => ControlType
  BY DEF TypeOK, ControlType, OpKinds

\* Entering an operation keeps the control thread's locals well typed.
LEMMA ApplyType ==
    ASSUME TypeOK, NEW k \in OpKinds, NEW g \in Handles \cup {Nobody}, NEW e \in BOOLEAN,
           NEW hs \in SUBSET Hardware, Apply(k, g, e, hs)
    PROVE  ControlType'
  BY TypeControl DEF Apply, ControlType

LEMMA NextType == TypeOK /\ [Next]_vars => TypeOK'
  <1> SUFFICES ASSUME TypeOK, [Next]_vars PROVE TypeOK'
    OBVIOUS
  <1>1. ASSUME NEW h \in Hardware, NEW e \in BOOLEAN, ActivateHardware(h, e)
        PROVE TypeOK'
    <2>1. CASE client_active[h] = e
      BY <1>1, <2>1 DEF ActivateHardware, TypeOK, Handles, requests, backendView, control
    <2>2. CASE client_active[h] # e
      <3>1. ControlType'
        BY <1>1, <2>2, ApplyType DEF ActivateHardware, Handles, OpKinds
      <3> QED
        BY <1>1, <2>2, <3>1
        DEF ActivateHardware, ControlType, OpKinds, TypeOK, requests, backendView
    <2> QED
      BY <2>1, <2>2
  <1>2. ASSUME NEW c \in Composites, NEW e \in BOOLEAN, ActivateComposite(c, e)
        PROVE TypeOK'
    <2>1. InputOf[c] \subseteq Hardware
      BY SensorsAssumption
    <2>2. CASE composite_active[c] = e
      <3>1. acked' \in [Handles -> BOOLEAN]
        BY <1>2, <2>2 DEF ActivateComposite, TypeOK, requests, control
      <3> QED
        BY <1>2, <2>2, <3>1 DEF ActivateComposite, TypeOK, requests, backendView, control
    <2>3. CASE composite_active[c] # e
      <3>1. composite_periods' \in [Hardware -> SUBSET Composites]
        BY <1>2, <2>3 DEF ActivateComposite, TypeOK
      <3>2. ControlType'
        BY <1>2, <2>1, <2>3, ApplyType DEF ActivateComposite, Handles, OpKinds
      <3>3. composite_active' \in [Composites -> BOOLEAN]
        BY <1>2, <2>3 DEF ActivateComposite, TypeOK
      <3>4. UNCHANGED <<client_active, client_period, client_latency, acked, backendView,
                        mode, real, pending, fault>>
        BY <1>2, <2>3 DEF ActivateComposite
      <3> QED
        BY <3>1, <3>2, <3>3, <3>4 DEF ControlType, OpKinds, TypeOK, backendView
    <2> QED
      BY <2>2, <2>3
  <1>3. ASSUME NEW h \in Hardware, NEW p \in Periods, NEW l \in Latencies, Batch(h, p, l)
        PROVE TypeOK'
    <2>1. ClampSamplingPeriodNs(h, p) \in Nat /\ l \in Nat
      BY ClampType, SensorsAssumption
    <2>2. ControlType'
      <3>1. CASE client_active[h]
        <4>1. Apply("batch", h, FALSE, {h})
          BY <1>3, <3>1 DEF Batch
        <4>2. "batch" \in OpKinds /\ h \in Handles \cup {Nobody} /\ {h} \in SUBSET Hardware
          BY DEF OpKinds, Handles
        <4> QED
          BY <4>1, <4>2, ApplyType
      <3>2. CASE ~client_active[h]
        BY <1>3, <3>2, TypeControl DEF Batch, ControlType, control
      <3> QED
        BY <3>1, <3>2
    <2> QED
      BY <1>3, <2>1, <2>2 DEF Batch, ControlType, OpKinds, TypeOK, backendView
  <1>4. ASSUME DeactivateAll PROVE TypeOK'
    BY <1>4 DEF DeactivateAll, Apply, TypeOK, Handles, backendView, control
  <1>5. ASSUME NEW m \in {"NORMAL", "DATA_INJECTION"}, SetOperationMode(m)
        PROVE TypeOK'
    BY <1>5 DEF SetOperationMode, Apply, TypeOK, Handles, requests, backendView
  <1>6. ASSUME NEW h \in Handles, Flush(h) PROVE TypeOK'
    BY <1>6 DEF Flush, TypeOK, Handles, requests, backendView
  <1>7. CASE FlushBackend
    BY <1>7 DEF FlushBackend, TypeOK, requests, backendView
  <1>8. ASSUME NEW h \in todo, ApplyHardwareState(h) PROVE TypeOK'
    <2>1. h \in Hardware
      BY DEF TypeOK
    <2>2. want' \in [active : BOOLEAN, period : Nat, latency : Nat,
                     batch : BOOLEAN, activate : BOOLEAN, ok : BOOLEAN]
      BY <1>8, <2>1, DesiredType DEF ApplyHardwareState
    <2> QED
      BY <1>8, <2>1, <2>2 DEF ApplyHardwareState, TypeOK, requests, backendView
  <1>9. ASSUME NEW ok \in BOOLEAN, CallBatch(ok) PROVE TypeOK'
    <2>1. want.period \in Nat /\ want.latency \in Nat
      BY DEF TypeOK
    <2>2. /\ backend_period' \in [Hardware -> Nat \cup {-1}]
          /\ backend_latency' \in [Hardware -> Nat \cup {-1}]
      BY <1>9, <2>1 DEF CallBatch, TypeOK
    <2> QED
      BY <1>9, <2>2 DEF CallBatch, TypeOK, requests
  <1>10. ASSUME NEW ok \in BOOLEAN, CallActivate(ok) PROVE TypeOK'
    <2>1. real' \in [Hardware -> BOOLEAN] /\ fault' \in [Hardware -> BOOLEAN]
      BY <1>10 DEF CallActivate, TypeOK
    <2>2. ret' \in BOOLEAN
      BY <1>10 DEF CallActivate, ApplyReturns, TypeOK
    <2>3. pc' \in {"join", "return", "apply"}
      BY <1>10 DEF CallActivate, ApplyReturns
    <2> QED
      BY <1>10, <2>1, <2>2, <2>3 DEF CallActivate, TypeOK, requests, backendView
  <1>11. CASE ActivateReturns
    BY <1>11 DEF ActivateReturns, ApplyReturns, TypeOK, requests
  <1>12. CASE Return
    <2>1. op' \in [kind : {"none", "activate", "batch", "deactivateAll", "mode", "flush"},
                   handle : Handles \cup {Nobody}, enabled : BOOLEAN]
      BY <1>12 DEF Return, NoOp
    <2>2. want' \in [active : BOOLEAN, period : Nat, latency : Nat,
                     batch : BOOLEAN, activate : BOOLEAN, ok : BOOLEAN]
      BY <1>12 DEF Return, NoWant
    <2>3. acked' \in [Handles -> BOOLEAN]
      BY <1>12 DEF Return, TypeOK
    <2> QED
      BY <1>12, <2>1, <2>2, <2>3 DEF Return, TypeOK, backendView
  <1>13. ASSUME NEW t \in Threads, NEW hs \in SUBSET SensorsOf[t], Sample(t, hs)
         PROVE TypeOK'
    <2>1. [stage |-> "posted", sensors |-> hs] \in Batches
      BY SensorsAssumption DEF Batches, Handles
    <2> QED
      BY <1>13, <2>1 DEF Sample, TypeOK, EventThreads, requests, backendView, control
  <1>14. ASSUME NEW t \in EventThreads, NEW d \in SUBSET Composites, OnBackendEvents(t, d)
         PROVE TypeOK'
    <2>1. pending[t].sensors \subseteq Handles
      BY DEF TypeOK, Batches
    <2>2. NoBatch \in Batches
      BY DEF NoBatch, Batches
    <2>3. [stage |-> "collected",
           sensors |-> d \cup {h \in pending[t].sensors : client_active[h]}] \in Batches
      BY <2>1 DEF Batches, Handles
    <2>4. pending' \in [EventThreads -> Batches]
      <3> DEFINE out == d \cup {h \in pending[t].sensors : client_active[h]}
      <3>1. CASE mode = "DATA_INJECTION"
        BY <1>14, <2>2, <3>1 DEF OnBackendEvents, TypeOK
      <3>2. CASE mode # "DATA_INJECTION"
        <4>1. pending' = [pending EXCEPT ![t] =
                            IF out = {} THEN NoBatch
                            ELSE [stage |-> "collected", sensors |-> out]]
          BY <1>14, <3>2 DEF OnBackendEvents
        <4> QED
          BY <2>2, <2>3, <4>1 DEF TypeOK
      <3> QED
        BY <3>1, <3>2
    <2> QED
      BY <1>14, <2>4 DEF OnBackendEvents, TypeOK, requests, backendView, control
  <1>15. ASSUME NEW t \in EventThreads, Deliver(t) PROVE TypeOK'
    <2>1. NoBatch \in Batches
      BY DEF NoBatch, Batches
    <2> QED
      BY <1>15, <2>1 DEF Deliver, TypeOK, requests, backendView, control
  <1>16. ASSUME NEW h \in Hardware, InjectEvent(h) PROVE TypeOK'
    <2>1. [stage |-> "collected", sensors |-> {h}] \in Batches
      BY DEF Batches, Handles
    <2> QED
      BY <1>16, <2>1 DEF InjectEvent, TypeOK, EventThreads, requests, backendView, control
  <1>17. CASE UNCHANGED vars
    BY <1>17 DEF vars, requests, backendView, control, TypeOK
  <1> QED
    BY <1>1, <1>2, <1>3, <1>4, <1>5, <1>6, <1>7, <1>8, <1>9, <1>10, <1>11, <1>12, <1>13,
       <1>14, <1>15, <1>16, <1>17
    DEF Next, ControlCall, ControlStep, EventStep

\* The state of the front end is well typed in every behaviour: in particular
\* an operation only ever visits hardware sensors, and every period passed to
\* a backend is one.
THEOREM TypeCorrect == Spec => []TypeOK
  <1> QED
    BY InitType, NextType, PTL DEF Spec

-----------------------------------------------------------------------------
(* The control thread, the backends and the acknowledgements. *)

LEMMA InitSafe == Init => SafeInv
  BY InitType, SensorsAssumption
  DEF Init, SafeInv, ControlInv, ActivateInv, RealInv, RunsInv, Visiting, Activating,
      Deactivating, NoOp, Handles

\* Threads that only move events do not touch any of it.
LEMMA EventsSafe ==
    ASSUME SafeInv, TypeOK', UNCHANGED <<requests, backendView, control, real, acked>>
    PROVE  SafeInv'
  BY DEF SafeInv, ControlInv, ActivateInv, RealInv, RunsInv, Visiting, Activating,
         Deactivating, DesiredActive, requests, backendView, control

LEMMA NextSafe == SafeInv /\ [Next]_vars => SafeInv'
  <1> SUFFICES ASSUME SafeInv, [Next]_vars PROVE SafeInv'
    OBVIOUS
  <1> USE DEF SafeInv
  <1>0. TypeOK'
    BY NextType
  <1>1. ASSUME NEW h \in Hardware, NEW e \in BOOLEAN, ActivateHardware(h, e)
        PROVE SafeInv'
    <2>1. CASE client_active[h] = e
      <3>1. UNCHANGED <<requests, backendView, control, real>>
            /\ acked' = [acked EXCEPT ![h] = e]
        BY <1>1, <2>1 DEF ActivateHardware
      <3>2. RunsInv'
        BY <2>1, <3>1
        DEF RunsInv, TypeOK, Handles, Activating, Deactivating, requests, control
      <3> QED
        BY <1>0, <3>1, <3>2
        DEF ControlInv, ActivateInv, RealInv, Visiting, DesiredActive, requests,
            backendView, control
    <2>2. CASE client_active[h] # e
      <3>1. /\ pc = "idle" /\ pc' = "apply" /\ todo' = {h} /\ op = NoOp
            /\ op' = [kind |-> "activate", handle |-> h, enabled |-> e]
            /\ client_active' = [client_active EXCEPT ![h] = e]
            /\ UNCHANGED <<real, backend_active, acked, cur, want>>
        BY <1>1, <2>2 DEF ActivateHardware, Apply, ControlInv, backendView
      <3>2. ControlInv' /\ ActivateInv'
        BY <3>1 DEF ControlInv, ActivateInv, Visiting, TypeOK
      <3>3. RealInv'
        BY <3>1 DEF RealInv
      <3>4. RunsInv'
        BY <2>2, <3>1 DEF RunsInv, Activating, Deactivating, NoOp, TypeOK
      <3> QED
        BY <1>0, <3>2, <3>3, <3>4
    <2> QED
      BY <2>1, <2>2
  <1>2. ASSUME NEW c \in Composites, NEW e \in BOOLEAN, ActivateComposite(c, e)
        PROVE SafeInv'
    <2>0. c \notin Hardware
      BY SensorsAssumption
    <2>1. CASE composite_active[c] = e
      <3>1. /\ UNCHANGED <<requests, backendView, control, real>>
            /\ acked' = [acked EXCEPT ![c] = e]
        BY <1>2, <2>1 DEF ActivateComposite
      <3>2. RunsInv'
        BY <2>0, <3>1 DEF RunsInv, TypeOK, Handles, Activating, Deactivating, requests, control
      <3> QED
        BY <1>0, <3>1, <3>2
        DEF ControlInv, ActivateInv, RealInv, Visiting, DesiredActive, requests,
            backendView, control
    <2>2. CASE composite_active[c] # e
      <3>1. /\ pc = "idle" /\ pc' = "apply" /\ op = NoOp
            /\ op' = [kind |-> "activate", handle |-> c, enabled |-> e]
            /\ UNCHANGED <<client_active, real, backend_active, acked, cur, want>>
        BY <1>2, <2>2, SensorsAssumption
        DEF ActivateComposite, Apply, ControlInv, backendView
      <3>2. ControlInv' /\ ActivateInv'
        BY <2>0, <3>1 DEF ControlInv, ActivateInv, Visiting
      <3>3. RealInv'
        BY <3>1 DEF RealInv
      <3>4. RunsInv'
        BY <2>0, <3>1 DEF RunsInv, Activating, Deactivating, NoOp
      <3> QED
        BY <1>0, <3>2, <3>3, <3>4
    <2> QED
      BY <2>1, <2>2
  <1>3. ASSUME NEW h \in Hardware, NEW p \in Periods, NEW l \in Latencies, Batch(h, p, l)
        PROVE SafeInv'
    <2>1. /\ pc = "idle" /\ op = NoOp /\ todo = {}
          /\ UNCHANGED <<client_active, composite_periods, real, backend_active, acked, cur, want>>
      BY <1>3 DEF Batch, Apply, ControlInv, backendView, control
    <2>2. \/ pc' = "apply" /\ op' = [kind |-> "batch", handle |-> h, enabled |-> FALSE]
          \/ UNCHANGED <<pc, op, todo>>
      BY <1>3 DEF Batch, Apply, control
    <2>3. ControlInv' /\ ActivateInv'
      BY <2>1, <2>2 DEF ControlInv, ActivateInv, Visiting, NoOp
    <2>4. RealInv'
      BY <2>1, <2>2 DEF RealInv
    <2>5. RunsInv'
      BY <2>1, <2>2 DEF RunsInv, Activating, Deactivating, NoOp
    <2> QED
      BY <1>0, <2>3, <2>4, <2>5
  <1>4. ASSUME DeactivateAll PROVE SafeInv'
    <2>1. /\ pc = "idle" /\ op = NoOp /\ pc' \in {"apply", "return"}
          /\ pc' = "return" => todo' = {}
          /\ op' = [kind |-> "deactivateAll", handle |-> Nobody, enabled |-> FALSE]
          /\ client_active' = [g \in Hardware |-> FALSE]
          /\ UNCHANGED <<real, backend_active, acked>>
      BY <1>4 DEF DeactivateAll, Apply, ControlInv, backendView
    <2>2. ControlInv' /\ ActivateInv'
      BY <2>1 DEF ControlInv, ActivateInv, Visiting
    <2>3. RealInv'
      BY <2>1 DEF RealInv
    <2>4. RunsInv'
      BY <2>1 DEF RunsInv, Activating, Deactivating
    <2> QED
      BY <1>0, <2>2, <2>3, <2>4
  <1>5. ASSUME NEW m \in {"NORMAL", "DATA_INJECTION"}, SetOperationMode(m)
        PROVE SafeInv'
    <2>1. /\ pc = "idle" /\ op = NoOp /\ pc' = "return" /\ todo' = {}
          /\ op' = [kind |-> "mode", handle |-> Nobody, enabled |-> FALSE]
          /\ UNCHANGED <<client_active, real, backend_active, acked>>
      BY <1>5 DEF SetOperationMode, Apply, ControlInv, requests, backendView
    <2>2. ControlInv' /\ ActivateInv'
      BY <2>1 DEF ControlInv, ActivateInv, Visiting
    <2>3. RealInv' /\ RunsInv'
      BY <2>1 DEF RealInv, RunsInv, Activating, Deactivating, NoOp
    <2> QED
      BY <1>0, <2>2, <2>3
  <1>6. ASSUME NEW h \in Handles, Flush(h) PROVE SafeInv'
    <2>1. /\ pc = "idle" /\ op = NoOp /\ todo = {} /\ pc' = "flush"
          /\ op' = [kind |-> "flush", handle |-> h, enabled |-> FALSE]
          /\ UNCHANGED <<client_active, real, backend_active, acked, todo>>
      BY <1>6 DEF Flush, ControlInv, requests, backendView
    <2>2. ControlInv' /\ ActivateInv'
      BY <2>1 DEF ControlInv, ActivateInv, Visiting
    <2>3. RealInv' /\ RunsInv'
      BY <2>1 DEF RealInv, RunsInv, Activating, Deactivating, NoOp
    <2> QED
      BY <1>0, <2>2, <2>3
  <1>7. CASE FlushBackend
    <2>1. /\ pc = "flush" /\ op.kind = "flush" /\ pc' = "return"
          /\ UNCHANGED <<client_active, real, backend_active, acked, op, todo>>
      BY <1>7 DEF FlushBackend, ControlInv, requests, backendView
    <2>2. ControlInv' /\ ActivateInv'
      BY <2>1 DEF ControlInv, ActivateInv, Visiting
    <2>3. RealInv' /\ RunsInv'
      BY <2>1 DEF RealInv, RunsInv, Activating, Deactivating
    <2> QED
      BY <1>0, <2>2, <2>3
  <1>8. ASSUME NEW h \in todo, ApplyHardwareState(h) PROVE SafeInv'
    <2>1. /\ h \in Hardware /\ pc = "apply" /\ pc' = "batch" /\ cur' = h
          /\ todo' = todo \ {h}
          /\ want'.active = DesiredActive(h)
          /\ want'.activate = (DesiredActive(h) # backend_active[h])
          /\ UNCHANGED <<client_active, composite_periods, real, backend_active, acked, op, ret>>
      BY <1>8
      DEF ApplyHardwareState, Desired, NeedActivate, TypeOK, requests, backendView
    <2>2. ControlInv' /\ ActivateInv'
      BY <2>1 DEF ControlInv, ActivateInv, Visiting, DesiredActive
    <2>3. RealInv' /\ RunsInv'
      BY <2>1 DEF RealInv, RunsInv, Activating, Deactivating
    <2> QED
      BY <1>0, <2>2, <2>3
  <1>9. ASSUME NEW ok \in BOOLEAN, CallBatch(ok) PROVE SafeInv'
    <2>1. /\ pc = "batch" /\ pc' = "activate"
          /\ want'.active = want.active /\ want'.activate = want.activate
          /\ UNCHANGED <<client_active, composite_periods, real, backend_active, acked, op,
                         todo, cur, ret>>
      BY <1>9 DEF CallBatch, TypeOK, requests
    <2>2. ControlInv' /\ ActivateInv'
      BY <2>1 DEF ControlInv, ActivateInv, Visiting, DesiredActive
    <2>3. RealInv' /\ RunsInv'
      BY <2>1 DEF RealInv, RunsInv, Activating, Deactivating
    <2> QED
      BY <1>0, <2>2, <2>3
  <1>10. ASSUME NEW ok \in BOOLEAN, CallActivate(ok) PROVE SafeInv'
    <2>1. /\ pc = "activate"
          /\ UNCHANGED <<client_active, composite_periods, backend_active, acked, op,
                         todo, cur, want>>
      BY <1>10 DEF CallActivate, requests, backendView
    <2>2. cur \in Hardware /\ want.active = DesiredActive(cur)
          /\ want.activate = (want.active # backend_active[cur])
      BY <2>1 DEF ControlInv, Visiting
    <2>3. CASE want.activate /\ ok /\ real' = [real EXCEPT ![cur] = want.active] /\ pc' = "join"
      <3>1. ControlInv' /\ ActivateInv'
        BY <2>1, <2>2, <2>3 DEF ControlInv, ActivateInv, Visiting, DesiredActive
      <3>2. RealInv'
        BY <2>1, <2>2, <2>3 DEF RealInv, TypeOK
      <3>3. RunsInv'
        BY <2>1, <2>2, <2>3 DEF RunsInv, Activating, Deactivating, DesiredActive, TypeOK
      <3> QED
        BY <1>0, <3>1, <3>2, <3>3
    <2>4. CASE UNCHANGED real /\ (ApplyReturns(FALSE) \/ (~want.activate /\ ApplyReturns(want.ok)))
      <3>1. /\ pc' \in {"return", "apply"} /\ (pc' = "return" <=> todo = {})
            /\ want.activate => ~ret'
        BY <2>4 DEF ApplyReturns
      <3>2. ControlInv' /\ ActivateInv'
        BY <2>1, <2>2, <3>1 DEF ControlInv, ActivateInv, Visiting
      <3>3. RealInv'
        BY <2>1, <2>4, <3>1 DEF RealInv
      <3>4. RunsInv'
        <4>1. ASSUME NEW h \in Hardware, Activating(h), ret', pc' = "return" PROVE real[h]
          <5>1. h = cur /\ client_active[h]
            BY <2>1, <4>1 DEF ActivateInv, Activating, Visiting
          <5>2. backend_active[h]
            BY <2>2, <3>1, <4>1, <5>1 DEF DesiredActive, TypeOK
          <5> QED
            BY <2>1, <5>2 DEF RealInv
        <4> QED
          BY <2>1, <2>4, <4>1 DEF RunsInv, Activating, Deactivating
      <3> QED
        BY <1>0, <3>2, <3>3, <3>4
    <2>5. \/ want.activate /\ ok /\ real' = [real EXCEPT ![cur] = want.active] /\ pc' = "join"
          \/ UNCHANGED real /\ (ApplyReturns(FALSE) \/ (~want.activate /\ ApplyReturns(want.ok)))
      BY <1>10, Zenon DEF CallActivate
    <2> QED
      BY <2>3, <2>4, <2>5, Zenon
  <1>11. CASE ActivateReturns
    <2>1. /\ pc = "join" /\ pc' \in {"return", "apply"} /\ (pc' = "return" <=> todo = {})
          /\ backend_active' = [backend_active EXCEPT ![cur] = want.active]
          /\ UNCHANGED <<client_active, composite_periods, real, acked, op, todo, cur, want>>
      BY <1>11 DEF ActivateReturns, ApplyReturns, requests
    <2>2. cur \in Hardware /\ want.active = DesiredActive(cur)
      BY <2>1 DEF ControlInv, Visiting
    <2>3. ControlInv' /\ ActivateInv'
      BY <2>1 DEF ControlInv, ActivateInv, Visiting
    <2>4. RealInv'
      BY <2>1, <2>2 DEF RealInv, TypeOK
    <2>5. RunsInv'
      <3>1. ASSUME NEW h \in Hardware, Activating(h) PROVE real[h]
        <4>1. h = cur /\ client_active[h]
          BY <2>1, <3>1 DEF ActivateInv, Activating, Visiting
        <4> QED
          BY <2>1, <2>2, <4>1 DEF RealInv, DesiredActive
      <3> QED
        BY <2>1, <3>1 DEF RunsInv, Activating, Deactivating
    <2> QED
      BY <1>0, <2>3, <2>4, <2>5
  <1>12. CASE Return
    <2>1. /\ pc = "return" /\ pc' = "idle" /\ op' = NoOp /\ todo = {}
          /\ UNCHANGED <<real, backend_active, todo>>
      BY <1>12 DEF Return, ControlInv, backendView
    <2>2. ControlInv' /\ ActivateInv' /\ RealInv'
      BY <2>1 DEF ControlInv, ActivateInv, RealInv, Visiting, NoOp
    <2>3. ASSUME NEW h \in Hardware PROVE /\ client_active'[h] => real[h]
                                          /\ acked'[h] => client_active'[h]
      <3>1. CASE op.kind = "activate" /\ op.handle = h
        <4>1. acked'[h] = (op.enabled /\ ret)
          BY <1>12, <3>1 DEF Return, TypeOK, Handles
        <4>2. client_active[h] = op.enabled
          BY <3>1 DEF ActivateInv
        <4>3. client_active'[h] = (op.enabled /\ ret)
          BY <1>12, <3>1, <4>2 DEF Return, Withdrawn, TypeOK
        <4> QED
          BY <2>1, <3>1, <4>1, <4>3 DEF RunsInv, Activating
      <3>2. CASE ~(op.kind = "activate" /\ op.handle = h)
        <4>1. client_active'[h] = client_active[h]
          BY <1>12, <3>2 DEF Return, Withdrawn, TypeOK
        <4>2. acked'[h] => acked[h] /\ op.kind # "deactivateAll"
          BY <1>12, <3>2 DEF Return, TypeOK, Handles
        <4> QED
          BY <3>2, <4>1, <4>2 DEF RunsInv, Activating, Deactivating
      <3> QED
        BY <3>1, <3>2
    <2>4. RunsInv'
      BY <2>1, <2>3 DEF RunsInv, Activating, Deactivating, NoOp
    <2> QED
      BY <1>0, <2>2, <2>4
  <1>13. ASSUME NEW t \in Threads, NEW hs \in SUBSET SensorsOf[t], Sample(t, hs)
         PROVE SafeInv'
    BY <1>0, <1>13, EventsSafe DEF Sample
  <1>14. ASSUME NEW t \in EventThreads, NEW d \in SUBSET Composites, OnBackendEvents(t, d)
         PROVE SafeInv'
    BY <1>0, <1>14, EventsSafe DEF OnBackendEvents
  <1>15. ASSUME NEW t \in EventThreads, Deliver(t) PROVE SafeInv'
    BY <1>0, <1>15, EventsSafe DEF Deliver
  <1>16. ASSUME NEW h \in Hardware, InjectEvent(h) PROVE SafeInv'
    BY <1>0, <1>16, EventsSafe DEF InjectEvent
  <1>17. CASE UNCHANGED vars
    BY <1>0, <1>17, EventsSafe DEF vars
  <1> QED
    BY <1>1, <1>2, <1>3, <1>4, <1>5, <1>6, <1>7, <1>8, <1>9, <1>10, <1>11, <1>12, <1>13,
       <1>14, <1>15, <1>16, <1>17
    DEF Next, ControlCall, ControlStep, EventStep

\* A hardware sensor whose activation the HAL acknowledged keeps sampling until
\* the framework is done with it, whatever composites and backend failures do.
THEOREM AcknowledgedRunsAlways == Spec => []AcknowledgedRuns
  <1>1. SafeInv => AcknowledgedRuns
    BY DEF SafeInv, ControlInv, RunsInv, AcknowledgedRuns, Activating, Deactivating, NoOp
  <1> QED
    BY InitSafe, NextSafe, <1>1, PTL DEF Spec

\* The front end never activates an active sensor or deactivates an inactive
\* one: the contract of ISensorBackend::Activate().
THEOREM NoRedundantActivateAlways == Spec => NoRedundantActivate
  <1> DEFINE Fresh == \A ok \in BOOLEAN :
                         CallActivate(ok) /\ want.activate => real[cur] # want.active
  <1>1. SafeInv /\ [Next]_vars => [Fresh]_vars
    <2> SUFFICES ASSUME SafeInv, NEW ok \in BOOLEAN, CallActivate(ok), want.activate
                 PROVE  real[cur] # want.active
      OBVIOUS
    <2>1. pc = "activate"
      BY DEF CallActivate
    <2>2. cur \in Hardware /\ want.active # backend_active[cur]
      BY <2>1 DEF SafeInv, ControlInv, Visiting
    <2> QED
      BY <2>1, <2>2 DEF SafeInv, RealInv
  <1> QED
    BY InitSafe, NextSafe, <1>1, PTL DEF Spec, NoRedundantActivate

-----------------------------------------------------------------------------
(* Union of the activations, fastest of the rates. *)

SameRequests(h) ==
    /\ client_active'[h] = client_active[h]
    /\ client_period'[h] = client_period[h]
    /\ composite_periods'[h] = composite_periods[h]

\* What is asked of a sensor depends on the requests for that sensor only.
LEMMA SameDesired ==
    ASSUME NEW h \in Hardware, SameRequests(h)
    PROVE  DesiredActive(h)' = DesiredActive(h) /\ DesiredPeriod(h)' = DesiredPeriod(h)
  BY DEF SameRequests, DesiredActive, DesiredPeriod, CompositeRequests

LEMMA SameMatched ==
    ASSUME NEW h \in Hardware, SameRequests(h), Matched(h),
           backend_active'[h] = backend_active[h], backend_period'[h] = backend_period[h],
           fault'[h] = fault[h]
    PROVE  Matched(h)'
  BY SameDesired DEF Matched

LEMMA InitFull == Init => FullInv
  <1> SUFFICES ASSUME Init PROVE FullInv
    OBVIOUS
  <1>1. CompositeInv
    BY DEF Init, CompositeInv
  <1>2. MatchInv
    BY SensorsAssumption
    DEF Init, MatchInv, Matched, Visiting, DesiredActive, NoOp
  <1> QED
    BY <1>1, <1>2, InitSafe DEF FullInv

LEMMA EventsFull ==
    ASSUME FullInv, SafeInv',
           UNCHANGED <<requests, backendView, control, real, acked, fault>>
    PROVE  FullInv'
  <1>1. \A h \in Hardware : SameRequests(h)
    BY DEF SameRequests, requests
  <1>2. CompositeInv'
    BY DEF FullInv, CompositeInv, requests
  <1>3. UNCHANGED <<client_active, client_period, client_latency, composite_periods,
                    composite_active, backend_active, backend_period, backend_latency,
                    pc, op, todo, cur, want, ret>>
    BY DEF requests, backendView, control
  <1>4. \A h \in Hardware : Matched(h) => Matched(h)'
    BY <1>1, <1>3, SameMatched
  <1>5. pc = "batch" => Desired(cur)' = Desired(cur)
    BY <1>1, <1>3, SameDesired
    DEF FullInv, SafeInv, ControlInv, Visiting, Desired, NeedActivate, DesiredLatency
  <1>6. pc \in {"activate", "join"} => DesiredPeriod(cur)' = DesiredPeriod(cur)
    BY <1>1, <1>3, SameDesired DEF FullInv, SafeInv, ControlInv, Visiting
  <1>7. MatchInv'
    BY <1>3, <1>4, <1>5, <1>6 DEF FullInv, MatchInv, Visiting
  <1> QED
    BY <1>2, <1>7 DEF FullInv

LEMMA NextFull == FullInv /\ [Next]_vars => FullInv'
  <1> SUFFICES ASSUME FullInv, [Next]_vars PROVE FullInv'
    OBVIOUS
  <1>0. SafeInv /\ SafeInv' /\ TypeOK /\ TypeOK' /\ CompositeInv /\ MatchInv
    BY NextSafe DEF FullInv, SafeInv
  <1>a. ASSUME CompositeInv', MatchInv' PROVE FullInv'
    BY <1>0, <1>a DEF FullInv
  <1>1. ASSUME NEW h \in Hardware, NEW e \in BOOLEAN, ActivateHardware(h, e)
        PROVE FullInv'
    <2>1. CASE client_active[h] = e
      <3>1. UNCHANGED <<requests, backendView, control, real, fault>>
        BY <1>1, <2>1 DEF ActivateHardware
      <3>2. /\ \A g \in Hardware : SameRequests(g)
            /\ UNCHANGED <<composite_active, backend_active, backend_period, fault, pc, op,
                           todo, cur, want, ret>>
        BY <3>1 DEF SameRequests, requests, backendView, control
      <3>3. pc = "idle"
        BY <1>1 DEF ActivateHardware
      <3>4. \A g \in Hardware : Matched(g) => Matched(g)'
        BY <3>2, SameMatched
      <3>5. CompositeInv'
        BY <1>0, <3>1 DEF CompositeInv, requests
      <3>6. MatchInv'
        BY <1>0, <3>2, <3>3, <3>4 DEF MatchInv, Visiting
      <3> QED
        BY <1>a, <3>5, <3>6
    <2>2. CASE client_active[h] # e
      <3>1. /\ pc = "idle" /\ pc' = "apply" /\ todo = {} /\ todo' = {h} /\ ret'
            /\ client_active' = [client_active EXCEPT ![h] = e]
            /\ UNCHANGED <<client_period, composite_periods, composite_active,
                           backend_active, backend_period, fault>>
        BY <1>0, <1>1, <2>2
        DEF ActivateHardware, Apply, SafeInv, ControlInv, backendView
      <3>2. CompositeInv'
        BY <1>0, <3>1 DEF CompositeInv
      <3>3. ASSUME NEW g \in Hardware, g # h PROVE Matched(g)'
        <4>1. Matched(g)
          BY <1>0, <3>1, <3>3 DEF MatchInv, Visiting
        <4>2. SameRequests(g)
          BY <1>0, <3>1, <3>3 DEF SameRequests, TypeOK
        <4> QED
          BY <3>1, <4>1, <4>2, SameMatched
      <3>4. MatchInv'
        BY <3>1, <3>3 DEF MatchInv, Visiting
      <3> QED
        BY <1>a, <3>2, <3>4
    <2> QED
      BY <2>1, <2>2
  <1>2. ASSUME NEW c \in Composites, NEW e \in BOOLEAN, ActivateComposite(c, e)
        PROVE FullInv'
    <2>1. CASE composite_active[c] = e
      <3>1. UNCHANGED <<requests, backendView, control, real, fault>>
        BY <1>2, <2>1 DEF ActivateComposite
      <3>2. /\ \A g \in Hardware : SameRequests(g)
            /\ UNCHANGED <<composite_active, backend_active, backend_period, fault, pc, op,
                           todo, cur, want, ret>>
        BY <3>1 DEF SameRequests, requests, backendView, control
      <3>3. pc = "idle"
        BY <1>2 DEF ActivateComposite
      <3>4. \A g \in Hardware : Matched(g) => Matched(g)'
        BY <3>2, SameMatched
      <3>5. CompositeInv'
        BY <1>0, <3>1 DEF CompositeInv, requests
      <3>6. MatchInv'
        BY <1>0, <3>2, <3>3, <3>4 DEF MatchInv, Visiting
      <3> QED
        BY <1>a, <3>5, <3>6
    <2>2. CASE composite_active[c] # e
      <3>1. /\ pc = "idle" /\ pc' = "apply" /\ todo = {} /\ todo' = InputOf[c]
            /\ op'.handle = c /\ c \notin Hardware
            /\ composite_active' = [composite_active EXCEPT ![c] = e]
            /\ composite_periods' =
                 [g \in Hardware |->
                    IF g \notin InputOf[c] THEN composite_periods[g]
                    ELSE IF e THEN composite_periods[g] \cup {c}
                    ELSE composite_periods[g] \ {c}]
            /\ UNCHANGED <<client_active, client_period, backend_active, backend_period,
                           fault>>
        BY <1>0, <1>2, <2>2, SensorsAssumption
        DEF ActivateComposite, Apply, SafeInv, ControlInv, backendView
      <3>2. CompositeInv'
        <4>1. ASSUME NEW g \in Hardware
              PROVE  composite_periods'[g]
                       = {d \in Composites : composite_active'[d] /\ g \in InputOf[d]}
          <5>1. composite_periods[g]
                  = {d \in Composites : composite_active[d] /\ g \in InputOf[d]}
            BY <1>0 DEF CompositeInv
          <5>2. \A d \in Composites :
                   composite_active'[d] = IF d = c THEN e ELSE composite_active[d]
            BY <1>0, <3>1 DEF TypeOK
          <5> QED
            BY <3>1, <5>1, <5>2
        <4> QED
          BY <4>1 DEF CompositeInv
      <3>3. ASSUME NEW g \in Hardware, g \notin InputOf[c] PROVE Matched(g)'
        <4>1. Matched(g)
          BY <1>0, <3>1 DEF MatchInv, Visiting
        <4>2. SameRequests(g)
          BY <3>1, <3>3 DEF SameRequests
        <4> QED
          BY <3>1, <4>1, <4>2, SameMatched
      <3>4. MatchInv'
        BY <3>1, <3>3 DEF MatchInv, Visiting
      <3> QED
        BY <1>a, <3>2, <3>4
    <2> QED
      BY <2>1, <2>2
  <1>3. ASSUME NEW h \in Hardware, NEW p \in Periods, NEW l \in Latencies, Batch(h, p, l)
        PROVE FullInv'
    <2>1. /\ pc = "idle" /\ op = NoOp /\ todo = {}
          /\ client_period' = [client_period EXCEPT ![h] = ClampSamplingPeriodNs(h, p)]
          /\ UNCHANGED <<client_active, composite_periods, composite_active,
                         backend_active, backend_period, fault>>
      BY <1>0, <1>3 DEF Batch, SafeInv, ControlInv, backendView
    <2>2. CompositeInv'
      BY <1>0, <2>1 DEF CompositeInv
    <2>3. ASSUME NEW g \in Hardware, g # h PROVE Matched(g)'
      <3>1. Matched(g)
        BY <1>0, <2>1 DEF MatchInv, Visiting
      <3>2. SameRequests(g)
        BY <1>0, <2>1, <2>3 DEF SameRequests, TypeOK
      <3> QED
        BY <2>1, <3>1, <3>2, SameMatched
    <2>4. CASE client_active[h]
      <3>1. pc' = "apply" /\ todo' = {h} /\ op'.kind = "batch"
        BY <1>3, <2>4 DEF Batch, Apply
      <3>2. MatchInv'
        BY <2>3, <3>1 DEF MatchInv, Visiting
      <3> QED
        BY <1>a, <2>2, <3>2
    <2>5. CASE ~client_active[h]
      <3>1. pc' = "idle" /\ todo' = {} /\ op' = NoOp
        BY <1>3, <2>1, <2>5 DEF Batch, control
      <3>2. Matched(h)'
        <4>1. Matched(h)
          BY <1>0, <2>1 DEF MatchInv, Visiting
        <4>2. DesiredActive(h)' = DesiredActive(h)
          BY <2>1 DEF DesiredActive
        <4>3. CompositeRequests(h)' = CompositeRequests(h)
          BY <2>1 DEF CompositeRequests
        <4>4. DesiredActive(h) => CompositeRequests(h) # {}
          BY <2>5 DEF DesiredActive, CompositeRequests
        <4>5. DesiredActive(h) => DesiredPeriod(h)' = DesiredPeriod(h)
          BY <2>1, <2>5, <4>3, <4>4 DEF DesiredPeriod
        <4> QED
          BY <2>1, <4>1, <4>2, <4>5 DEF Matched
      <3>3. MatchInv'
        BY <2>3, <3>1, <3>2 DEF MatchInv, Visiting, NoOp
      <3> QED
        BY <1>a, <2>2, <3>3
    <2> QED
      BY <2>4, <2>5
  <1>4. ASSUME DeactivateAll PROVE FullInv'
    <2>1. /\ pc = "idle" /\ todo = {} /\ pc' \in {"apply", "return"}
          /\ op'.kind = "deactivateAll"
          /\ todo' = {h \in Hardware : backend_active[h]}
          /\ composite_active' = [c \in Composites |-> FALSE]
          /\ client_active' = [h \in Hardware |-> FALSE]
          /\ composite_periods' = [h \in Hardware |-> {}]
          /\ UNCHANGED <<backend_active, backend_period, fault>>
      BY <1>0, <1>4 DEF DeactivateAll, Apply, SafeInv, ControlInv, backendView
    <2>2. CompositeInv'
      BY <2>1 DEF CompositeInv
    <2>3. ASSUME NEW h \in Hardware, h \notin todo' PROVE Matched(h)'
      <3>1. backend_active[h] = FALSE
        BY <1>0, <2>1, <2>3 DEF TypeOK
      <3>2. DesiredActive(h)' = FALSE
        BY <2>1 DEF DesiredActive
      <3> QED
        BY <2>1, <3>1, <3>2 DEF Matched
    <2>4. MatchInv'
      BY <2>1, <2>3 DEF MatchInv, Visiting
    <2> QED
      BY <1>a, <2>2, <2>4
  <1>5. ASSUME NEW m \in {"NORMAL", "DATA_INJECTION"}, SetOperationMode(m)
        PROVE FullInv'
    <2>1. /\ pc = "idle" /\ todo = {} /\ pc' = "return" /\ todo' = {} /\ op'.kind = "mode"
          /\ UNCHANGED <<requests, backend_active, backend_period, fault>>
      BY <1>0, <1>5 DEF SetOperationMode, Apply, SafeInv, ControlInv, backendView
    <2>2. CompositeInv'
      BY <1>0, <2>1 DEF CompositeInv, requests
    <2>3. \A h \in Hardware : SameRequests(h)
      BY <2>1 DEF SameRequests, requests
    <2>4. \A h \in Hardware : Matched(h)'
      BY <1>0, <2>1, <2>3, SameMatched DEF MatchInv, Visiting
    <2>5. MatchInv'
      BY <2>1, <2>4 DEF MatchInv, Visiting
    <2> QED
      BY <1>a, <2>2, <2>5
  <1>6. ASSUME NEW h \in Handles, Flush(h) PROVE FullInv'
    <2>1. /\ pc = "idle" /\ todo = {} /\ pc' = "flush" /\ todo' = {} /\ op'.kind = "flush"
          /\ UNCHANGED <<requests, backend_active, backend_period, fault>>
      BY <1>0, <1>6 DEF Flush, SafeInv, ControlInv, backendView
    <2>2. CompositeInv'
      BY <1>0, <2>1 DEF CompositeInv, requests
    <2>3. \A g \in Hardware : SameRequests(g)
      BY <2>1 DEF SameRequests, requests
    <2>4. \A g \in Hardware : Matched(g)'
      BY <1>0, <2>1, <2>3, SameMatched DEF MatchInv, Visiting
    <2>5. MatchInv'
      BY <2>1, <2>4 DEF MatchInv, Visiting
    <2> QED
      BY <1>a, <2>2, <2>5
  <1>7. CASE FlushBackend
    <2>1. /\ pc = "flush" /\ op.kind = "flush" /\ pc' = "return" /\ todo = {}
          /\ UNCHANGED <<requests, backend_active, backend_period, fault, op, todo>>
      BY <1>0, <1>7 DEF FlushBackend, SafeInv, ControlInv, backendView
    <2>2. CompositeInv'
      BY <1>0, <2>1 DEF CompositeInv, requests
    <2>3. \A g \in Hardware : SameRequests(g)
      BY <2>1 DEF SameRequests, requests
    <2>4. \A g \in Hardware : Matched(g)'
      BY <1>0, <2>1, <2>3, SameMatched DEF MatchInv, Visiting
    <2>5. MatchInv'
      BY <2>1, <2>4 DEF MatchInv, Visiting
    <2> QED
      BY <1>a, <2>2, <2>5
  <1>8. ASSUME NEW h \in todo, ApplyHardwareState(h) PROVE FullInv'
    <2>1. /\ h \in Hardware /\ pc = "apply" /\ pc' = "batch" /\ cur' = h
          /\ todo' = todo \ {h} /\ want' = Desired(h)
          /\ fault' = [fault EXCEPT ![h] = FALSE]
          /\ UNCHANGED <<requests, backend_active, backend_period, backend_latency, op, ret>>
      BY <1>0, <1>8 DEF ApplyHardwareState, TypeOK, backendView
    <2>2. CompositeInv'
      BY <1>0, <2>1 DEF CompositeInv, requests
    <2>3. \A g \in Hardware : SameRequests(g)
      BY <2>1 DEF SameRequests, requests
    <2>4. ASSUME NEW g \in Hardware, g \notin todo, g # h PROVE Matched(g)'
      <3>1. Matched(g)
        BY <1>0, <2>1, <2>4 DEF MatchInv, Visiting
      <3>2. fault'[g] = fault[g]
        BY <1>0, <2>1, <2>4 DEF TypeOK
      <3> QED
        BY <2>1, <2>3, <3>1, <3>2, SameMatched
    <2>5. Desired(h)' = Desired(h)
      BY <2>1, <2>3, SameDesired DEF Desired, NeedActivate, DesiredLatency, requests
    <2>6. want' = Desired(cur)' /\ ~fault'[cur']
      BY <1>0, <2>1, <2>5 DEF TypeOK
    <2>7. MatchInv'
      BY <1>0, <2>1, <2>4, <2>6 DEF MatchInv, Visiting
    <2> QED
      BY <1>a, <2>2, <2>7
  <1>9. ASSUME NEW ok \in BOOLEAN, CallBatch(ok) PROVE FullInv'
    <2>1. /\ pc = "batch" /\ pc' = "activate" /\ cur \in Hardware /\ cur \notin todo
          /\ want = Desired(cur)
          /\ want.batch \/ ok
          /\ want' = [want EXCEPT !.ok = ok]
          /\ fault' = [fault EXCEPT ![cur] = ~ok]
          /\ UNCHANGED <<requests, backend_active, op, todo, cur, ret>>
      BY <1>0, <1>9 DEF CallBatch, MatchInv, SafeInv, ControlInv, Visiting
    <2>2. CompositeInv'
      BY <1>0, <2>1 DEF CompositeInv, requests
    <2>3. \A g \in Hardware : SameRequests(g)
      BY <2>1 DEF SameRequests, requests
    <2>4. ASSUME NEW g \in Hardware, g \notin todo, g # cur PROVE Matched(g)'
      <3>1. Matched(g)
        BY <1>0, <2>4 DEF MatchInv
      <3>2. fault'[g] = fault[g] /\ backend_period'[g] = backend_period[g]
        BY <1>0, <1>9, <2>1, <2>4 DEF CallBatch, TypeOK
      <3> QED
        BY <2>1, <2>3, <3>1, <3>2, SameMatched
    <2>5. fault'[cur] = ~ok /\ want'.ok = ok /\ want'.active = want.active
      BY <1>0, <2>1 DEF TypeOK
    <2>6. ok /\ want.active => backend_period'[cur] = DesiredPeriod(cur)
      <3>1. want.batch /\ ok => backend_period'[cur] = want.period
        BY <1>0, <1>9, <2>1 DEF CallBatch, TypeOK
      <3>2. ~want.batch => backend_period' = backend_period
        BY <1>9 DEF CallBatch
      <3>3. /\ want.period = DesiredPeriod(cur) /\ want.active = DesiredActive(cur)
            /\ ~want.batch /\ want.active => DesiredPeriod(cur) = backend_period[cur]
        <4>1. want.period = DesiredPeriod(cur) /\ want.active = DesiredActive(cur)
          BY <2>1 DEF Desired
        <4>2. want.batch = (DesiredActive(cur) /\ (\/ DesiredPeriod(cur) # backend_period[cur]
                                                   \/ DesiredLatency(cur) # backend_latency[cur]))
          BY <2>1 DEF Desired
        <4> QED
          BY <4>1, <4>2
      <3> QED
        BY <3>1, <3>2, <3>3
    <2>7. DesiredPeriod(cur)' = DesiredPeriod(cur)
      BY <2>1, <2>3, SameDesired
    <2>8. MatchInv'
      BY <1>0, <2>1, <2>4, <2>5, <2>6, <2>7 DEF MatchInv, Visiting
    <2> QED
      BY <1>a, <2>2, <2>8
  <1>10. ASSUME NEW ok \in BOOLEAN, CallActivate(ok) PROVE FullInv'
    <2>1. /\ pc = "activate" /\ cur \in Hardware /\ cur \notin todo
          /\ want.active = DesiredActive(cur)
          /\ want.activate = (want.active # backend_active[cur])
          /\ UNCHANGED <<requests, backend_active, backend_period, op, todo, cur, want>>
      BY <1>0, <1>10 DEF CallActivate, SafeInv, ControlInv, Visiting, backendView
    <2>2. CompositeInv'
      BY <1>0, <2>1 DEF CompositeInv, requests
    <2>3. \A g \in Hardware : SameRequests(g)
      BY <2>1 DEF SameRequests, requests
    <2>4. \A g \in Hardware : g # cur => fault'[g] = fault[g]
      BY <1>0, <1>10 DEF CallActivate, TypeOK
    <2>5. ASSUME NEW g \in Hardware, g \notin todo, g # cur PROVE Matched(g)'
      <3>1. Matched(g)
        BY <1>0, <2>5 DEF MatchInv
      <3> QED
        BY <2>1, <2>3, <2>4, <2>5, <3>1, SameMatched
    <2>6. DesiredPeriod(cur)' = DesiredPeriod(cur) /\ DesiredActive(cur)' = DesiredActive(cur)
      BY <2>1, <2>3, SameDesired
    <2>7. CASE pc' = "join" /\ UNCHANGED <<ret, fault>>
      <3>1. MatchInv'
        BY <1>0, <2>1, <2>5, <2>6, <2>7 DEF MatchInv, Visiting
      <3> QED
        BY <1>a, <2>2, <3>1
    <2>8. CASE fault' = [fault EXCEPT ![cur] = TRUE] /\ ApplyReturns(FALSE)
      <3>1. fault'[cur]
        BY <1>0, <2>1, <2>8 DEF TypeOK
      <3>2. Matched(cur)'
        BY <2>1, <3>1 DEF Matched
      <3>3. /\ pc' \in {"return", "apply"} /\ (pc' = "return" <=> todo = {})
        BY <2>8 DEF ApplyReturns
      <3>4. ASSUME op.kind = "activate", op.handle \in Hardware PROVE pc' = "return" /\ op.handle = cur
        BY <1>0, <2>1, <3>3, <3>4 DEF SafeInv, ActivateInv, Visiting
      <3>5. MatchInv'
        BY <2>1, <2>5, <3>1, <3>2, <3>3, <3>4 DEF MatchInv, Visiting
      <3> QED
        BY <1>a, <2>2, <3>5
    <2>9. CASE ~want.activate /\ ApplyReturns(want.ok) /\ UNCHANGED fault
      <3>1. want.ok = ~fault[cur]
            /\ (~fault[cur] /\ want.active => backend_period[cur] = DesiredPeriod(cur))
        BY <1>0, <2>1 DEF MatchInv
      <3>2. Matched(cur)'
        BY <1>0, <2>1, <2>6, <2>9, <3>1 DEF Matched, TypeOK, DesiredActive
      <3>3. /\ pc' \in {"return", "apply"} /\ (pc' = "return" <=> todo = {})
            /\ ret' = (ret /\ want.ok)
        BY <2>9 DEF ApplyReturns
      <3>4. ASSUME op.kind = "activate", op.handle \in Hardware
            PROVE pc' = "return" /\ op.handle = cur /\ ret
        BY <1>0, <2>1, <3>3, <3>4 DEF SafeInv, ActivateInv, MatchInv, Visiting
      <3>5. MatchInv'
        BY <2>1, <2>5, <2>9, <3>1, <3>2, <3>3, <3>4 DEF MatchInv, Visiting
      <3> QED
        BY <1>a, <2>2, <3>5
    <2>10. \/ pc' = "join" /\ UNCHANGED <<ret, fault>>
           \/ fault' = [fault EXCEPT ![cur] = TRUE] /\ ApplyReturns(FALSE)
           \/ ~want.activate /\ ApplyReturns(want.ok) /\ UNCHANGED fault
      BY <1>10, Zenon DEF CallActivate
    <2> QED
      BY <2>7, <2>8, <2>9, <2>10, Zenon
  <1>11. CASE ActivateReturns
    <2>1. /\ pc = "join" /\ cur \in Hardware /\ cur \notin todo
          /\ pc' \in {"return", "apply"} /\ (pc' = "return" <=> todo = {}) /\ ret' = ret
          /\ want.active = DesiredActive(cur)
          /\ backend_active' = [backend_active EXCEPT ![cur] = want.active]
          /\ UNCHANGED <<requests, backend_period, fault, op, todo, cur>>
      BY <1>0, <1>11
      DEF ActivateReturns, ApplyReturns, SafeInv, ControlInv, Visiting, TypeOK
    <2>2. CompositeInv'
      BY <1>0, <2>1 DEF CompositeInv, requests
    <2>3. \A g \in Hardware : SameRequests(g)
      BY <2>1 DEF SameRequests, requests
    <2>4. ASSUME NEW g \in Hardware, g \notin todo, g # cur PROVE Matched(g)'
      <3>1. Matched(g)
        BY <1>0, <2>4 DEF MatchInv
      <3>2. backend_active'[g] = backend_active[g]
        BY <1>0, <2>1, <2>4 DEF TypeOK
      <3> QED
        BY <2>1, <2>3, <3>1, <3>2, SameMatched
    <2>5. DesiredPeriod(cur)' = DesiredPeriod(cur) /\ DesiredActive(cur)' = DesiredActive(cur)
      BY <2>1, <2>3, SameDesired
    <2>6. Matched(cur)'
      <3>1. backend_active'[cur] = want.active
        BY <1>0, <2>1 DEF TypeOK
      <3>2. ~fault[cur] /\ want.active => backend_period[cur] = DesiredPeriod(cur)
        BY <1>0, <2>1 DEF MatchInv
      <3> QED
        BY <2>1, <2>5, <3>1, <3>2 DEF Matched
    <2>7. ASSUME op.kind = "activate", op.handle \in Hardware PROVE pc' = "return" /\ ret
      BY <1>0, <2>1, <2>7 DEF SafeInv, ActivateInv, MatchInv, Visiting
    <2>8. MatchInv'
      BY <2>1, <2>4, <2>6, <2>7 DEF MatchInv, Visiting
    <2> QED
      BY <1>a, <2>2, <2>8
  <1>12. CASE Return
    <2>1. /\ pc = "return" /\ pc' = "idle" /\ op' = NoOp /\ todo = {} /\ todo' = {}
          /\ UNCHANGED <<client_period, composite_periods, composite_active,
                         backend_active, backend_period, fault>>
      BY <1>0, <1>12 DEF Return, SafeInv, ControlInv, backendView
    <2>2. CompositeInv'
      BY <1>0, <2>1 DEF CompositeInv
    <2>3. ASSUME NEW g \in Hardware PROVE Matched(g)'
      <3>1. CASE Withdrawn /\ op.handle = g
        BY <1>0, <2>1, <3>1 DEF Withdrawn, MatchInv, Matched
      <3>2. CASE ~(Withdrawn /\ op.handle = g)
        <4>1. SameRequests(g)
          BY <1>0, <1>12, <2>1, <3>2 DEF Return, SameRequests, TypeOK
        <4>2. Matched(g)
          BY <1>0, <2>1 DEF MatchInv, Visiting
        <4> QED
          BY <2>1, <4>1, <4>2, SameMatched
      <3> QED
        BY <3>1, <3>2
    <2>4. MatchInv'
      BY <2>1, <2>3 DEF MatchInv, Visiting, NoOp
    <2> QED
      BY <1>a, <2>2, <2>4
  <1>13. ASSUME NEW t \in Threads, NEW hs \in SUBSET SensorsOf[t], Sample(t, hs)
         PROVE FullInv'
    BY <1>0, <1>13, EventsFull DEF Sample
  <1>14. ASSUME NEW t \in EventThreads, NEW d \in SUBSET Composites, OnBackendEvents(t, d)
         PROVE FullInv'
    BY <1>0, <1>14, EventsFull DEF OnBackendEvents
  <1>15. ASSUME NEW t \in EventThreads, Deliver(t) PROVE FullInv'
    BY <1>0, <1>15, EventsFull DEF Deliver
  <1>16. ASSUME NEW h \in Hardware, InjectEvent(h) PROVE FullInv'
    BY <1>0, <1>16, EventsFull DEF InjectEvent
  <1>17. CASE UNCHANGED vars
    BY <1>0, <1>17, EventsFull DEF vars
  <1> QED
    BY <1>1, <1>2, <1>3, <1>4, <1>5, <1>6, <1>7, <1>8, <1>9, <1>10, <1>11, <1>12, <1>13,
       <1>14, <1>15, <1>16, <1>17
    DEF Next, ControlCall, ControlStep, EventStep

\* When no control operation is running, a sensor whose backend did not refuse
\* runs exactly when the framework or an active composite wants it, at the
\* fastest rate any of them asked for.
THEOREM UnionOfRequestsAlways == Spec => []UnionOfRequests
  <1>1. ASSUME FullInv, pc = "idle", NEW h \in Hardware, ~fault[h]
        PROVE  /\ real[h] <=> (client_active[h] \/ \E c \in Composites :
                                  composite_active[c] /\ h \in InputOf[c])
               /\ real[h] =>
                    LET asked == (IF client_active[h] THEN {client_period[h]} ELSE {})
                                   \cup CompositeRequests(h)
                    IN  /\ \E p \in asked : backend_period[h] = p
                        /\ \A p \in asked : p # 0 => backend_period[h] <= p
    <2>1. /\ TypeOK /\ todo = {}
          /\ composite_periods[h] = {c \in Composites : composite_active[c] /\ h \in InputOf[c]}
          /\ real[h] = backend_active[h]
      BY <1>1 DEF FullInv, SafeInv, ControlInv, RealInv, CompositeInv
    <2>2. Matched(h)
      BY <1>1, <2>1 DEF FullInv, MatchInv, Visiting
    <2>3. real[h] = DesiredActive(h) /\ (real[h] => backend_period[h] = DesiredPeriod(h))
      BY <1>1, <2>1, <2>2 DEF Matched
    <2>4. DesiredActive(h) <=> (client_active[h] \/ \E c \in Composites :
                                  composite_active[c] /\ h \in InputOf[c])
      BY <2>1 DEF DesiredActive
    <2> DEFINE client == IF client_active[h] /\ client_period[h] # 0
                         THEN {client_period[h]} ELSE {}
               compared == client \cup CompositeRequests(h)
               asked == (IF client_active[h] THEN {client_period[h]} ELSE {})
                          \cup CompositeRequests(h)
    <2>5. /\ CompositeRequests(h) \subseteq Nat /\ client_period[h] \in Nat
          /\ client_active[h] \in BOOLEAN
      BY <2>1, CompositeRequestsType DEF TypeOK
    <2>6. ASSUME real[h]
          PROVE /\ \E p \in asked : backend_period[h] = p
                /\ \A p \in asked : p # 0 => backend_period[h] <= p
      <3>1. CASE compared = {}
        <4>1. backend_period[h] = client_period[h]
          BY <2>3, <2>6, <3>1 DEF DesiredPeriod
        <4>2. CompositeRequests(h) = {}
          BY <3>1
        <4>3. composite_periods[h] = {}
          BY <4>2 DEF CompositeRequests
        <4>4. client_active[h]
          BY <2>3, <2>6, <4>3 DEF DesiredActive
        <4>5. asked = {client_period[h]} /\ client_period[h] = 0
          BY <3>1, <4>2, <4>4
        <4> QED
          BY <4>1, <4>5
      <3>2. CASE compared # {}
        <4>1. backend_period[h] = Min(compared)
          BY <2>3, <2>6, <3>2 DEF DesiredPeriod
        <4>2. compared \in SUBSET Nat
          BY <2>5
        <4>3. backend_period[h] \in compared /\ \A p \in compared : backend_period[h] <= p
          <5> HIDE DEF compared
          <5> QED BY <3>2, <4>1, <4>2, MinNat
        <4>4. compared \subseteq asked /\ \A p \in asked : p # 0 => p \in compared
          OBVIOUS
        <4> QED
          BY <4>3, <4>4
      <3> QED
        BY <3>1, <3>2
    <2> QED
      BY <2>3, <2>4, <2>6
  <1>2. FullInv => UnionOfRequests
    BY <1>1 DEF UnionOfRequests
  <1> QED
    BY InitFull, NextFull, <1>2, PTL DEF Spec

-----------------------------------------------------------------------------
(* Deactivation is final. *)

\* A backend thread none of whose sensors samples carries nothing, unless the
\* control thread is about to join it.
JoinInv ==
    \A t \in Threads : (\A h \in SensorsOf[t] : ~real[h]) =>
        pending[t] = NoBatch \/ (pc = "join" /\ cur \in SensorsOf[t])

LateInv == SafeInv /\ JoinInv

\* What a thread carries is looked at, passed on or dropped: only Sample()
\* takes up something new.
LEMMA EventsCarry ==
    ASSUME TypeOK, NEW t \in EventThreads, EventStep(t)
    PROVE  /\ UNCHANGED <<real, pc, cur>>
           /\ \A u \in Threads : pending[u] = NoBatch => pending'[u] = NoBatch
  <1>1. ASSUME NEW d \in SUBSET Composites, OnBackendEvents(t, d)
        PROVE  \A u \in Threads : pending[u] = NoBatch => pending'[u] = NoBatch
    <2>1. pending[t] # NoBatch
      BY <1>1 DEF OnBackendEvents, NoBatch
    <2>2. \A u \in Threads : u # t => pending'[u] = pending[u]
      BY <1>1 DEF OnBackendEvents, TypeOK, EventThreads
    <2> QED
      BY <2>1, <2>2
  <1>2. ASSUME Deliver(t)
        PROVE  \A u \in Threads : pending[u] = NoBatch => pending'[u] = NoBatch
    BY <1>2 DEF Deliver, TypeOK, EventThreads
  <1>3. UNCHANGED <<real, pc, cur>>
    BY DEF EventStep, OnBackendEvents, Deliver, control
  <1> QED
    BY <1>1, <1>2, <1>3 DEF EventStep

LEMMA NextLate == LateInv /\ [Next]_vars => LateInv'
  <1> SUFFICES ASSUME LateInv, [Next]_vars PROVE JoinInv'
    BY NextSafe DEF LateInv
  <1>0. TypeOK /\ SafeInv /\ JoinInv
    BY DEF LateInv, SafeInv
  <1>1. ASSUME NEW t \in Threads
        PROVE SensorsOf[t] \subseteq Hardware /\ t \in EventThreads /\ t # "inject"
    BY SensorsAssumption DEF EventThreads
  <1>2. CASE UNCHANGED <<real, pending>> /\ pc # "join"
    BY <1>0, <1>2 DEF JoinInv
  <1>3. ASSUME NEW ok \in BOOLEAN, CallActivate(ok) PROVE JoinInv'
    <2>1. /\ pc = "activate" /\ cur \in Hardware /\ UNCHANGED <<pending, cur>>
          /\ \/ UNCHANGED real
             \/ real' = [real EXCEPT ![cur] = want.active] /\ pc' = "join"
      BY <1>0, <1>3 DEF CallActivate, SafeInv, ControlInv, Visiting
    <2>2. CASE UNCHANGED real
      BY <1>0, <2>1, <2>2 DEF JoinInv
    <2>3. CASE real' = [real EXCEPT ![cur] = want.active] /\ pc' = "join"
      <3>1. ASSUME NEW t \in Threads, \A h \in SensorsOf[t] : ~real'[h],
                   cur \notin SensorsOf[t]
            PROVE  pending'[t] = NoBatch
        <4>1. \A h \in SensorsOf[t] : ~real[h]
          BY <1>0, <1>1, <2>3, <3>1 DEF TypeOK
        <4> QED
          BY <1>0, <2>1, <4>1 DEF JoinInv
      <3> QED
        BY <2>1, <2>3, <3>1 DEF JoinInv
    <2> QED
      BY <2>1, <2>2, <2>3
  <1>4. CASE ActivateReturns
    <2>1. /\ UNCHANGED <<real, pending, cur>>
          /\ \A t \in JoinedThreads(cur) : pending[t] = NoBatch
      BY <1>4 DEF ActivateReturns
    <2>2. ASSUME NEW t \in Threads, \A h \in SensorsOf[t] : ~real[h]
          PROVE  pending[t] = NoBatch
      BY <1>0, <2>1, <2>2 DEF JoinInv, JoinedThreads
    <2> QED
      BY <2>1, <2>2 DEF JoinInv
  <1>5. ASSUME NEW t \in Threads, NEW hs \in SUBSET SensorsOf[t], Sample(t, hs)
        PROVE JoinInv'
    <2>1. \E h \in SensorsOf[t] : real[h]
      BY <1>5 DEF Sample
    <2>2. UNCHANGED <<real, pc, cur>> /\ \A u \in Threads : u # t => pending'[u] = pending[u]
      BY <1>0, <1>1, <1>5 DEF Sample, control, TypeOK
    <2> QED
      BY <1>0, <2>1, <2>2 DEF JoinInv
  <1>6. ASSUME NEW t \in EventThreads, EventStep(t) PROVE JoinInv'
    BY <1>0, <1>6, EventsCarry DEF JoinInv
  <1>7. ASSUME NEW h \in Hardware, InjectEvent(h) PROVE JoinInv'
    <2>1. UNCHANGED <<real, pc, cur>> /\ \A u \in Threads : pending'[u] = pending[u]
      BY <1>0, <1>1, <1>7 DEF InjectEvent, control, TypeOK
    <2> QED
      BY <1>0, <2>1 DEF JoinInv
  <1>8. CASE ControlCall
    BY <1>2, <1>8
    DEF ControlCall, ActivateHardware, ActivateComposite, Batch, DeactivateAll,
        SetOperationMode, Flush
  <1>9. CASE FlushBackend \/ Return \/ \E h \in todo : ApplyHardwareState(h)
    BY <1>2, <1>9 DEF FlushBackend, Return, ApplyHardwareState
  <1>10. CASE \E ok \in BOOLEAN : CallBatch(ok)
    BY <1>2, <1>10 DEF CallBatch
  <1>11. CASE UNCHANGED vars
    BY <1>0, <1>11 DEF JoinInv, vars, control
  <1> QED
    BY <1>3, <1>4, <1>5, <1>6, <1>7, <1>8, <1>9, <1>10, <1>11 DEF Next, ControlStep

\* When a control operation that stopped the last sensor of a backend thread
\* has returned, that thread has nothing on its way to the framework: the join
\* inside Activate() is what makes a deactivation final.
THEOREM NoLateEventsAlways == Spec => []NoLateEvents
  <1>1. Init => LateInv
    BY InitSafe DEF Init, LateInv, JoinInv, EventThreads
  <1>2. LateInv => NoLateEvents
    BY DEF LateInv, JoinInv, NoLateEvents
  <1> QED
    BY <1>1, NextLate, <1>2, PTL DEF Spec

-----------------------------------------------------------------------------
(***************************************************************************)
(* The event FMQ and the wake lock (EventDispatcher): the wake lock covers *)
(* the unacknowledged events and always has someone to release it, for any *)
(* number of posters and batches of any size.                              *)
(***************************************************************************)

\* Where the wake lock thread, the queues and Initialize() can be together, and
\* what that says about who still releases the wake lock.
OwnerInv ==
    /\ Dispatcher!LockHasOwner
    /\ thread # "none" /\ ~run => boot = "join"
    /\ boot = "idle" /\ queue = "open" => thread # "none"
    /\ boot \in {"swap", "reset", "start"} => thread = "none"
    /\ boot \in {"reset", "start"} => queue = goal
    /\ boot = "start" /\ goal = "none" => ~has_wake_lock
    /\ queue = "none" => Dispatcher!WriteMutexFree
    /\ thread # "update" => handled = 0

\* Only one poster is between its write and its wake lock update.
OneWriter ==
    \A p, q \in Posters : writer[p] # Dispatcher!NoBatch /\ writer[q] # Dispatcher!NoBatch => p = q

\* What is unacknowledged has been counted, was given up by a timeout, or is in
\* the hands of the poster that is about to count it.
CountInv ==
    /\ outstanding > 0 => has_wake_lock \/ denied
    /\ ~raced /\ boot # "idle" => Dispatcher!WriteMutexFree
    /\ ~raced /\ boot = "reset" => unacked = 0
    /\ ~raced /\ Dispatcher!WriteMutexFree => unacked <= forgotten + outstanding
    /\ ~raced => \A p \in Posters : writer[p] # Dispatcher!NoBatch =>
                    unacked <= forgotten + outstanding + writer[p].wake

DispatcherInv == Dispatcher!TypeOK /\ OwnerInv /\ OneWriter /\ CountInv

\* Arithmetic of the count: u unacknowledged, f given up, o outstanding, k in the
\* hands of a poster, n added or a acknowledged.
LEMMA Counted ==
    ASSUME NEW u \in Int, NEW f1 \in Nat, NEW o1 \in Nat, NEW f2 \in Nat, NEW o2 \in Nat,
           NEW k \in Nat, NEW n \in Nat,
           n >= k, u <= f1 + o1 + k, f2 + o2 >= f1 + o1 + n
    PROVE  u <= f2 + o2
    OBVIOUS

LEMMA Subtracted ==
    ASSUME NEW u \in Int, NEW f1 \in Nat, NEW o1 \in Nat, NEW f2 \in Nat, NEW o2 \in Nat,
           NEW k \in Nat, NEW a \in Nat,
           u <= f1 + o1 + k, f2 + o2 >= f1 + o1 - a
    PROVE  u - a <= f2 + o2 + k
    OBVIOUS

\* The framework reads one event.
LEMMA ReadOne ==
    ASSUME NEW q \in [wake : Nat, plain : Nat], Dispatcher!Size(q) <= Capacity, NEW r,
           \/ q.wake > 0 /\ r = [q EXCEPT !.wake = @ - 1]
           \/ q.plain > 0 /\ r = [q EXCEPT !.plain = @ - 1]
    PROVE  r \in [wake : Nat, plain : Nat] /\ Dispatcher!Size(r) <= Capacity
<1>1. q.wake \in Nat /\ q.plain \in Nat
    OBVIOUS
<1>2. [q EXCEPT !.wake = @ - 1] = [wake |-> q.wake - 1, plain |-> q.plain]
    OBVIOUS
<1>3. [q EXCEPT !.plain = @ - 1] = [wake |-> q.wake, plain |-> q.plain - 1]
    OBVIOUS
<1> QED
    BY <1>1, <1>2, <1>3, DispatcherAssumption DEF Dispatcher!Size

\* A batch that holds a wake-up event is not the empty one.
LEMMA BatchTypes ==
    ASSUME NEW b \in Dispatcher!Batches
    PROVE  b.wake \in Nat /\ b.plain \in Nat /\ b # Dispatcher!NoBatch
    BY DispatcherAssumption DEF Dispatcher!Batches, Dispatcher!NoBatch

\* What a poster has in hand is counted in natural numbers.
LEMMA WriterTypes ==
    ASSUME Dispatcher!TypeOK, NEW p \in Posters
    PROVE  writer[p].wake \in Nat /\ writer[p].plain \in Nat /\ Dispatcher!Size(writer[p]) \in Nat
                /\ Dispatcher!Size(writer[p]) >= writer[p].wake
<1>1. CASE writer[p] = Dispatcher!NoBatch
    BY <1>1 DEF Dispatcher!NoBatch, Dispatcher!Size
<1>2. CASE writer[p] \in Dispatcher!Batches
    BY <1>2, BatchTypes DEF Dispatcher!Size
<1> QED
    BY <1>1, <1>2 DEF Dispatcher!TypeOK

\* The critical section of wake_lock_mutex_: nothing is lost from the count but
\* what was acknowledged, and what is outstanding has the lock or was refused it.
LEMMA UpdateCounts ==
    ASSUME Dispatcher!TypeOK, NEW w \in Nat, NEW a \in Nat, Dispatcher!UpdateWakeLock(w, a)
    PROVE  /\ outstanding' \in Nat /\ forgotten' \in Nat
           /\ has_wake_lock' \in BOOLEAN /\ denied' \in BOOLEAN /\ overdue' \in BOOLEAN
           /\ forgotten' + outstanding' >= forgotten + outstanding + w - a
           /\ outstanding' > 0 => has_wake_lock' \/ denied'
<1> DEFINE updated == Dispatcher!Updated(w, a)
           kept    == IF has_wake_lock /\ Dispatcher!Late(w) THEN 0 ELSE updated
<1>1. updated \in Nat /\ updated >= outstanding + w - a
    BY DEF Dispatcher!TypeOK, Dispatcher!Updated
<1>2. kept \in Nat /\ updated - kept \in Nat
    BY <1>1
<1>3. outstanding' = kept /\ forgotten' = forgotten + (updated - kept)
    BY DEF Dispatcher!UpdateWakeLock
<1>4. has_wake_lock' \in BOOLEAN /\ denied' \in BOOLEAN /\ overdue' \in BOOLEAN
    BY DEF Dispatcher!UpdateWakeLock, Dispatcher!TypeOK, Dispatcher!Late
<1>5. forgotten \in Nat /\ outstanding \in Nat
    BY DEF Dispatcher!TypeOK
<1>6. kept # 0 => has_wake_lock' \/ denied'
    <2>1. ASSUME ~has_wake_lock, updated # 0
          PROVE  has_wake_lock' \/ denied'
        <3>1. denied' = ~has_wake_lock' /\ has_wake_lock' \in BOOLEAN
            BY <2>1, <1>1 DEF Dispatcher!UpdateWakeLock
        <3> QED
            BY <3>1, Zenon
    <2>2. ASSUME has_wake_lock, kept # 0
          PROVE  has_wake_lock'
        <3>1. has_wake_lock' = has_wake_lock
            BY <2>2 DEF Dispatcher!UpdateWakeLock
        <3> QED
            BY <2>2, <3>1, Zenon
    <2> QED
        BY <2>1, <2>2
<1>7. outstanding' > 0 => kept # 0
    BY <1>3
<1> HIDE DEF updated, kept
<1> QED
    <2>1. forgotten' + outstanding' >= forgotten + outstanding + w - a
            /\ outstanding' \in Nat /\ forgotten' \in Nat
        BY <1>1, <1>2, <1>3, <1>5
    <2> QED
        BY <1>4, <1>6, <1>7, <2>1, Zenon

\* The state is well typed and the FMQ never holds more than it can.
LEMMA TypeStep ==
    ASSUME DispatcherInv, [Dispatcher!Next]_(Dispatcher!vars)
    PROVE  Dispatcher!TypeOK'
<1> USE DispatcherAssumption DEF DispatcherInv
<1>1. ASSUME NEW p \in Posters, NEW b \in Dispatcher!Batches, Dispatcher!PostEvents(p, b)
      PROVE  Dispatcher!TypeOK'
    <2>1. b.wake \in Nat /\ b.plain \in Nat
        BY BatchTypes
    <2>2. CASE queue = "open" /\ Dispatcher!RoomFor(b)
        <3>1. fmq' \in [wake : Nat, plain : Nat] /\ Dispatcher!Size(fmq') <= Capacity
            <4>1. fmq.wake \in Nat /\ fmq.plain \in Nat
                BY DEF Dispatcher!TypeOK
            <4>2. fmq' = [wake |-> fmq.wake + b.wake, plain |-> fmq.plain + b.plain]
                BY <1>1, <2>2 DEF Dispatcher!PostEvents
            <4>3. fmq.wake + fmq.plain + (b.wake + b.plain) <= Capacity
                BY <2>2 DEF Dispatcher!RoomFor, Dispatcher!Size
            <4>4. /\ fmq.wake + b.wake \in Nat /\ fmq.plain + b.plain \in Nat
                  /\ (fmq.wake + b.wake) + (fmq.plain + b.plain) <= Capacity
                BY <2>1, <4>1, <4>3
            <4> QED
                BY <4>2, <4>4 DEF Dispatcher!Size
        <3>2. writer' \in [Posters -> Dispatcher!Batches \cup {Dispatcher!NoBatch}]
            BY <1>1, <2>2 DEF Dispatcher!PostEvents, Dispatcher!TypeOK
        <3>3. posts' \in 0..MaxPosts /\ unacked' \in Int /\ raced' \in BOOLEAN
            BY <1>1, <2>1, <2>2 DEF Dispatcher!PostEvents, Dispatcher!TypeOK
        <3> QED
            BY <1>1, <3>1, <3>2, <3>3 DEF Dispatcher!PostEvents, Dispatcher!TypeOK, Dispatcher!wakelock
    <2>3. CASE ~(queue = "open" /\ Dispatcher!RoomFor(b))
        BY <1>1, <2>3 DEF Dispatcher!PostEvents, Dispatcher!TypeOK, Dispatcher!Size, Dispatcher!wakelock
    <2> QED
        BY <2>2, <2>3
<1>2. ASSUME NEW p \in Posters, Dispatcher!PostUpdate(p)
      PROVE  Dispatcher!TypeOK'
    BY <1>2, WriterTypes, UpdateCounts DEF Dispatcher!PostUpdate, Dispatcher!TypeOK, Dispatcher!Size
<1>3. CASE Dispatcher!ThreadLoop
    BY <1>3 DEF Dispatcher!ThreadLoop, Dispatcher!TypeOK, Dispatcher!Size, Dispatcher!wakelock
<1>4. CASE Dispatcher!ThreadRead
    <2>0. acks \in Seq(Nat)
        BY DEF Dispatcher!TypeOK
    <2>1. CASE acks # <<>>
        <3>1. acks' = Tail(acks) /\ handled' = Head(acks)
            BY <1>4, <2>1 DEF Dispatcher!ThreadRead
        <3>2. Tail(acks) \in Seq(Nat) /\ Head(acks) \in Nat
            BY <2>0, <2>1
        <3> QED
            BY <1>4, <3>1, <3>2 DEF Dispatcher!ThreadRead, Dispatcher!TypeOK, Dispatcher!Size, Dispatcher!wakelock
    <2>2. CASE acks = <<>>
        BY <1>4, <2>2 DEF Dispatcher!ThreadRead, Dispatcher!TypeOK, Dispatcher!Size, Dispatcher!wakelock
    <2> QED
        BY <2>1, <2>2
<1>5. CASE Dispatcher!ThreadUpdate
    BY <1>5, UpdateCounts DEF Dispatcher!ThreadUpdate, Dispatcher!TypeOK, Dispatcher!Size
<1>6. ASSUME NEW g \in {"open", "none"}, Dispatcher!StopWakeLockThread(g)
      PROVE  Dispatcher!TypeOK'
    <2>1. inits' \in 0..MaxInits
        BY <1>6 DEF Dispatcher!StopWakeLockThread, Dispatcher!TypeOK
    <2> QED
        BY <1>6, <2>1 DEF Dispatcher!StopWakeLockThread, Dispatcher!TypeOK, Dispatcher!Size, Dispatcher!wakelock
<1>7. CASE Dispatcher!JoinWakeLockThread
    BY <1>7 DEF Dispatcher!JoinWakeLockThread, Dispatcher!TypeOK, Dispatcher!Size, Dispatcher!wakelock
<1>8. CASE Dispatcher!SwapQueues
    BY <1>8 DEF Dispatcher!SwapQueues, Dispatcher!TypeOK, Dispatcher!Size, Dispatcher!NoBatch
<1>9. CASE Dispatcher!ResetWakeLock
    BY <1>9 DEF Dispatcher!ResetWakeLock, Dispatcher!DropWakeLock, Dispatcher!TypeOK, Dispatcher!Size
<1>10. CASE Dispatcher!StartWakeLockThread
    BY <1>10 DEF Dispatcher!StartWakeLockThread, Dispatcher!TypeOK, Dispatcher!Size, Dispatcher!wakelock
<1>11. CASE Dispatcher!Timeout
    BY <1>11 DEF Dispatcher!Timeout, Dispatcher!TypeOK, Dispatcher!Size
<1>12. CASE Dispatcher!FrameworkRead
    <2>0. fmq \in [wake : Nat, plain : Nat] /\ Dispatcher!Size(fmq) <= Capacity /\ seen \in Nat
        BY DEF Dispatcher!TypeOK
    <2>1. fmq' \in [wake : Nat, plain : Nat] /\ Dispatcher!Size(fmq') <= Capacity /\ seen' \in Nat
        <3>1. \/ fmq.wake > 0 /\ fmq' = [fmq EXCEPT !.wake = @ - 1]
              \/ fmq.plain > 0 /\ fmq' = [fmq EXCEPT !.plain = @ - 1]
            BY <1>12 DEF Dispatcher!FrameworkRead
        <3>2. seen' \in Nat
            BY <1>12, <2>0 DEF Dispatcher!FrameworkRead
        <3> QED
            BY <2>0, <3>1, <3>2, ReadOne
    <2> QED
        BY <1>12, <2>1 DEF Dispatcher!FrameworkRead, Dispatcher!TypeOK, Dispatcher!wakelock
<1>13. CASE Dispatcher!FrameworkAck
    BY <1>13 DEF Dispatcher!FrameworkAck, Dispatcher!TypeOK, Dispatcher!Size, Dispatcher!wakelock
<1>14. CASE UNCHANGED Dispatcher!vars
    BY <1>14 DEF Dispatcher!vars, Dispatcher!wakelock, Dispatcher!TypeOK, Dispatcher!Size
<1> QED
    BY <1>1, <1>2, <1>3, <1>4, <1>5, <1>6, <1>7, <1>8, <1>9, <1>10, <1>11, <1>12, <1>13,
       <1>14 DEF Dispatcher!Next, Dispatcher!WakeLockThread, Dispatcher!Boot

\* There is always someone to release the wake lock.
LEMMA OwnerStep ==
    ASSUME DispatcherInv, [Dispatcher!Next]_(Dispatcher!vars)
    PROVE  OwnerInv'
<1> USE DEF DispatcherInv, OwnerInv, Dispatcher!LockHasOwner, Dispatcher!WriteMutexFree
<1>1. ASSUME NEW p \in Posters, NEW b \in Dispatcher!Batches, Dispatcher!PostEvents(p, b)
      PROVE  OwnerInv'
    BY <1>1 DEF Dispatcher!PostEvents, Dispatcher!TypeOK, Dispatcher!wakelock
<1>2. ASSUME NEW p \in Posters, Dispatcher!PostUpdate(p)
      PROVE  OwnerInv'
    <2>1. queue = "open"
        BY <1>2 DEF Dispatcher!PostUpdate, Dispatcher!TypeOK
    <2> QED
        BY <1>2, <2>1 DEF Dispatcher!PostUpdate, Dispatcher!TypeOK
<1>3. CASE Dispatcher!ThreadLoop
    BY <1>3 DEF Dispatcher!ThreadLoop, Dispatcher!TypeOK, Dispatcher!wakelock
<1>4. CASE Dispatcher!ThreadRead
    BY <1>4 DEF Dispatcher!ThreadRead, Dispatcher!TypeOK, Dispatcher!wakelock
<1>5. CASE Dispatcher!ThreadUpdate
    BY <1>5 DEF Dispatcher!ThreadUpdate, Dispatcher!TypeOK
<1>6. ASSUME NEW g \in {"open", "none"}, Dispatcher!StopWakeLockThread(g)
      PROVE  OwnerInv'
    BY <1>6 DEF Dispatcher!StopWakeLockThread, Dispatcher!TypeOK, Dispatcher!wakelock
<1>7. CASE Dispatcher!JoinWakeLockThread
    BY <1>7 DEF Dispatcher!JoinWakeLockThread, Dispatcher!TypeOK, Dispatcher!wakelock
<1>8. CASE Dispatcher!SwapQueues
    BY <1>8 DEF Dispatcher!SwapQueues, Dispatcher!TypeOK
<1>9. CASE Dispatcher!ResetWakeLock
    BY <1>9 DEF Dispatcher!ResetWakeLock, Dispatcher!DropWakeLock, Dispatcher!TypeOK
<1>10. CASE Dispatcher!StartWakeLockThread
    BY <1>10 DEF Dispatcher!StartWakeLockThread, Dispatcher!TypeOK, Dispatcher!wakelock
<1>11. CASE Dispatcher!Timeout
    BY <1>11 DEF Dispatcher!Timeout, Dispatcher!TypeOK
<1>12. CASE Dispatcher!FrameworkRead
    BY <1>12 DEF Dispatcher!FrameworkRead, Dispatcher!TypeOK, Dispatcher!wakelock
<1>13. CASE Dispatcher!FrameworkAck
    BY <1>13 DEF Dispatcher!FrameworkAck, Dispatcher!TypeOK, Dispatcher!wakelock
<1>14. CASE UNCHANGED Dispatcher!vars
    BY <1>14 DEF Dispatcher!vars, Dispatcher!wakelock
<1> QED
    BY <1>1, <1>2, <1>3, <1>4, <1>5, <1>6, <1>7, <1>8, <1>9, <1>10, <1>11, <1>12, <1>13,
       <1>14 DEF Dispatcher!Next, Dispatcher!WakeLockThread, Dispatcher!Boot

\* The count keeps up with the events, and one poster at a time adds to it.
LEMMA CountStep ==
    ASSUME DispatcherInv, [Dispatcher!Next]_(Dispatcher!vars)
    PROVE  OneWriter' /\ CountInv'
<1> USE DEF DispatcherInv, OneWriter, CountInv, Dispatcher!WriteMutexFree
<1>0. outstanding \in Nat /\ forgotten \in Nat /\ unacked \in Int /\ handled \in Nat
    BY DEF Dispatcher!TypeOK
<1>1. ASSUME NEW p \in Posters, NEW b \in Dispatcher!Batches, Dispatcher!PostEvents(p, b)
      PROVE  OneWriter' /\ CountInv'
    <2>1. b.wake \in Nat /\ b.plain \in Nat /\ b # Dispatcher!NoBatch /\ Dispatcher!NoBatch.wake = 0
        BY BatchTypes DEF Dispatcher!NoBatch
    <2>2. outstanding' = outstanding /\ has_wake_lock' = has_wake_lock /\ denied' = denied
            /\ forgotten' = forgotten /\ boot' = boot /\ Dispatcher!WriteMutexFree
            /\ raced' = (raced \/ boot # "idle")
        BY <1>1 DEF Dispatcher!PostEvents, Dispatcher!wakelock
    <2>3. ~raced => unacked <= forgotten + outstanding
        BY <2>2
    <2>4. CASE queue = "open" /\ Dispatcher!RoomFor(b) /\ b.wake > 0
        <3>1. writer' = [writer EXCEPT ![p] = b] /\ unacked' = unacked + b.wake
            BY <1>1, <2>4 DEF Dispatcher!PostEvents
        <3>2. writer'[p] = b /\ \A q \in Posters : q # p => writer'[q] = Dispatcher!NoBatch
            BY <3>1, <2>2 DEF Dispatcher!TypeOK
        <3>3. ASSUME ~raced'
              PROVE  unacked' <= forgotten' + outstanding' + b.wake
            <4>1. unacked <= forgotten + outstanding
                BY <2>2, <2>3, <3>3
            <4>2. forgotten' = forgotten /\ outstanding' = outstanding
                BY <2>2
            <4> QED
                BY <1>0, <2>1, <3>1, <4>1, <4>2
        <3>4. OneWriter' /\ writer'[p] # Dispatcher!NoBatch
            BY <2>1, <3>2
        <3>5. ~raced' => boot' = "idle"
            BY <2>2
        <3> QED
            BY <2>2, <3>2, <3>3, <3>4, <3>5
    <2>5. CASE ~(queue = "open" /\ Dispatcher!RoomFor(b) /\ b.wake > 0)
        <3>1. unacked' = unacked
            BY <1>1, <2>1, <2>5 DEF Dispatcher!PostEvents, Dispatcher!TypeOK
        <3>2. \A q \in Posters : writer'[q] = Dispatcher!NoBatch
            BY <1>1, <2>1, <2>2, <2>5 DEF Dispatcher!PostEvents, Dispatcher!TypeOK
        <3> QED
            BY <2>2, <2>3, <3>1, <3>2
    <2> QED
        BY <2>4, <2>5
<1>2. ASSUME NEW p \in Posters, Dispatcher!PostUpdate(p)
      PROVE  OneWriter' /\ CountInv'
    <2>1. \A q \in Posters : writer'[q] = Dispatcher!NoBatch
        BY <1>2 DEF Dispatcher!PostUpdate, Dispatcher!TypeOK
    <2>2. writer[p].wake \in Nat /\ Dispatcher!Size(writer[p]) \in Nat /\ Dispatcher!Size(writer[p]) >= writer[p].wake
        BY WriterTypes
    <2>3. /\ outstanding' \in Nat /\ forgotten' \in Nat
          /\ forgotten' + outstanding' >= forgotten + outstanding + Dispatcher!Size(writer[p])
          /\ outstanding' > 0 => has_wake_lock' \/ denied'
        BY <1>2, <2>2, UpdateCounts DEF Dispatcher!PostUpdate, Dispatcher!TypeOK
    <2>4. boot' = boot /\ raced' = raced /\ unacked' = unacked /\ writer[p] # Dispatcher!NoBatch
        BY <1>2 DEF Dispatcher!PostUpdate
    <2>5. ~raced => unacked' <= forgotten' + outstanding'
        <3>1. ~raced => unacked <= forgotten + outstanding + writer[p].wake
            BY <2>4
        <3>2. forgotten' + outstanding' >= forgotten + outstanding + Dispatcher!Size(writer[p])
                /\ forgotten' \in Nat /\ outstanding' \in Nat /\ unacked' = unacked
            BY <2>3, <2>4
        <3>3. unacked <= forgotten + outstanding + writer[p].wake => unacked' <= forgotten' + outstanding'
            BY <1>0, <2>2, <3>2, Counted
        <3> QED
            BY <3>1, <3>3
    <2>6. ~raced => boot = "idle"
        BY <2>4
    <2> QED
        BY <2>1, <2>3, <2>4, <2>5, <2>6
<1>3. CASE Dispatcher!ThreadLoop
    BY <1>3 DEF Dispatcher!ThreadLoop, Dispatcher!wakelock
<1>4. CASE Dispatcher!ThreadRead
    BY <1>4 DEF Dispatcher!ThreadRead, Dispatcher!wakelock
<1>5. CASE Dispatcher!ThreadUpdate
    <2>1. /\ outstanding' \in Nat /\ forgotten' \in Nat
          /\ forgotten' + outstanding' >= forgotten + outstanding - handled
          /\ outstanding' > 0 => has_wake_lock' \/ denied'
        BY <1>5, UpdateCounts DEF Dispatcher!ThreadUpdate, Dispatcher!TypeOK
    <2>2. boot' = boot /\ raced' = raced /\ unacked' = unacked - handled /\ writer' = writer
            /\ boot # "reset"
        BY <1>5 DEF Dispatcher!ThreadUpdate, OwnerInv
    <2>3. ~raced /\ Dispatcher!WriteMutexFree => unacked' <= forgotten' + outstanding'
        <3>1. forgotten' + outstanding' >= forgotten + outstanding - handled
                /\ forgotten' \in Nat /\ outstanding' \in Nat /\ unacked' = unacked - handled
            BY <2>1, <2>2
        <3>2. unacked <= forgotten + outstanding => unacked' <= forgotten' + outstanding'
            <4> HAVE unacked <= forgotten + outstanding
            <4> DEFINE f2 == forgotten'
                       o2 == outstanding'
            <4>1. f2 \in Nat /\ o2 \in Nat /\ f2 + o2 >= forgotten + outstanding - handled
                BY <3>1
            <4>2. /\ unacked \in Int /\ forgotten \in Nat /\ outstanding \in Nat
                  /\ handled \in Nat /\ unacked <= forgotten + outstanding
                BY <1>0
            <4> HIDE DEF f2, o2
            <4>3. unacked - handled <= f2 + o2
                BY <4>1, <4>2
            <4> QED
                BY <2>2, <4>3 DEF f2, o2
        <3> QED
            BY <3>2
    <2>4. ASSUME ~raced, NEW p \in Posters, writer[p] # Dispatcher!NoBatch
          PROVE  unacked' <= forgotten' + outstanding' + writer[p].wake
        <3>1. unacked <= forgotten + outstanding + writer[p].wake /\ writer[p].wake \in Nat
            BY <2>4, WriterTypes
        <3>2. forgotten' + outstanding' >= forgotten + outstanding - handled
                /\ forgotten' \in Nat /\ outstanding' \in Nat /\ unacked' = unacked - handled
            BY <2>1, <2>2
        <3> QED
            BY <1>0, <3>1, <3>2, Subtracted
    <2> QED
        BY <2>1, <2>2, <2>3, <2>4
<1>6. ASSUME NEW g \in {"open", "none"}, Dispatcher!StopWakeLockThread(g)
      PROVE  OneWriter' /\ CountInv'
    BY <1>6 DEF Dispatcher!StopWakeLockThread, Dispatcher!wakelock
<1>7. CASE Dispatcher!JoinWakeLockThread
    BY <1>7 DEF Dispatcher!JoinWakeLockThread, Dispatcher!wakelock
<1>8. CASE Dispatcher!SwapQueues
    BY <1>8 DEF Dispatcher!SwapQueues, Dispatcher!TypeOK
<1>9. CASE Dispatcher!ResetWakeLock
    BY <1>9 DEF Dispatcher!ResetWakeLock, Dispatcher!DropWakeLock, Dispatcher!TypeOK
<1>10. CASE Dispatcher!StartWakeLockThread
    BY <1>10 DEF Dispatcher!StartWakeLockThread, Dispatcher!wakelock
<1>11. CASE Dispatcher!Timeout
    BY <1>11 DEF Dispatcher!Timeout
<1>12. CASE Dispatcher!FrameworkRead
    BY <1>12 DEF Dispatcher!FrameworkRead, Dispatcher!wakelock
<1>13. CASE Dispatcher!FrameworkAck
    BY <1>13 DEF Dispatcher!FrameworkAck, Dispatcher!wakelock
<1>14. CASE UNCHANGED Dispatcher!vars
    BY <1>14 DEF Dispatcher!vars, Dispatcher!wakelock
<1> QED
    BY <1>1, <1>2, <1>3, <1>4, <1>5, <1>6, <1>7, <1>8, <1>9, <1>10, <1>11, <1>12, <1>13,
       <1>14 DEF Dispatcher!Next, Dispatcher!WakeLockThread, Dispatcher!Boot

\* EventDispatcher.h: "a wake lock is held while WAKE_UP events written to the
\* FMQ have not been acknowledged", and never without someone to release it, for
\* any number of posters, any batches, queue size and number of restarts.
THEOREM WakeLockCovers == Dispatcher!Spec => [](Dispatcher!TypeOK /\ LockCovers)
<1>1. Dispatcher!Init => DispatcherInv
    <2>1. Dispatcher!Init => Dispatcher!TypeOK
        <3>1. Dispatcher!Init => Dispatcher!Size(fmq) = 0 /\ fmq \in [wake : Nat, plain : Nat]
            BY DEF Dispatcher!Init, Dispatcher!NoBatch, Dispatcher!Size
        <3>2. Dispatcher!Init => writer \in [Posters -> Dispatcher!Batches \cup {Dispatcher!NoBatch}]
            BY DEF Dispatcher!Init
        <3>3. Dispatcher!Init => posts \in 0..MaxPosts /\ inits \in 0..MaxInits /\ acks \in Seq(Nat)
            BY DispatcherAssumption DEF Dispatcher!Init
        <3>4. Dispatcher!Init => Dispatcher!Size(fmq) <= Capacity
            BY <3>1, DispatcherAssumption
        <3>5. Dispatcher!Init => outstanding \in Nat /\ seen \in Nat /\ handled \in Nat /\ forgotten \in Nat
                         /\ unacked \in Int
            BY DEF Dispatcher!Init
        <3> QED
            BY <3>1, <3>2, <3>3, <3>4, <3>5, Zenon DEF Dispatcher!Init, Dispatcher!TypeOK
    <2>2. Dispatcher!Init => OwnerInv /\ OneWriter /\ CountInv
        BY DEF Dispatcher!Init, OwnerInv, Dispatcher!LockHasOwner, OneWriter, CountInv, Dispatcher!WriteMutexFree
    <2> QED
        BY <2>1, <2>2 DEF DispatcherInv
<1>2. DispatcherInv /\ [Dispatcher!Next]_(Dispatcher!vars) => DispatcherInv'
    BY TypeStep, OwnerStep, CountStep DEF DispatcherInv
<1>3. DispatcherInv => Dispatcher!TypeOK /\ LockCovers
    <2>1. ASSUME DispatcherInv
          PROVE  Dispatcher!HeldWhileUnacked
        BY <2>1 DEF DispatcherInv, Dispatcher!TypeOK, CountInv, Dispatcher!HeldWhileUnacked
    <2> QED
        BY <2>1 DEF DispatcherInv, OwnerInv, LockCovers, Dispatcher!LockCovers
<1> QED
    BY <1>1, <1>2, <1>3, PTL DEF Dispatcher!Spec
=============================================================================
