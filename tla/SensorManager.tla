---------------------------- MODULE SensorManager ----------------------------
(***************************************************************************)
(* The sensors HAL front end (sensors/mainline/SensorManager.cpp) once     *)
(* discovery is over: who wants which hardware sensor, what the backends   *)
(* were told, and the events that travel the other way.                    *)
(*                                                                         *)
(* Control operations hold control_mutex_ from entry to return, so a       *)
(* single program counter pc stands for "the" control thread.  A critical  *)
(* section of state_mutex_ is one action; a call into a backend is made    *)
(* with state_mutex_ free and is an action (or two) of its own.  Backend   *)
(* threads and injectSensorData() run concurrently with all of it.         *)
(***************************************************************************)
EXTENDS Integers, FiniteSets, FiniteSetsExt

CONSTANTS
    Hardware,       \* global handles of the registered hardware sensors
    Composites,     \* global handles of the registered composite sensors
    InputOf,        \* composite -> the hardware sensors it consumes
    InputPeriod,    \* composite -> GetInputSamplingPeriodNs()
    MinDelay,       \* hardware sensor -> minDelayUs, 0 if it has none
    MaxDelay,       \* hardware sensor -> maxDelayUs, 0 if it has none
    OneShot,        \* hardware sensors in one-shot reporting mode
    Injectable,     \* hardware sensors with the DATA_INJECTION flag
    Threads,        \* backend threads that post events (readers and workers)
    SensorsOf,      \* thread -> the hardware sensors it reports
    Periods,        \* sampling periods the framework asks for
    Latencies,      \* report latencies the framework asks for
    DefaultPeriod,  \* kDefaultPeriodNs
    Nobody          \* no handle

ASSUME SensorsAssumption ==
    /\ Hardware \cap Composites = {}
    /\ Nobody \notin Hardware \cup Composites
    /\ InputOf \in [Composites -> SUBSET Hardware]
    /\ \A c \in Composites : InputOf[c] # {}
    /\ InputPeriod \in [Composites -> Nat \ {0}]
    /\ MinDelay \in [Hardware -> Nat]
    /\ MaxDelay \in [Hardware -> Nat]
    /\ SensorsOf \in [Threads -> SUBSET Hardware]
    /\ Periods \subseteq Nat
    /\ Latencies \subseteq Nat
    /\ DefaultPeriod \in Nat
    /\ "inject" \notin Threads

VARIABLES
    client_active,      \* HardwareSensor::client_active
    client_period,      \* HardwareSensor::client_period_ns
    client_latency,     \* HardwareSensor::client_latency_ns
    composite_periods,  \* hardware sensor -> composites keeping it running
    backend_active,     \* HardwareSensor::backend_active
    backend_period,     \* HardwareSensor::backend_period_ns, -1 before the first Batch()
    backend_latency,    \* HardwareSensor::backend_latency_ns
    composite_active,   \* ICompositeSensor::IsActive()
    mode,               \* mode_
    pc,                 \* what the holder of control_mutex_ does
    op,                 \* the control operation in progress
    todo,               \* handles ApplyHardwareState() still has to be called for
    cur,                \* the handle it is working on
    want,               \* its locals: desired state and the calls it needs
    ret,                \* TRUE while the operation's result is 0
    real,               \* external: hardware sensor -> sampling in its backend
    pending,            \* event thread -> the batch it is carrying
    acked,              \* external: the framework was told the sensor is active
    fault               \* history: a backend call of the last apply failed

requests == <<client_active, client_period, client_latency, composite_periods,
              composite_active>>
backendView == <<backend_active, backend_period, backend_latency>>
control == <<pc, op, todo, cur, want, ret>>
vars == <<requests, backendView, mode, control, real, pending, acked, fault>>

Handles == Hardware \cup Composites
EventThreads == Threads \cup {"inject"}
NoOp == [kind |-> "none", handle |-> Nobody, enabled |-> FALSE]
NoWant == [active |-> FALSE, period |-> 0, latency |-> 0,
           batch |-> FALSE, activate |-> FALSE, ok |-> TRUE]
NoBatch == [stage |-> "none", sensors |-> {}]

-----------------------------------------------------------------------------
\* SensorTypes.cpp: ClampSamplingPeriodNs().
ClampSamplingPeriodNs(h, p) ==
    LET low == IF MinDelay[h] > 0 /\ p < MinDelay[h] THEN MinDelay[h] ELSE p
    IN  IF MaxDelay[h] > 0 /\ low > MaxDelay[h] THEN MaxDelay[h] ELSE low

\* What the requests on record add up to (first half of ApplyHardwareState()).
DesiredActive(h) == client_active[h] \/ composite_periods[h] # {}

CompositeRequests(h) ==
    {ClampSamplingPeriodNs(h, InputPeriod[c]) : c \in composite_periods[h]}

\* Mutant: composites are left out of the comparison.
DesiredPeriodOfClient(h) == client_period[h]

\* A period of 0 does not take part in the comparison.
DesiredPeriod(h) ==
    LET client == IF client_active[h] /\ client_period[h] # 0
                  THEN {client_period[h]} ELSE {}
        asked  == client \cup CompositeRequests(h)
    IN  IF asked = {} THEN client_period[h] ELSE Min(asked)

\* Mutant: "no latency" is taken for "not set".
DesiredLatencyUnset(h) == IF client_active[h] THEN client_latency[h] ELSE -1

DesiredLatency(h) == IF client_active[h] THEN client_latency[h] ELSE 0

\* Mutant: the backend is told again what it already does.
NeedActivateAlways(h) == TRUE

NeedActivate(h) == DesiredActive(h) # backend_active[h]

Desired(h) ==
    [active   |-> DesiredActive(h),
     period   |-> DesiredPeriod(h),
     latency  |-> DesiredLatency(h),
     batch    |-> DesiredActive(h) /\ \/ DesiredPeriod(h) # backend_period[h]
                                      \/ DesiredLatency(h) # backend_latency[h],
     activate |-> NeedActivate(h),
     ok       |-> TRUE]

-----------------------------------------------------------------------------
Init ==
    /\ client_active = [h \in Hardware |-> FALSE]
    /\ client_period = [h \in Hardware |-> ClampSamplingPeriodNs(h, DefaultPeriod)]
    /\ client_latency = [h \in Hardware |-> 0]
    /\ composite_periods = [h \in Hardware |-> {}]
    /\ backend_active = [h \in Hardware |-> FALSE]
    /\ backend_period = [h \in Hardware |-> -1]
    /\ backend_latency = [h \in Hardware |-> -1]
    /\ composite_active = [c \in Composites |-> FALSE]
    /\ mode = "NORMAL"
    /\ pc = "idle" /\ op = NoOp /\ todo = {} /\ cur = Nobody
    /\ want = NoWant /\ ret = TRUE
    /\ real = [h \in Hardware |-> FALSE]
    /\ pending = [t \in EventThreads |-> NoBatch]
    /\ acked = [h \in Handles |-> FALSE]
    /\ fault = [h \in Hardware |-> FALSE]

\* A control operation goes on to ApplyHardwareState() for every handle of hs.
Apply(kind, handle, enabled, hs) ==
    /\ pc' = IF hs = {} THEN "return" ELSE "apply"
    /\ op' = [kind |-> kind, handle |-> handle, enabled |-> enabled]
    /\ todo' = hs
    /\ ret' = TRUE
    /\ UNCHANGED <<cur, want>>

-----------------------------------------------------------------------------
(* Control operations, up to the release of state_mutex_. *)

\* Activate() of a hardware sensor.
ActivateHardware(h, enabled) ==
    /\ pc = "idle"
    /\ IF client_active[h] = enabled
       THEN /\ acked' = [acked EXCEPT ![h] = enabled]
            /\ UNCHANGED <<requests, control>>
       ELSE /\ client_active' = [client_active EXCEPT ![h] = enabled]
            /\ Apply("activate", h, enabled, {h})
            /\ UNCHANGED <<client_period, client_latency, composite_periods,
                           composite_active, acked>>
    /\ UNCHANGED <<backendView, mode, real, pending, fault>>

\* Activate() of a composite sensor: ActivateComposite().
ActivateComposite(c, enabled) ==
    /\ pc = "idle"
    /\ IF composite_active[c] = enabled
       THEN /\ acked' = [acked EXCEPT ![c] = enabled]
            /\ UNCHANGED <<requests, control>>
       ELSE /\ composite_active' = [composite_active EXCEPT ![c] = enabled]
            /\ composite_periods' =
                 [h \in Hardware |->
                    IF h \notin InputOf[c] THEN composite_periods[h]
                    ELSE IF enabled THEN composite_periods[h] \cup {c}
                    ELSE composite_periods[h] \ {c}]
            /\ Apply("activate", c, enabled, InputOf[c])
            /\ UNCHANGED <<client_active, client_period, client_latency, acked>>
    /\ UNCHANGED <<backendView, mode, real, pending, fault>>

\* Batch() of a hardware sensor; on a composite it only stores a number that
\* nothing reads.
Batch(h, period, latency) ==
    /\ pc = "idle"
    /\ client_period' = [client_period EXCEPT ![h] = ClampSamplingPeriodNs(h, period)]
    /\ client_latency' = [client_latency EXCEPT ![h] = latency]
    /\ IF client_active[h] THEN Apply("batch", h, FALSE, {h}) ELSE UNCHANGED control
    /\ UNCHANGED <<client_active, composite_periods, composite_active, backendView,
                   mode, real, pending, acked, fault>>

\* DeactivateAll(), called by Sensors::initialize() when the framework (re)starts.
DeactivateAll ==
    /\ pc = "idle"
    /\ composite_active' = [c \in Composites |-> FALSE]
    /\ client_active' = [h \in Hardware |-> FALSE]
    /\ composite_periods' = [h \in Hardware |-> {}]
    /\ Apply("deactivateAll", Nobody, FALSE, {h \in Hardware : backend_active[h]})
    /\ UNCHANGED <<client_period, client_latency, backendView, mode, real, pending,
                   acked, fault>>

\* SetOperationMode(): refused when no sensor can be injected into, otherwise
\* stored before any backend is told.
SetOperationMode(m) ==
    /\ pc = "idle"
    /\ m = "DATA_INJECTION" => Injectable # {}
    /\ mode' = m
    /\ Apply("mode", Nobody, FALSE, {})
    /\ UNCHANGED <<requests, backendView, real, pending, acked, fault>>

\* Flush(): a hardware sensor must be active and not one-shot, a composite
\* active; FlushBackend is the backend's answer (and Deliver() of the
\* FLUSH_COMPLETE event when the front end has to make it).
Flush(h) ==
    /\ pc = "idle"
    /\ IF h \in Composites THEN composite_active[h]
       ELSE client_active[h] /\ h \notin OneShot
    /\ pc' = "flush"
    /\ op' = [kind |-> "flush", handle |-> h, enabled |-> FALSE]
    /\ UNCHANGED <<requests, backendView, mode, todo, cur, want, ret, real, pending,
                   acked, fault>>

FlushBackend ==
    /\ pc = "flush"
    /\ pc' = "return"
    /\ ret' \in BOOLEAN
    /\ UNCHANGED <<requests, backendView, mode, op, todo, cur, want, real, pending,
                   acked, fault>>

-----------------------------------------------------------------------------
(* ApplyHardwareState(): read the requests, call the backend, record. *)

ApplyHardwareState(h) ==
    /\ pc = "apply"
    /\ h \in todo
    /\ todo' = todo \ {h}
    /\ cur' = h
    /\ want' = Desired(h)
    /\ pc' = "batch"
    /\ fault' = [fault EXCEPT ![h] = FALSE]
    /\ UNCHANGED <<requests, backendView, mode, op, ret, real, pending, acked>>

\* ISensorBackend::Batch() and its outcome, when need_batch.
CallBatch(ok) ==
    /\ pc = "batch"
    /\ IF want.batch /\ ok
       THEN /\ backend_period' = [backend_period EXCEPT ![cur] = want.period]
            /\ backend_latency' = [backend_latency EXCEPT ![cur] = want.latency]
       ELSE UNCHANGED <<backend_period, backend_latency>>
    /\ want.batch \/ ok
    /\ want' = [want EXCEPT !.ok = ok]
    /\ fault' = [fault EXCEPT ![cur] = ~ok]
    /\ pc' = "activate"
    /\ UNCHANGED <<requests, backend_active, mode, op, todo, cur, ret, real, pending,
                   acked>>

\* ApplyHardwareState() returns ok; several handles share one result, in which
\* any failure sticks.
ApplyReturns(ok) ==
    /\ pc' = IF todo = {} THEN "return" ELSE "apply"
    /\ ret' = (ret /\ ok)

\* ISensorBackend::Activate(), when need_activate; its result replaces that of
\* Batch().  A backend that fails stays as it was.
CallActivate(ok) ==
    /\ pc = "activate"
    /\ want.activate \/ ok
    /\ \/ /\ want.activate /\ ok
          /\ real' = [real EXCEPT ![cur] = want.active]
          /\ pc' = "join"
          /\ UNCHANGED <<ret, fault>>
       \/ /\ ~ok
          /\ fault' = [fault EXCEPT ![cur] = TRUE]
          /\ ApplyReturns(FALSE)
          /\ UNCHANGED real
       \/ /\ ~want.activate
          /\ ApplyReturns(want.ok)
          /\ UNCHANGED <<real, fault>>
    /\ UNCHANGED <<requests, backendView, mode, op, todo, cur, want, pending, acked>>

\* Mutant: Activate() returns without joining.
JoinedThreadsNone(h) == {}

\* Mutant: a thread that still serves other sensors is waited for.
JoinedThreadsAll(h) == {t \in Threads : h \in SensorsOf[t]}

\* A backend that stopped the last sensor of a thread joins the thread before
\* Activate() returns (PeriodicWorker::Stop(), IioDevice::StopBuffer()).
JoinedThreads(h) ==
    {t \in Threads : h \in SensorsOf[t] /\ \A g \in SensorsOf[t] : ~real[g]}

ActivateReturns ==
    /\ pc = "join"
    /\ \A t \in JoinedThreads(cur) : pending[t] = NoBatch
    /\ backend_active' = [backend_active EXCEPT ![cur] = want.active]
    /\ ApplyReturns(TRUE)
    /\ UNCHANGED <<requests, backend_period, backend_latency, mode, op, todo, cur, want,
                   real, pending, acked, fault>>

\* Mutant: the request stays on record.
WithdrawnNever == FALSE

\* A failed activation of a hardware sensor is withdrawn, a failed activation
\* of a composite is not.
Withdrawn == op.kind = "activate" /\ op.handle \in Hardware /\ op.enabled /\ ~ret

\* The operation releases control_mutex_.
Return ==
    /\ pc = "return"
    /\ pc' = "idle" /\ op' = NoOp /\ cur' = Nobody /\ want' = NoWant /\ ret' = TRUE
    /\ client_active' = IF Withdrawn THEN [client_active EXCEPT ![op.handle] = FALSE]
                        ELSE client_active
    /\ acked' = CASE op.kind = "activate" ->
                        [acked EXCEPT ![op.handle] = op.enabled /\ ret]
                  [] op.kind = "deactivateAll" -> [h \in Handles |-> FALSE]
                  [] OTHER -> acked
    /\ UNCHANGED <<client_period, client_latency, composite_periods, composite_active,
                   backendView, mode, todo, real, pending, fault>>

-----------------------------------------------------------------------------
(* Events. *)

\* external: a backend thread samples some of the sensors it runs.
Sample(t, hs) ==
    /\ pending[t] = NoBatch
    /\ hs # {} /\ hs \subseteq {h \in SensorsOf[t] : real[h]}
    /\ pending' = [pending EXCEPT ![t] = [stage |-> "posted", sensors |-> hs]]
    /\ UNCHANGED <<requests, backendView, mode, control, real, acked, fault>>

\* OnBackendEvents(), the part under state_mutex_: in injection mode everything
\* is dropped, otherwise active composites derive events (or not) and the
\* sensors the framework activated pass.
OnBackendEvents(t, derived) ==
    /\ pending[t].stage = "posted"
    /\ derived \subseteq {c \in Composites :
                            composite_active[c] /\ InputOf[c] \cap pending[t].sensors # {}}
    /\ LET out == derived \cup {h \in pending[t].sensors : client_active[h]}
       IN  IF mode = "DATA_INJECTION"
           THEN derived = {} /\ pending' = [pending EXCEPT ![t] = NoBatch]
           ELSE pending' = [pending EXCEPT ![t] =
                              IF out = {} THEN NoBatch
                              ELSE [stage |-> "collected", sensors |-> out]]
    /\ UNCHANGED <<requests, backendView, mode, control, real, acked, fault>>

\* InjectEvent(), the part under state_mutex_; it takes no control_mutex_ and
\* does not ask whether the sensor is active.
InjectEvent(h) ==
    /\ pending["inject"] = NoBatch
    /\ h \in Injectable
    /\ mode = "DATA_INJECTION"
    /\ pending' = [pending EXCEPT !["inject"] = [stage |-> "collected", sensors |-> {h}]]
    /\ UNCHANGED <<requests, backendView, mode, control, real, acked, fault>>

\* Deliver(): the batch is handed to the sink, with no lock of the manager held.
Deliver(t) ==
    /\ pending[t].stage = "collected"
    /\ pending' = [pending EXCEPT ![t] = NoBatch]
    /\ UNCHANGED <<requests, backendView, mode, control, real, acked, fault>>

-----------------------------------------------------------------------------
ControlCall ==
    \/ \E h \in Hardware, e \in BOOLEAN : ActivateHardware(h, e)
    \/ \E c \in Composites, e \in BOOLEAN : ActivateComposite(c, e)
    \/ \E h \in Hardware, p \in Periods, l \in Latencies : Batch(h, p, l)
    \/ DeactivateAll
    \/ \E m \in {"NORMAL", "DATA_INJECTION"} : SetOperationMode(m)
    \/ \E h \in Handles : Flush(h)

ControlStep ==
    \/ FlushBackend
    \/ \E h \in todo : ApplyHardwareState(h)
    \/ \E ok \in BOOLEAN : CallBatch(ok)
    \/ \E ok \in BOOLEAN : CallActivate(ok)
    \/ ActivateReturns
    \/ Return

EventStep(t) ==
    \/ \E derived \in SUBSET Composites : OnBackendEvents(t, derived)
    \/ Deliver(t)

Next ==
    \/ ControlCall
    \/ ControlStep
    \/ \E t \in Threads : \E hs \in SUBSET SensorsOf[t] : Sample(t, hs)
    \/ \E t \in EventThreads : EventStep(t)
    \/ \E h \in Hardware : InjectEvent(h)

\* Threads that hold work go on with it: backend calls return, a posting
\* thread is scheduled.  Nothing is assumed about when work arrives.
Fairness ==
    /\ WF_vars(ControlStep)
    /\ \A t \in EventThreads : WF_vars(EventStep(t))

Spec == Init /\ [][Next]_vars
FairSpec == Spec /\ Fairness
-----------------------------------------------------------------------------
(* Properties. *)

Batches == [stage : {"none", "posted", "collected"}, sensors : SUBSET Handles]

TypeOK ==
    /\ client_active \in [Hardware -> BOOLEAN]
    /\ client_period \in [Hardware -> Nat]
    /\ client_latency \in [Hardware -> Nat]
    /\ composite_periods \in [Hardware -> SUBSET Composites]
    /\ backend_active \in [Hardware -> BOOLEAN]
    /\ backend_period \in [Hardware -> Nat \cup {-1}]
    /\ backend_latency \in [Hardware -> Nat \cup {-1}]
    /\ composite_active \in [Composites -> BOOLEAN]
    /\ mode \in {"NORMAL", "DATA_INJECTION"}
    /\ pc \in {"idle", "apply", "batch", "activate", "join", "flush", "return"}
    /\ op \in [kind : {"none", "activate", "batch", "deactivateAll", "mode", "flush"},
               handle : Handles \cup {Nobody}, enabled : BOOLEAN]
    /\ todo \subseteq Hardware
    /\ cur \in Hardware \cup {Nobody}
    /\ want \in [active : BOOLEAN, period : Nat, latency : Nat,
                 batch : BOOLEAN, activate : BOOLEAN, ok : BOOLEAN]
    /\ ret \in BOOLEAN
    /\ real \in [Hardware -> BOOLEAN]
    /\ pending \in [EventThreads -> Batches]
    /\ acked \in [Handles -> BOOLEAN]
    /\ fault \in [Hardware -> BOOLEAN]

\* "Driving the backend accordingly (union of activations, fastest requested
\* rate)": whenever no control operation is running, a sensor none of whose
\* last backend calls failed runs exactly when the framework or a composite
\* wants it, and no faster or slower than the fastest of them asked for.
UnionOfRequests ==
    pc = "idle" =>
        \A h \in Hardware : ~fault[h] =>
            /\ real[h] <=> (client_active[h] \/ \E c \in Composites :
                                 composite_active[c] /\ h \in InputOf[c])
            /\ real[h] =>
                 LET asked == (IF client_active[h] THEN {client_period[h]} ELSE {})
                                \cup CompositeRequests(h)
                 IN  /\ \E p \in asked : backend_period[h] = p
                     /\ \A p \in asked : p # 0 => backend_period[h] <= p

\* A hardware sensor whose activation was acknowledged to the framework keeps
\* sampling until the framework is done with it, whatever composites come and
\* go and whichever backend calls fail in between.
AcknowledgedRuns ==
    pc = "idle" => \A h \in Hardware : acked[h] => client_active[h] /\ real[h]

\* "The frontend never activates an already active sensor nor deactivates an
\* inactive one" (the contract of ISensorBackend::Activate()).
NoRedundantActivate ==
    [][\A ok \in BOOLEAN :
          CallActivate(ok) /\ want.activate => real[cur] # want.active]_vars

\* Deactivation is final: when a control operation that stopped the last sensor
\* of a backend thread has returned, nothing of that thread is on its way to
\* the framework any more, so no event follows activate(false) or initialize().
\* (An event may follow while a composite or a sibling keeps the thread alive.)
NoLateEvents ==
    pc = "idle" => \A t \in Threads :
        (\A h \in SensorsOf[t] : ~real[h]) => pending[t] = NoBatch

\* Joining a backend thread inside a control operation cannot hang it: every
\* control operation comes to its end.
ControlReturns == pc # "idle" ~> pc = "idle"

(* Stated by the documentation and not kept by the code; see README.md. *)

\* "In DATA_INJECTION mode the frontend discards every event coming from
\* backends": once setOperationMode() returned no backend event is delivered.
InjectionReplacesData ==
    [][\A t \in Threads : Deliver(t) => pc # "idle" \/ mode # "DATA_INJECTION"]_vars

\* A composite "activates the hardware sensors it depends on while it is
\* active": its inputs run when the framework was told it is active.
CompositeInputsRun ==
    pc = "idle" => \A c \in Composites :
        acked[c] => \A h \in InputOf[c] : real[h]

=============================================================================
