----------------------------- MODULE BackendProofs -----------------------------
(***************************************************************************)
(* Theorems about the backends of the sensors HAL: the data path of an IIO *)
(* device and its reader thread for every set of sensors (IioDevice), the  *)
(* events of a proximity sensor (IioSensor), the switch of an input node   *)
(* for every length of its queue (InputDevice), the rotations of the       *)
(* composite for all angles and workarounds (DeviceOrientation), the list  *)
(* of sensors for all backends and nodes (SensorRegistry), and sampling    *)
(* rates for all sensors, requests and lists of frequencies (IioRates).    *)
(***************************************************************************)
EXTENDS MCBackends, SequenceTheorems, FiniteSetTheorems, TLAPS

-----------------------------------------------------------------------------
(* The data path of an IIO device.                                         *)

DataTypes ==
    /\ active \in [Sensors -> BOOLEAN]
    /\ worker \in [Sensors -> {"off", "wait", "task", "post"}]
    /\ mode \in {"idle", "buffer", "poll"}
    /\ stop \in BOOLEAN

\* What a call may rely on while mutex_ is free for its joins: only workers of
\* sensors that are off are stopped, and Shutdown() has turned all of them off.
CallInv ==
    /\ pc = "poll" => mode = "poll" /\ \A s \in cur : s \in Sensors => ~active[s]
    /\ pc \in {"idle", "down"} => op = "none"
    /\ op = "shutdown" => ~AnyActive
    /\ pc = "down" => mode = "idle" /\ ~AnyActive

\* A buffer has a live reader until its last sensor went.
BufferInv ==
    mode = "buffer" =>
        /\ ~stop => Alive
        /\ stop => ~AnyActive /\ pc # "idle"
        /\ pc = "reader" => stop

\* Without a buffer the active sensors are polled.
PollInv ==
    Sensors = Pollable =>
        /\ mode = "poll" => \A s \in Sensors : active[s] => worker[s] # "off"
        /\ mode = "idle" => ~AnyActive

\* A hrtimer trigger, and its attachment, belong to the trigger object of a
\* running buffer; what a dead process left has a directory.
TriggerInv ==
    /\ attached = "hrtimer" => hrtimer
    /\ pc # "down" /\ (hrtimer \/ attached = "hrtimer") => mode = "buffer" /\ trigger = "hrtimer"

DataInv == DataTypes /\ CallInv /\ BufferInv /\ PollInv /\ TriggerInv

LEMMA DataInvInit == Init => DataInv
  BY DEF Init, DataInv, DataTypes, CallInv, BufferInv, PollInv, TriggerInv, AnyActive, Alive

LEMMA DataInvSound == DataInv /\ Sensors = Pollable => DataPath
  BY DEF DataInv, DataTypes, CallInv, BufferInv, PollInv, DataPath, AnyActive

\* A new call of the control thread keeps the invariant.
LEMMA ControlCallKeeps == DataInv /\ ControlCall => DataInv'
<1>. SUFFICES ASSUME DataInv, ControlCall PROVE DataInv'
  OBVIOUS
<1>. USE DEF DataInv, DataTypes
<1>1. ASSUME NEW s \in Sensors, NEW t \in {"none", "driver", "hrtimer"}, NEW ss \in SUBSET Sensors,
             ActivateStartsBuffer(s, t, ss)
      PROVE  DataInv'
  BY <1>1 DEF ActivateStartsBuffer, WantsBuffer, StartBuffer, AssignTrigger, control, CallInv,
              BufferInv, PollInv, TriggerInv, AnyActive, Alive
<1>2. ASSUME NEW s \in Sensors, ActivateBufferFails(s) PROVE DataInv'
  BY <1>2 DEF ActivateBufferFails, WantsBuffer, StartBufferFails, ServePolled, StartPoll, buffer, thread,
              control, CallInv, BufferInv, PollInv, TriggerInv, AnyActive, Alive
<1>3. ASSUME NEW s \in Sensors, ActivateRunning(s) PROVE DataInv'
  BY <1>3 DEF ActivateRunning, WantsBuffer, ServePolled, StartPoll, buffer, thread, control, kernel,
              CallInv, BufferInv, PollInv, TriggerInv, AnyActive, Alive
<1>4. ASSUME NEW s \in Sensors, Deactivate(s) PROVE DataInv'
  BY <1>4 DEF Deactivate, Stop, MustJoin, buffer, kernel, CallInv, BufferInv, PollInv, TriggerInv,
              AnyActive, Alive
<1>5. ASSUME Shutdown PROVE DataInv'
  BY <1>5 DEF Shutdown, Stop, MustJoin, buffer, kernel, CallInv, BufferInv, PollInv, TriggerInv,
              AnyActive, Alive
<1>6. ASSUME Initialize PROVE DataInv'
  BY <1>6 DEF Initialize, CleanupStaleTriggers, buffer, thread, CallInv, BufferInv, PollInv,
              TriggerInv, AnyActive, Alive
<1>. QED
  BY <1>1, <1>2, <1>3, <1>4, <1>5, <1>6 DEF ControlCall

\* So do the joins and the end of a call, and a crash.
LEMMA ControlStepKeeps == DataInv /\ (ControlStep \/ Crash) => DataInv'
<1>. SUFFICES ASSUME DataInv, ControlStep \/ Crash PROVE DataInv'
  OBVIOUS
<1>. USE DEF DataInv, DataTypes
<1>1. ASSUME NEW s \in Sensors, JoinWorker(s) PROVE DataInv'
  BY <1>1 DEF JoinWorker, MustJoin, buffer, thread, kernel, CallInv, BufferInv, PollInv,
              TriggerInv, AnyActive, Alive
<1>2. ASSUME JoinReader PROVE DataInv'
  BY <1>2 DEF JoinReader, ReaderGone, buffer, kernel, CallInv, BufferInv, PollInv, TriggerInv,
              AnyActive, Alive
<1>3. ASSUME Finish PROVE DataInv'
  BY <1>3 DEF Finish, ReleaseBuffer, ReleaseTrigger, buffer, thread, kernel, CallInv, BufferInv,
              PollInv, TriggerInv, AnyActive, Alive
<1>4. ASSUME Crash PROVE DataInv'
  BY <1>4 DEF Crash, kernel, CallInv, BufferInv, PollInv, TriggerInv, AnyActive, Alive
<1>. QED
  BY <1>1, <1>2, <1>3, <1>4 DEF ControlStep

\* And the reader with its fallback, and the workers.
LEMMA ThreadKeeps == DataInv /\ (Reader \/ \E s \in Sensors : Worker(s)) => DataInv'
<1>. SUFFICES ASSUME DataInv, Reader \/ \E s \in Sensors : Worker(s) PROVE DataInv'
  OBVIOUS
<1>. USE DEF DataInv, DataTypes
<1>1. CASE ReaderTurn \/ (\E ss \in SUBSET Sensors : HandleScans(ss)) \/ ReaderPosts \/ ReaderGivesUp
  BY <1>1 DEF ReaderTurn, ReaderFails, HandleScans, ReaderPosts, ReaderGivesUp, buffer, control,
              kernel, CallInv, BufferInv, PollInv, TriggerInv, AnyActive, Alive
<1>2. CASE FallbackToPoll
  BY <1>2 DEF FallbackToPoll, ReleaseBuffer, ReleaseTrigger, StartPoll, buffer, control, kernel,
              CallInv, BufferInv, PollInv, TriggerInv, AnyActive, Alive
<1>3. ASSUME NEW s \in Sensors, Worker(s) PROVE DataInv'
  BY <1>3 DEF Worker, WorkerWakes, PollSensor, WorkerPosts, Stopping, buffer, thread, control,
              kernel, CallInv, BufferInv, PollInv, TriggerInv, AnyActive, Alive
<1>. QED
  BY <1>1, <1>2, <1>3 DEF Reader

LEMMA DataInvNext == DataInv /\ [MCNext]_all => DataInv'
<1>. SUFFICES ASSUME DataInv, [MCNext]_all PROVE DataInv'
  OBVIOUS
<1>1. CASE Next
  BY <1>1, ControlCallKeeps, ControlStepKeeps, ThreadKeeps DEF Next
<1>2. CASE UNCHANGED vars
  BY <1>2 DEF vars, buffer, kernel, thread, control, DataInv, DataTypes, CallInv, BufferInv,
              PollInv, TriggerInv, AnyActive, Alive
<1>3. Next \/ UNCHANGED vars
  BY DEF MCNext, all, DeviceStep, RatesStep, SensorStep, ValuesStep, InputStep, MockStep,
         RegistryStep, OrientationStep, ConfigStep
<1>. QED
  BY <1>1, <1>2, <1>3

\* The states of an IIO device that its steps preserve.
LEMMA DataInvariant == MCSpec => []DataInv
<1>1. MCInit => DataInv
  BY DataInvInit DEF MCInit
<1>. QED
  BY <1>1, DataInvNext, PTL DEF MCSpec

\* On a device all of whose sensors can be polled, every active sensor has a
\* live source of data whenever no call is under way, across the reader's
\* fallback to poll mode while a call waits in a join; and an idle or polled
\* device keeps no hrtimer trigger, also after the process died with one
\* attached (FallbackToPollFromReader, StopBuffer, CleanupStaleTriggers).
THEOREM DataPathSoundAlways == ASSUME Sensors = Pollable PROVE MCSpec => []DataPathSound
<1>1. DataInv => DataPathSound
  BY DataInvSound DEF DataPathSound, NoStaleTrigger, DataInv, TriggerInv
<1>. QED
  BY <1>1, DataInvariant, PTL

\* The reader thread, from StartBuffer to the join of it.
ReaderInv ==
    /\ Alive => mode = "buffer"
    /\ stop /\ pc = "end" => ~Alive
    /\ pc \in {"poll", "reader"} /\ op = "activate" /\ mode = "buffer" => stop
    /\ pc = "end" /\ mode = "buffer" /\ ~AnyActive => ~Alive
    /\ pc = "end" /\ op = "shutdown" => reader = "none"

LEMMA ReaderInvNext == DataInv /\ ReaderInv /\ [MCNext]_all => ReaderInv'
<1>. SUFFICES ASSUME DataInv, ReaderInv, [MCNext]_all PROVE ReaderInv'
  OBVIOUS
<1>. USE DEF ReaderInv, Alive, AnyActive
<1>1. CASE ControlCall
  <2>1. ASSUME NEW s \in Sensors, NEW t \in {"none", "driver", "hrtimer"}, NEW ss \in SUBSET Sensors,
               ActivateStartsBuffer(s, t, ss)
        PROVE  ReaderInv'
    BY <2>1 DEF ActivateStartsBuffer, StartBuffer, control
  <2>2. ASSUME NEW s \in Sensors, ActivateBufferFails(s) \/ ActivateRunning(s) PROVE ReaderInv'
    BY <2>2 DEF ActivateBufferFails, ActivateRunning, WantsBuffer, StartBufferFails, ServePolled,
                thread, control
  <2>3. ASSUME NEW s \in Sensors, Deactivate(s) PROVE ReaderInv'
    BY <2>3 DEF Deactivate, Stop, MustJoin, DataInv, DataTypes, BufferInv
  <2>4. CASE Shutdown
    BY <2>4 DEF Shutdown, Stop, MustJoin
  <2>5. CASE Initialize
    BY <2>5 DEF Initialize, thread
  <2>. QED
    BY <1>1, <2>1, <2>2, <2>3, <2>4, <2>5 DEF ControlCall
<1>2. CASE ControlStep \/ Crash
  <2>1. ASSUME NEW s \in Sensors, JoinWorker(s) PROVE ReaderInv'
    BY <2>1 DEF JoinWorker, MustJoin, thread, DataInv, CallInv
  <2>2. CASE JoinReader
    BY <2>2 DEF JoinReader, ReaderGone
  <2>3. CASE Finish
    BY <2>3 DEF Finish, thread, DataInv, CallInv
  <2>4. CASE Crash
    BY <2>4 DEF Crash
  <2>. QED
    BY <1>2, <2>1, <2>2, <2>3, <2>4 DEF ControlStep
<1>3. CASE Reader \/ \E s \in Sensors : Worker(s)
  BY <1>3 DEF Reader, ReaderTurn, ReaderFails, HandleScans, ReaderPosts, ReaderGivesUp,
              FallbackToPoll, Worker, WorkerWakes, PollSensor, WorkerPosts, thread, control
<1>4. CASE UNCHANGED vars
  BY <1>4 DEF vars, thread, control
<1>5. Next \/ UNCHANGED vars
  BY DEF MCNext, all, DeviceStep, RatesStep, SensorStep, ValuesStep, InputStep, MockStep,
         RegistryStep, OrientationStep, ConfigStep
<1>. QED
  BY <1>1, <1>2, <1>3, <1>4, <1>5 DEF Next

\* A reader thread is only ever started when no other one is alive, and
\* Shutdown() leaves none behind, running or unjoined, also when the reader
\* fell back to poll mode by itself before (StartBufferLocked, StopBuffer).
THEOREM OneReaderAlways == MCSpec => OneReader
<1>. DEFINE Told ==
       /\ reader' = "loop" /\ fd' /\ ~fd => ~Alive
       /\ pc' = "down" /\ pc # "down" => reader' = "none"
<1>1. MCInit => ReaderInv
  BY DEF MCInit, Init, ReaderInv, Alive
<1>2. DataInv /\ ReaderInv /\ [MCNext]_all => [Told]_vars
  <2>. SUFFICES ASSUME DataInv, ReaderInv, [MCNext]_all PROVE [Told]_vars
    OBVIOUS
  <2>1. Next \/ UNCHANGED vars
    BY DEF MCNext, all, DeviceStep, RatesStep, SensorStep, ValuesStep, InputStep, MockStep,
           RegistryStep, OrientationStep, ConfigStep
  <2>2. ASSUME ControlCall PROVE Told
    <3>1. ASSUME NEW s \in Sensors, NEW t \in {"none", "driver", "hrtimer"}, NEW ss \in SUBSET Sensors,
                 ActivateStartsBuffer(s, t, ss)
          PROVE  Told
      BY <3>1 DEF ActivateStartsBuffer, WantsBuffer, ReaderInv, control
    <3>2. ASSUME NEW s \in Sensors,
                 ActivateBufferFails(s) \/ ActivateRunning(s) \/ Deactivate(s)
          PROVE  Told
      <4>1. fd' = fd
        BY <3>2 DEF ActivateBufferFails, ActivateRunning, StartBufferFails, Deactivate, buffer
      <4>2. pc' # "down"
        BY <3>2 DEF ActivateBufferFails, ActivateRunning, Deactivate, Stop, control
      <4>. QED
        BY <4>1, <4>2
    <3>3. ASSUME Shutdown \/ Initialize PROVE Told
      <4>1. fd' = fd
        BY <3>3 DEF Shutdown, Initialize, buffer
      <4>2. pc' # "down"
        BY <3>3 DEF Shutdown, Stop, Initialize
      <4>. QED
        BY <4>1, <4>2
    <3>. QED
      BY <2>2, <3>1, <3>2, <3>3 DEF ControlCall
  <2>3. ASSUME ControlStep \/ Crash PROVE Told
    BY <2>3 DEF ControlStep, JoinWorker, JoinReader, Finish, Crash, ReleaseBuffer, buffer, thread,
                ReaderInv, DataInv, CallInv, Alive
  <2>4. ASSUME Reader \/ \E s \in Sensors : Worker(s) PROVE Told
    BY <2>4 DEF Reader, ReaderTurn, ReaderFails, HandleScans, ReaderPosts, ReaderGivesUp,
                FallbackToPoll, ReleaseBuffer, Worker, WorkerWakes, PollSensor, WorkerPosts, buffer,
                control
  <2>. QED
    BY <2>1, <2>2, <2>3, <2>4 DEF Next
<1>3. OneReader <=> [][Told]_vars
  BY DEF OneReader
<1>. QED
  BY <1>1, DataInvariant, ReaderInvNext, <1>2, <1>3, PTL DEF MCSpec


-----------------------------------------------------------------------------
(* The events of an on-change sensor.                                      *)

\* Since the filter was reset, the event remembered is what the last reading
\* means; and what is remembered was posted.
ViewInv ==
    /\ reading # None => lastEvent = Sensor!Distance(near)
    /\ lastEvent # None => view = lastEvent

\* The framework's view of a proximity sensor is what its last reading means,
\* given the hysteresis, whatever was reported before the sensor was activated
\* or fell back to poll mode (Filter, ResetFilterState, ConvertProximity).
THEOREM ViewIsCurrentAlways ==
    ASSUME \A isNear : Sensor!Distance(isNear) # None
    PROVE  MCSpec => []Sensor!ViewIsCurrent
<1>1. MCInit => ViewInv
  BY DEF MCInit, Sensor!Init, ViewInv
<1>2. ViewInv /\ [MCNext]_all => ViewInv'
  <2>. SUFFICES ASSUME ViewInv, [MCNext]_all PROVE ViewInv'
    OBVIOUS
  <2>1. CASE UNCHANGED sensor
    BY <2>1 DEF sensor, ViewInv
  <2>2. CASE Sensor!Activate \/ Sensor!Deactivate \/ Sensor!Fallback
    BY <2>2 DEF Sensor!Activate, Sensor!Deactivate, Sensor!Fallback, Sensor!ResetFilterState,
                Sensor!framework, ViewInv
  <2>3. ASSUME NEW p \in {10}, Sensor!SetPeriodNs(p) PROVE ViewInv'
    BY <2>3 DEF Sensor!SetPeriodNs, Sensor!framework, ViewInv
  <2>4. ASSUME NEW r \in {<< 8 >>, << 10 >>, << 12 >>}, NEW step \in {1}, Sensor!Produce(r, step)
        PROVE  ViewInv'
    <3>. DEFINE values2 == IF polled THEN Sensor!ReadEventFromSysfs(r) ELSE Sensor!BuildEventFromScan(r)
                event == Sensor!BuildEvent(values2)
    <3>1. near' = Sensor!NearAfter(values2) /\ Sensor!Distance(near') = event
      BY <2>4 DEF Sensor!Produce, Sensor!NearAfter, Sensor!BuildEvent, Sensor!Distance
    <3>2. Sensor!Passes(event, time + step) <=> lastEvent # event
      BY DEF Sensor!Passes
    <3>3. lastEvent' = event /\ (lastEvent # event => view' = event) /\ (lastEvent = event => view' = view)
      BY <2>4, <3>2 DEF Sensor!Produce, Sensor!Remembers, Sensor!framework
    <3>. QED
      BY <3>1, <3>3 DEF ViewInv, Sensor!Distance
  <2>5. Sensor!Next \/ UNCHANGED sensor
    BY DEF MCNext, all, DeviceStep, RatesStep, SensorStep, ValuesStep, InputStep, MockStep,
           RegistryStep, OrientationStep, ConfigStep
  <2>. QED
    BY <2>1, <2>2, <2>3, <2>4, <2>5 DEF Sensor!Next
<1>3. ViewInv => Sensor!ViewIsCurrent
  BY DEF ViewInv, Sensor!ViewIsCurrent, Sensor!Meaning, Sensor!Distance
<1>. QED
  BY <1>1, <1>2, <1>3, PTL DEF MCSpec

-----------------------------------------------------------------------------
(* The switch of an input node.                                            *)

Event == [type : {"SW", "ABS", "SYN"}, value : BOOLEAN]

\* Events end with a whole report; the last one about the switch says v.
Complete(events) == events # <<>> => events[Len(events)].type = "SYN"
Moved(events) == \E i \in 1 .. Len(events) : events[i].type = "SW"
Tells(events, v) ==
    \A i \in 1 .. Len(events) :
        events[i].type = "SW" /\ (\A j \in (i + 1) .. Len(events) : events[j].type # "SW")
            => events[i].value = v

\* What is on its way from the kernel to the sensors, and where it leads.
OnTheWay(queue, taken, v) ==
    /\ queue \in Seq(Event) /\ Complete(queue) /\ Tells(queue, v)
    /\ taken \in Seq(Event) /\ Complete(taken)
    /\ ~Moved(queue) => Tells(taken, v)

\* A batch without its first event.
Advanced(queue, taken, v) ==
    /\ OnTheWay(queue, Tail(taken), v)
    /\ Tail(taken) = <<>> => Head(taken).type = "SYN"
    /\ Head(taken) \in Event
    /\ Moved(taken) => Head(taken).type = "SW" \/ Moved(Tail(taken))
    /\ Head(taken).type = "SW" /\ ~Moved(queue) /\ ~Moved(Tail(taken)) => Head(taken).value = v

LEMMA NothingMoved == ~Moved(<<>>) /\ \A v : Tells(<<>>, v) /\ OnTheWay(<<>>, <<>>, v)
  BY DEF Moved, Tells, OnTheWay, Complete

LEMMA Appended ==
    ASSUME NEW queue \in Seq(Event), NEW report \in Seq(Event), Len(report) = 2
    PROVE  /\ queue \o report \in Seq(Event) /\ Len(queue \o report) = Len(queue) + 2
           /\ \A i \in 1 .. Len(queue) : (queue \o report)[i] = queue[i]
           /\ (queue \o report)[Len(queue) + 1] = report[1]
           /\ (queue \o report)[Len(queue) + 2] = report[2]
<1>1. Len(queue \o report) = Len(queue) + Len(report)
      /\ \A i \in 1 .. Len(queue) + Len(report) :
            (queue \o report)[i] = IF i <= Len(queue) THEN queue[i] ELSE report[i - Len(queue)]
  BY ConcatProperties
<1>2. Len(queue) \in Nat
  OBVIOUS
<1>. HIDE DEF Event
<1>3. queue \o report \in Seq(Event)
  OBVIOUS
<1>. DEFINE both == queue \o report
<1>. HIDE DEF both
<1>. QED
  BY <1>1, <1>2, <1>3 DEF both

\* A report of the switch, and one of the accelerometer, behind the others.
LEMMA SwitchReported ==
    ASSUME NEW queue, NEW taken, NEW v, NEW w \in BOOLEAN, OnTheWay(queue, taken, v)
    PROVE  OnTheWay(queue \o Node!Report("SW", w), taken, w) /\ Moved(queue \o Node!Report("SW", w))
<1>. DEFINE longer == queue \o Node!Report("SW", w)
<1>. queue \in Seq(Event)
  BY DEF OnTheWay
<1>1. Node!Report("SW", w) \in Seq(Event) /\ Len(Node!Report("SW", w)) = 2
  BY DEF Node!Report, Event
<1>2. longer \in Seq(Event) /\ Len(longer) = Len(queue) + 2
  BY <1>1, Appended
<1>3. longer[Len(queue) + 1] = [type |-> "SW", value |-> w]
      /\ longer[Len(queue) + 2] = [type |-> "SYN", value |-> FALSE]
  <2>1. Node!Report("SW", w)[1] = [type |-> "SW", value |-> w]
        /\ Node!Report("SW", w)[2] = [type |-> "SYN", value |-> FALSE]
    BY DEF Node!Report
  <2>. QED
    BY <1>1, <2>1, Appended
<1>4. Complete(longer) /\ Tells(longer, w) /\ Moved(longer)
  BY <1>2, <1>3 DEF Complete, Tells, Moved
<1>. QED
  BY <1>2, <1>4 DEF OnTheWay

LEMMA TiltReported ==
    ASSUME NEW queue, NEW taken, NEW v, OnTheWay(queue, taken, v)
    PROVE  /\ OnTheWay(queue \o Node!Report("ABS", FALSE), taken, v)
           /\ Moved(queue) => Moved(queue \o Node!Report("ABS", FALSE))
<1>. DEFINE longer == queue \o Node!Report("ABS", FALSE)
<1>. queue \in Seq(Event)
  BY DEF OnTheWay
<1>1. Node!Report("ABS", FALSE) \in Seq(Event) /\ Len(Node!Report("ABS", FALSE)) = 2
  BY DEF Node!Report, Event
<1>2. longer \in Seq(Event) /\ Len(longer) = Len(queue) + 2
  BY <1>1, Appended
<1>3. longer[Len(queue) + 1] = [type |-> "ABS", value |-> FALSE]
      /\ longer[Len(queue) + 2] = [type |-> "SYN", value |-> FALSE]
  <2>1. Node!Report("ABS", FALSE)[1] = [type |-> "ABS", value |-> FALSE]
        /\ Node!Report("ABS", FALSE)[2] = [type |-> "SYN", value |-> FALSE]
    BY DEF Node!Report
  <2>. QED
    BY <1>1, <2>1, Appended
<1>. Len(queue) \in Nat
  OBVIOUS
<1>4. \A i \in 1 .. Len(queue) : longer[i] = queue[i] /\ i \in 1 .. Len(longer)
  <2>1. \A i \in 1 .. Len(queue) : longer[i] = queue[i]
    BY <1>1, Appended, Zenon
  <2>. HIDE DEF longer
  <2>. QED
    BY <2>1, <1>2
<1>. HIDE DEF longer
<1>5. Complete(longer) /\ (Moved(queue) => Moved(longer))
  BY <1>2, <1>3, <1>4 DEF Complete, Moved
<1>6. Tells(longer, v)
  <2>1. SUFFICES ASSUME NEW i \in 1 .. Len(longer), longer[i].type = "SW",
                        \A j \in (i + 1) .. Len(longer) : longer[j].type # "SW"
                 PROVE  longer[i].value = v
    BY DEF Tells
  <2>2. i \in 1 .. Len(queue)
    BY <2>1, <1>2, <1>3
  <2>3. \A j \in (i + 1) .. Len(queue) : j \in (i + 1) .. Len(longer) /\ longer[j] = queue[j]
    BY <2>2, <1>2, <1>4
  <2>. QED
    BY <2>1, <2>2, <2>3, <1>4 DEF OnTheWay, Tells
<1>. QED
  BY <1>2, <1>5, <1>6 DEF OnTheWay, longer

\* The reader takes the queue.
LEMMA QueueRead ==
    ASSUME NEW queue, NEW v, OnTheWay(queue, <<>>, v)
    PROVE  OnTheWay(<<>>, queue, v)
  BY NothingMoved DEF OnTheWay

\* It handles one event after the other.
LEMMA EventHandled ==
    ASSUME NEW queue, NEW taken, NEW v, OnTheWay(queue, taken, v), taken # <<>>
    PROVE  Advanced(queue, taken, v)
<1>. DEFINE rest == Tail(taken)
<1>. taken \in Seq(Event) /\ Len(taken) \in Nat \ {0}
  BY DEF OnTheWay
<1>1. rest \in Seq(Event) /\ Len(rest) = Len(taken) - 1 /\ Head(taken) = taken[1]
      /\ \A i \in 1 .. Len(rest) : rest[i] = taken[i + 1]
  OBVIOUS
<1>2. Complete(rest) /\ (rest = <<>> => Head(taken).type = "SYN") /\ Head(taken) \in Event
  BY <1>1 DEF OnTheWay, Complete
<1>3. Moved(taken) => Head(taken).type = "SW" \/ Moved(rest)
  <2>1. SUFFICES ASSUME NEW i \in 1 .. Len(taken), taken[i].type = "SW", i # 1
                 PROVE  Moved(rest)
    BY <1>1 DEF Moved
  <2>2. i - 1 \in 1 .. Len(rest) /\ rest[i - 1] = taken[i]
    BY <2>1, <1>1
  <2>. QED
    BY <2>1, <2>2 DEF Moved
<1>4. ASSUME Tells(taken, v) PROVE Tells(rest, v)
  <2>1. SUFFICES ASSUME NEW i \in 1 .. Len(rest), rest[i].type = "SW",
                        \A j \in (i + 1) .. Len(rest) : rest[j].type # "SW"
                 PROVE  rest[i].value = v
    BY DEF Tells
  <2>2. \A j \in (i + 2) .. Len(taken) :
            j - 1 \in (i + 1) .. Len(rest) /\ rest[j - 1] = taken[j]
    BY <1>1
  <2>3. i + 1 \in 1 .. Len(taken) /\ rest[i] = taken[i + 1] /\ (i + 1) + 1 = i + 2
    BY <1>1
  <2>4. taken[i + 1].type = "SW" /\ \A j \in ((i + 1) + 1) .. Len(taken) : taken[j].type # "SW"
    BY <2>1, <2>2, <2>3
  <2>. QED
    BY <2>3, <2>4, <1>4 DEF Tells
<1>5. ASSUME Tells(taken, v), Head(taken).type = "SW", ~Moved(rest) PROVE Head(taken).value = v
  <2>1. \A j \in (1 + 1) .. Len(taken) : j - 1 \in 1 .. Len(rest) /\ rest[j - 1] = taken[j]
    BY <1>1
  <2>2. 1 \in 1 .. Len(taken)
    OBVIOUS
  <2>. QED
    BY <2>1, <2>2, <1>1, <1>5 DEF Tells, Moved
<1>. QED
  BY <1>1, <1>2, <1>3, <1>4, <1>5 DEF OnTheWay, Advanced

Reading == evReader.pc \in {"poll", "handle"}

InputTypes ==
    /\ DOMAIN evdev = {"sw", "flips", "queue", "gone"} /\ evdev.sw \in BOOLEAN
    /\ DOMAIN evReader = {"pc", "batch"}
    /\ DOMAIN evCall = {"pc", "op"}
    /\ switched \in [{"accel", "switch"} -> BOOLEAN]
    /\ opened \in BOOLEAN

\* What is queued was queued since the node was opened, whole reports of it.
QueueInv ==
    /\ OnTheWay(evdev.queue, evReader.batch, evdev.sw)
    /\ evReader.pc # "handle" => evReader.batch = <<>>
    /\ ~opened => evdev.queue = <<>> /\ ~Reading

\* When nothing about an active switch is on its way, its state was read or
\* handled last, and an event of it was or will be made.
SettledInv ==
    Reading /\ switched["switch"] =>
        /\ "switch" \in dirty => evCall.pc \in {"read", "sync"} \/ evReader.batch # <<>>
        /\ ~evdev.gone /\ evCall.pc # "read" /\ ~Moved(evdev.queue) /\ ~Moved(evReader.batch) =>
             raw = evdev.sw /\ ("switch" \in dirty \/ last = {evdev.sw})

InputInv == InputTypes /\ QueueInv /\ SettledInv

LEMMA InputInvInit == Node!Init => InputInv
<1>. SUFFICES ASSUME Node!Init PROVE InputInv
  OBVIOUS
<1>1. PICK sw \in BOOLEAN : evdev = [sw |-> sw, flips |-> 0, queue |-> <<>>, gone |-> FALSE]
  BY DEF Node!Init
<1>2. evReader = [pc |-> "none", batch |-> <<>>]
  BY DEF Node!Init, Node!NoReader
<1>3. InputTypes
  BY <1>1, <1>2 DEF Node!Init, Node!Fresh, Node!NoCall, Node!Handles, InputTypes
<1>4. QueueInv /\ SettledInv
  BY <1>1, <1>2, NothingMoved DEF QueueInv, SettledInv, Reading
<1>. QED
  BY <1>3, <1>4 DEF InputInv

LEMMA InputInvCurrent == InputInv => SwitchIsCurrent
  BY NothingMoved
     DEF InputInv, QueueInv, SettledInv, Reading, SwitchIsCurrent, Node!SwitchIsCurrent, Node!Quiet

\* The report of a switch that is active leaves nothing of it behind.
LEMMA ReportMade ==
    Node!HandleSyncReport /\ switched["switch"] =>
        /\ "switch" \notin dirty'
        /\ last' = IF "switch" \in dirty THEN {raw} ELSE last
        /\ UNCHANGED <<switched, raw>>
  BY DEF Node!HandleSyncReport, Node!Collected, Node!Handles

\* The reader thread keeps the invariant.
LEMMA ReaderKeeps == InputInv /\ Node!Reader => InputInv'
<1>. SUFFICES ASSUME InputInv, Node!Reader PROVE InputInv'
  OBVIOUS
<1>. USE DEF InputInv
<1>. DEFINE queue == evdev.queue
            taken == evReader.batch
<1>1. CASE Node!ReaderReads
  <2>1. /\ evReader.pc = "poll" /\ taken = <<>>
        /\ evReader' = [pc |-> "handle", batch |-> queue]
        /\ evdev' = [evdev EXCEPT !.queue = <<>>]
        /\ UNCHANGED <<switched, last, emitted, raw, dirty, running, wake, opened, evCall>>
    BY <1>1 DEF Node!ReaderReads, QueueInv, Node!device
  <2>2. /\ evdev'.queue = <<>> /\ evdev'.sw = evdev.sw /\ evdev'.gone = evdev.gone
        /\ evReader'.batch = queue /\ evReader'.pc = "handle"
    BY <2>1 DEF InputTypes
  <2>3. InputTypes'
    BY <2>1 DEF InputTypes
  <2>4. OnTheWay(<<>>, queue, evdev.sw)
    BY <2>1, QueueRead DEF QueueInv
  <2>5. QueueInv'
    BY <2>1, <2>2, <2>4 DEF QueueInv, Reading
  <2>6. SettledInv'
    BY <2>1, <2>2, NothingMoved DEF SettledInv, Reading
  <2>. QED
    BY <2>3, <2>5, <2>6
<1>2. CASE Node!ReaderEnds
  <2>1. /\ evReader' = [pc |-> "ended", batch |-> <<>>] /\ evReader.pc = "poll" /\ taken = <<>>
        /\ UNCHANGED <<evdev, switched, last, emitted, raw, dirty, running, wake, opened, evCall>>
    BY <1>2 DEF Node!ReaderEnds, Node!device, QueueInv
  <2>. QED
    BY <2>1 DEF InputTypes, QueueInv, SettledInv, Reading
<1>3. ASSUME Node!ReaderHandles, taken = <<>> PROVE InputInv'
  <2>1. /\ evReader' = [evReader EXCEPT !.pc = "poll"] /\ evReader.pc = "handle"
        /\ UNCHANGED <<evdev, switched, last, emitted, raw, dirty, running, wake, opened, evCall>>
    BY <1>3 DEF Node!ReaderHandles, Node!device
  <2>2. evReader'.pc = "poll" /\ evReader'.batch = <<>>
    BY <2>1, <1>3 DEF InputTypes
  <2>. QED
    BY <2>1, <2>2, <1>3 DEF InputTypes, QueueInv, SettledInv, Reading
<1>4. ASSUME Node!ReaderHandles, taken # <<>> PROVE InputInv'
  <2>1. /\ evReader.pc = "handle" /\ evReader' = [evReader EXCEPT !.batch = Tail(@)]
        /\ UNCHANGED <<evdev, running, wake, opened, evCall>>
    BY <1>4 DEF Node!ReaderHandles
  <2>2. evReader'.pc = "handle" /\ evReader'.batch = Tail(taken)
    BY <2>1 DEF InputTypes
  <2>3. Advanced(queue, taken, evdev.sw)
    BY <1>4, EventHandled DEF QueueInv
  <2>4. QueueInv'
    BY <2>1, <2>2, <2>3 DEF QueueInv, Advanced, Reading
  <2>5. CASE Head(taken).type = "SYN"
    <3>1. Node!HandleSyncReport
      BY <2>5, <1>4 DEF Node!ReaderHandles
    <3>2. InputTypes'
      BY <2>1, <3>1 DEF InputTypes, Node!HandleSyncReport
    <3>3. SettledInv'
      BY <2>1, <2>2, <2>3, <2>5, <3>1, ReportMade
         DEF SettledInv, Advanced, Reading, Node!HandleSyncReport
    <3>. QED
      BY <2>4, <3>2, <3>3
  <2>6. CASE Head(taken).type # "SYN"
    <3>1. Node!HandleValue(Head(taken)) /\ Tail(taken) # <<>>
      BY <2>3, <2>6, <1>4 DEF Node!ReaderHandles, Advanced
    <3>2. InputTypes'
      BY <2>1, <3>1 DEF InputTypes, Node!HandleValue
    <3>3. CASE Head(taken).type = "SW"
      <4>1. raw' = Head(taken).value /\ "switch" \in dirty' /\ UNCHANGED <<switched, last>>
        BY <3>1, <3>3 DEF Node!HandleValue
      <4>. QED
        BY <4>1, <2>1, <2>2, <2>3, <2>4, <3>1, <3>2, <3>3 DEF SettledInv, Advanced, Reading
    <3>4. CASE Head(taken).type # "SW"
      <4>1. UNCHANGED <<raw, switched, last>> /\ ("switch" \in dirty' <=> "switch" \in dirty)
        BY <3>1, <3>4 DEF Node!HandleValue
      <4>. QED
        BY <4>1, <2>1, <2>2, <2>3, <2>4, <3>1, <3>2, <3>4 DEF SettledInv, Advanced, Reading
    <3>. QED
      BY <3>3, <3>4
  <2>. QED
    BY <2>5, <2>6
<1>. QED
  BY <1>1, <1>2, <1>3, <1>4 DEF Node!Reader

\* So do the calls of the backend, step by step.
LEMMA CallStepKeeps ==
    FlushesQueue = FALSE /\ InputInv /\ (Node!Calls \/ Node!CallStep) => InputInv'
<1>. SUFFICES ASSUME FlushesQueue = FALSE, InputInv, Node!Calls \/ Node!CallStep PROVE InputInv'
  OBVIOUS
<1>. USE DEF InputInv
<1>1. ASSUME NEW s \in {"accel", "switch"}, Node!Activate(s) PROVE InputInv'
  <2>1. PICK ok \in BOOLEAN :
          /\ Node!Open(ok)
          /\ IF ok THEN /\ switched' = [switched EXCEPT ![s] = TRUE]
                        /\ evCall' = [pc |-> "read", op |-> "activate"]
                   ELSE UNCHANGED <<switched, last, evCall>>
          /\ UNCHANGED <<evdev, raw, dirty>>
    BY <1>1 DEF Node!Activate
  <2>2. \/ UNCHANGED <<evReader, opened>>
        \/ ok /\ ~opened /\ opened' /\ evReader' = [pc |-> "poll", batch |-> <<>>]
    BY <2>1 DEF Node!Open, Node!thread
  <2>3. CASE ok
    <3>1. InputTypes'
      BY <2>1, <2>2, <2>3 DEF InputTypes
    <3>2. QueueInv'
      BY <2>1, <2>2, NothingMoved DEF QueueInv, Reading
    <3>3. SettledInv'
      BY <2>1, <2>3 DEF SettledInv
    <3>. QED
      BY <3>1, <3>2, <3>3
  <2>4. CASE ~ok
    BY <2>1, <2>2, <2>4 DEF InputTypes, QueueInv, SettledInv, Reading
  <2>. QED
    BY <2>3, <2>4
<1>2. ASSUME NEW s \in {"accel", "switch"}, Node!Deactivate(s) PROVE InputInv'
  <2>1. /\ switched' = [switched EXCEPT ![s] = FALSE]
        /\ last' = IF s = "switch" THEN {} ELSE last
        /\ DOMAIN evCall' = {"pc", "op"} /\ evCall.pc = "idle"
        /\ UNCHANGED <<evdev, emitted, raw, dirty, evReader, running, wake, opened>>
    BY <1>2 DEF Node!Deactivate, Node!NoCall, Node!thread
  <2>. QED
    BY <2>1 DEF InputTypes, QueueInv, SettledInv, Reading
<1>3. ASSUME Node!Shutdown PROVE InputInv'
  BY <1>3 DEF Node!Shutdown, Node!Handles, Node!thread, InputTypes, QueueInv, SettledInv, Reading
<1>4. ASSUME Node!ReadState PROVE InputInv'
  <2>1. /\ evCall.pc = "read" /\ evCall' = [evCall EXCEPT !.pc = "sync"]
        /\ UNCHANGED <<evdev, switched, last, emitted, evReader, opened>>
    BY <1>4 DEF Node!ReadState, Node!thread
  <2>2. evCall'.pc = "sync"
    BY <2>1 DEF InputTypes
  <2>3. switched["switch"] /\ ~evdev.gone => raw' = evdev.sw /\ "switch" \in dirty'
    BY <1>4 DEF Node!ReadState, Node!Refreshed, Node!Handles
  <2>4. InputTypes' /\ QueueInv'
    BY <2>1 DEF InputTypes, QueueInv, Reading
  <2>5. SettledInv'
    BY <2>1, <2>2, <2>3 DEF SettledInv, Reading
  <2>. QED
    BY <2>4, <2>5
<1>5. ASSUME Node!ReportState PROVE InputInv'
  <2>1. Node!HandleSyncReport /\ evCall.pc = "sync" /\ evCall' = [pc |-> "idle", op |-> "none"]
        /\ UNCHANGED <<evdev, evReader, opened>>
    BY <1>5 DEF Node!ReportState, Node!NoCall, Node!thread
  <2>2. InputTypes' /\ QueueInv'
    BY <2>1 DEF InputTypes, QueueInv, Reading, Node!HandleSyncReport
  <2>3. SettledInv'
    BY <2>1, ReportMade DEF SettledInv, Reading, Node!HandleSyncReport
  <2>. QED
    BY <2>2, <2>3
<1>6. ASSUME Node!Close PROVE InputInv'
  <2>1. /\ evCall.pc = "close" /\ evCall' = [evCall EXCEPT !.pc = "join"]
        /\ UNCHANGED <<evdev, switched, last, emitted, raw, dirty, evReader, opened>>
    BY <1>6 DEF Node!Close, Node!device
  <2>2. evCall'.pc = "join" /\ DOMAIN evCall' = {"pc", "op"}
    BY <2>1 DEF InputTypes
  <2>. QED
    BY <2>1, <2>2 DEF InputTypes, QueueInv, SettledInv, Reading
<1>7. ASSUME Node!Join PROVE InputInv'
  <2>1. /\ evReader' = [pc |-> "none", batch |-> <<>>] /\ opened' = FALSE
        /\ evdev' = [evdev EXCEPT !.queue = <<>>]
        /\ evCall' = [pc |-> "idle", op |-> "none"]
    BY <1>7 DEF Node!Join, Node!NoReader, Node!NoCall
  <2>2. evdev'.queue = <<>> /\ evReader'.batch = <<>> /\ evReader'.pc = "none"
    BY <2>1 DEF InputTypes
  <2>3. switched' \in [{"accel", "switch"} -> BOOLEAN]
    BY <1>7 DEF Node!Join, Node!device, Node!Handles, InputTypes
  <2>4. InputTypes'
    BY <2>1, <2>3 DEF InputTypes
  <2>5. QueueInv' /\ SettledInv'
    BY <2>1, <2>2, NothingMoved DEF QueueInv, SettledInv, Reading
  <2>. QED
    BY <2>4, <2>5
<1>. QED
  BY <1>1, <1>2, <1>3, <1>4, <1>5, <1>6, <1>7 DEF Node!Calls, Node!CallStep, Node!Handles

\* And what the kernel reports.
LEMMA KernelKeeps == InputInv /\ (Node!Flip \/ Node!Tilt \/ Node!Unplug) => InputInv'
<1>. SUFFICES ASSUME InputInv, Node!Flip \/ Node!Tilt \/ Node!Unplug PROVE InputInv'
  OBVIOUS
<1>. USE DEF InputInv
<1>1. UNCHANGED <<switched, last, emitted, raw, dirty, evReader, running, wake, opened, evCall>>
  BY DEF Node!Flip, Node!Tilt, Node!Unplug, Node!device, Node!thread
<1>2. CASE Node!Flip
  <2>. DEFINE queue2 == Node!Queued("SW", ~evdev.sw)
  <2>1. /\ evdev'.sw = ~evdev.sw /\ evdev'.queue = queue2 /\ evdev'.gone = evdev.gone
        /\ DOMAIN evdev' = {"sw", "flips", "queue", "gone"}
    BY <1>2 DEF Node!Flip, InputTypes
  <2>2. CASE opened
    <3>1. queue2 = evdev.queue \o Node!Report("SW", ~evdev.sw)
      BY <2>2 DEF Node!Queued
    <3>2. OnTheWay(queue2, evReader.batch, ~evdev.sw) /\ Moved(queue2)
      <4>1. OnTheWay(evdev.queue, evReader.batch, evdev.sw)
        BY DEF QueueInv
      <4>2. (~evdev.sw) \in BOOLEAN
        OBVIOUS
      <4>. QED
        BY <3>1, <4>1, <4>2, SwitchReported
    <3>. QED
      BY <1>1, <2>1, <2>2, <3>2 DEF InputTypes, QueueInv, SettledInv, Reading
  <2>3. CASE ~opened
    <3>1. queue2 = <<>> /\ evReader.batch = <<>> /\ ~Reading
      BY <2>3 DEF Node!Queued, QueueInv, Reading
    <3>. QED
      BY <1>1, <2>1, <3>1, NothingMoved DEF InputTypes, QueueInv, SettledInv, Reading
  <2>. QED
    BY <2>2, <2>3
<1>3. CASE Node!Tilt
  <2>. DEFINE queue2 == evdev.queue \o Node!Report("ABS", FALSE)
  <2>1. /\ evdev'.sw = evdev.sw /\ evdev'.queue = queue2 /\ evdev'.gone = evdev.gone /\ opened
        /\ DOMAIN evdev' = {"sw", "flips", "queue", "gone"}
    BY <1>3 DEF Node!Tilt, Node!Queued, InputTypes
  <2>2. OnTheWay(queue2, evReader.batch, evdev.sw) /\ (Moved(evdev.queue) => Moved(queue2))
    BY TiltReported DEF QueueInv
  <2>. QED
    BY <1>1, <2>1, <2>2 DEF InputTypes, QueueInv, SettledInv, Reading
<1>4. CASE Node!Unplug
  <2>1. /\ evdev'.sw = evdev.sw /\ evdev'.queue = evdev.queue /\ evdev'.gone
        /\ DOMAIN evdev' = {"sw", "flips", "queue", "gone"}
    BY <1>4 DEF Node!Unplug, InputTypes
  <2>. QED
    BY <1>1, <2>1 DEF InputTypes, QueueInv, SettledInv, Reading
<1>. QED
  BY <1>2, <1>3, <1>4

LEMMA InputInvNext == FlushesQueue = FALSE /\ InputInv /\ [MCNext]_all => InputInv'
<1>. SUFFICES ASSUME FlushesQueue = FALSE, InputInv, [MCNext]_all PROVE InputInv'
  OBVIOUS
<1>1. CASE Node!Next
  BY <1>1, ReaderKeeps, CallStepKeeps, KernelKeeps DEF Node!Next
<1>2. CASE UNCHANGED input
  BY <1>2 DEF input, InputInv, InputTypes, QueueInv, SettledInv, Reading
<1>3. Node!Next \/ UNCHANGED input
  BY DEF MCNext, all, DeviceStep, RatesStep, SensorStep, ValuesStep, InputStep, MockStep,
         RegistryStep, OrientationStep, ConfigStep
<1>. QED
  BY <1>1, <1>2, <1>3

\* Whatever the length of the queue and the number of changes: when the reader
\* has handled everything and no call is under way, the last event made for an
\* active switch tells its position - also when it was activated, or its
\* sibling, while older reports were still queued (EmitInitialState,
\* HandleSwitchEvent, HandleSyncReport).  Reading the state leaves the queue
\* alone.
THEOREM SwitchIsCurrentAlways ==
    ASSUME FlushesQueue = FALSE PROVE MCSpec => []SwitchIsCurrent
<1>1. MCInit => InputInv
  BY InputInvInit DEF MCInit
<1>2. InputInv /\ [MCNext]_all => InputInv'
  BY InputInvNext
<1>3. InputInv => SwitchIsCurrent
  BY InputInvCurrent
<1>. QED
  BY <1>1, <1>2, <1>3, PTL DEF MCSpec

-----------------------------------------------------------------------------
(* The rotations of the composite.                                         *)

\* The candidate is what the samples have said without interruption, and since
\* when.
CandidateInv ==
    candidate = held.rotation /\ (candidate # Orientation!NoRotation => since = held.since)

LEMMA CandidateInvNext == CandidateInv /\ [MCNext]_all => CandidateInv'
<1>. SUFFICES ASSUME CandidateInv, [MCNext]_all PROVE CandidateInv'
  OBVIOUS
<1>1. CASE UNCHANGED orientation
  BY <1>1 DEF orientation, CandidateInv
<1>2. ASSUME NEW enabled2 \in BOOLEAN, Orientation!Activate(enabled2) PROVE CandidateInv'
  BY <1>2 DEF Orientation!Activate, CandidateInv
<1>3. CASE Orientation!ProcessEvent
  BY <1>3 DEF Orientation!ProcessEvent, Orientation!Candidate, CandidateInv
<1>4. CASE Orientation!Ignore
  BY <1>4 DEF Orientation!Ignore, CandidateInv
<1>5. Orientation!Next \/ UNCHANGED orientation
  BY DEF MCNext, all, DeviceStep, RatesStep, SensorStep, ValuesStep, InputStep, MockStep,
         RegistryStep, OrientationStep, ConfigStep
<1>. QED
  BY <1>1, <1>2, <1>3, <1>4, <1>5 DEF Orientation!Next

\* Whatever the angles, workarounds and times: the first rotation after an
\* activation is reported at once, another one when the samples have shown it
\* without interruption for the settle time, and no sooner (ProcessEvent).
THEOREM ReportsWhenHeldAlways == MCSpec => ReportsWhenHeld
<1>. DEFINE Told ==
       posing /\ posing' /\ held'.rotation # Orientation!NoRotation =>
         (reported' = held'.rotation <=>
            (reported \in {Orientation!NoRotation, held'.rotation}
             \/ now' - held'.since >= Orientation!Settle))
<1>1. MCInit => CandidateInv
  BY DEF MCInit, Orientation!Init, Orientation!Off, CandidateInv
<1>2. CandidateInv /\ [MCNext]_all => [Told]_(Orientation!vars)
  <2>. SUFFICES ASSUME CandidateInv, [MCNext]_all PROVE [Told]_(Orientation!vars)
    OBVIOUS
  <2>1. CASE UNCHANGED orientation
    BY <2>1 DEF orientation, Orientation!vars
  <2>2. ASSUME NEW enabled2 \in BOOLEAN, Orientation!Activate(enabled2) PROVE Told
    BY <2>2 DEF Orientation!Activate
  <2>3. CASE Orientation!ProcessEvent
    BY <2>3 DEF Orientation!ProcessEvent, Orientation!Candidate, Orientation!Reports, CandidateInv
  <2>4. CASE Orientation!Ignore
    BY <2>4 DEF Orientation!Ignore
  <2>5. Orientation!Next \/ UNCHANGED orientation
    BY DEF MCNext, all, DeviceStep, RatesStep, SensorStep, ValuesStep, InputStep, MockStep,
           RegistryStep, OrientationStep, ConfigStep
  <2>. QED
    BY <2>1, <2>2, <2>3, <2>4, <2>5 DEF Orientation!Next
<1>3. ReportsWhenHeld <=> [][Told]_(Orientation!vars)
  BY DEF ReportsWhenHeld, Orientation!ReportsWhenHeld
<1>. QED
  BY <1>1, CandidateInvNext, <1>2, <1>3, PTL DEF MCSpec

-----------------------------------------------------------------------------
(* The list of sensors.                                                    *)

\* The backends that were loaded are listed ones, each of them once.
LoadedInv ==
    /\ list \in Lists
    /\ loaded \in Seq(Registry!Backends)
    /\ \A i, j \in DOMAIN loaded : loaded[i] = loaded[j] => i = j
    /\ phase = "load" =>
         /\ turn \in 1 .. Len(list)
         /\ \A i \in DOMAIN loaded : \E k \in 1 .. turn - 1 : loaded[i] = list[k]
    /\ initialized \subseteq {loaded[i] : i \in DOMAIN loaded}

\* A name a backend made, one or three parts long; the registry adds one.
Original(name) == (\E x : name = <<x>>) \/ (\E x, n : name = <<x, "device", n>>)

\* A backend offers sensors in an order and with names that tell them apart.
OfferOf(sensors) ==
    /\ DOMAIN sensors \subseteq Nat \X Nat
    /\ \A l \in DOMAIN sensors : Original(sensors[l].name)
    /\ \A l, o \in DOMAIN sensors :
         sensors[l].type = sensors[o].type /\ sensors[l].name = sensors[o].name => l = o

OfferedInv ==
    /\ DOMAIN offered = Registry!Backends
    /\ \A b \in Registry!Backends : OfferOf(offered[b])
    /\ \A b \in Registry!Backends \ initialized : DOMAIN offered[b] = {}

\* Where the phases leave nothing behind.
PhaseInv ==
    /\ phase \in {"load", "initialize", "register", "decide", "composites", "done"}
    /\ phase \in {"load", "initialize"} => hardware = <<>> /\ initialized = {}
    /\ phase # "register" => handled = {} /\ own = {} /\ provided = {} /\ used = {}
    /\ phase \notin {"composites", "done"} => composites = <<>>

IsList(s) == s \in Seq({s[i] : i \in DOMAIN s})

\* What was registered leads to where it came from, and its name is that of
\* the backend or one part longer.
HardwareInv ==
    /\ IsList(hardware) /\ IsList(composites)
    /\ next = Len(hardware) + Len(composites) + 1
    /\ DOMAIN toGlobal = Registry!Backends
    /\ \A h \in DOMAIN hardware :
         /\ hardware[h].backend \in Registry!Backends
         /\ \E i \in DOMAIN loaded : loaded[i] = hardware[h].backend
         /\ LET offer == offered[hardware[h].backend][hardware[h].local]
            IN  hardware[h].name \in {offer.name, Append(offer.name, hardware[h].backend)}
    /\ Registry!HandlesLead
    /\ Registry!InOrderOfBackends
    /\ Registry!NamesDiffer
    /\ Registry!CompositesFollow
    /\ \A h \in DOMAIN hardware : hardware[h].backend \in FallbackOnly =>
         \A o \in 1 .. h - 1 :
            hardware[o].type = hardware[h].type => hardware[o].backend = hardware[h].backend

\* The loop of RegisterHardwareSensors() came as far as the sensors before
\* the first that is left of the backend whose turn it is.
Passed(i, l) == i < turn \/ (i = turn /\ l \in handled)

LeftOut(b, l) ==
    \/ Registry!Invalid(offered[b][l])
    \/ /\ b \in FallbackOnly
       /\ \E h \in DOMAIN hardware :
             hardware[h].type = offered[b][l].type /\ hardware[h].backend # b

TurnInv ==
    phase = "register" =>
        /\ turn \in 1 .. Len(loaded) + 1
        /\ turn = Len(loaded) + 1 => handled = {} /\ own = {}
        /\ turn <= Len(loaded) =>
             /\ handled \subseteq DOMAIN offered[loaded[turn]]
             /\ \A l \in handled, o \in DOMAIN offered[loaded[turn]] \ handled : Registry!Before(l, o)
        /\ \A i \in DOMAIN loaded : \A h \in DOMAIN hardware :
             loaded[i] = hardware[h].backend => Passed(i, hardware[h].local)
        /\ \A i \in DOMAIN loaded : \A l \in DOMAIN offered[loaded[i]] :
             Passed(i, l) => l \in DOMAIN toGlobal[loaded[i]] \/ LeftOut(loaded[i], l)
        /\ used = {<<hardware[h].type, hardware[h].name>> : h \in DOMAIN hardware}
        /\ \A t : t \in provided <=> \E h \in DOMAIN hardware, i \in 1 .. turn - 1 :
                                      hardware[h].type = t /\ loaded[i] = hardware[h].backend
        /\ \A t \in own : \E h \in DOMAIN hardware :
             turn <= Len(loaded) /\ hardware[h].type = t /\ loaded[turn] = hardware[h].backend
        /\ turn <= Len(loaded) => \A h \in DOMAIN hardware :
             hardware[h].backend = loaded[turn] => hardware[h].type \in own

\* Nothing that can be used is left out of the list.
FilledInv ==
    phase \in {"decide", "composites", "done"} => Registry!FallbacksFill

RegistryInv == LoadedInv /\ OfferedInv /\ PhaseInv /\ HardwareInv /\ TurnInv /\ FilledInv

-----------------------------------------------------------------------------
\* A longer name is as long as no backend makes it, and says what it was.
LEMMA Lengthened ==
    ASSUME NEW m, Original(m), NEW b
    PROVE  /\ Len(m) \in {1, 3}
           /\ Len(Append(m, b)) = Len(m) + 1
           /\ \A i \in 1 .. Len(m) : Append(m, b)[i] = m[i]
           /\ Append(m, b)[Len(m) + 1] = b
           /\ m = [i \in 1 .. Len(m) |-> m[i]]
<1>1. ASSUME NEW x, m = <<x>>
      PROVE  m \in Seq({x, b}) /\ Len(m) = 1
  BY <1>1
<1>2. ASSUME NEW x, NEW n, m = <<x, "device", n>>
      PROVE  m \in Seq({x, "device", n, b}) /\ Len(m) = 3
  BY <1>2
<1>3. \E S : m \in Seq(S) /\ b \in S /\ Len(m) \in {1, 3}
  BY <1>1, <1>2 DEF Original
<1>4. PICK S : m \in Seq(S) /\ b \in S /\ Len(m) \in {1, 3}
  BY <1>3
<1>. QED
  BY <1>4, AppendProperties

LEMMA NamesApart ==
    ASSUME NEW m, Original(m), NEW n, Original(n), NEW b, NEW c
    PROVE  /\ Append(m, b) # n
           /\ Append(m, b) = Append(n, c) => m = n /\ b = c
<1>1. /\ Len(m) \in {1, 3} /\ Len(Append(m, b)) = Len(m) + 1
      /\ \A i \in 1 .. Len(m) : Append(m, b)[i] = m[i]
      /\ Append(m, b)[Len(m) + 1] = b
      /\ m = [i \in 1 .. Len(m) |-> m[i]]
  BY Lengthened
<1>2. /\ Len(n) \in {1, 3} /\ Len(Append(n, c)) = Len(n) + 1
      /\ \A i \in 1 .. Len(n) : Append(n, c)[i] = n[i]
      /\ Append(n, c)[Len(n) + 1] = c
      /\ n = [i \in 1 .. Len(n) |-> n[i]]
  BY Lengthened
<1>3. PICK long : /\ long = Append(m, b)
                  /\ Len(long) = Len(m) + 1
                  /\ \A i \in 1 .. Len(m) : long[i] = m[i]
                  /\ long[Len(m) + 1] = b
  BY <1>1, Zenon
<1>4. PICK other : /\ other = Append(n, c)
                   /\ Len(other) = Len(n) + 1
                   /\ \A i \in 1 .. Len(n) : other[i] = n[i]
                   /\ other[Len(n) + 1] = c
  BY <1>2, Zenon
<1>. DEFINE p == Len(m)
            q == Len(n)
<1>7. p \in {1, 3} /\ q \in {1, 3}
  BY <1>1, <1>2, Zenon
<1>8. Len(long) = p + 1 /\ Len(other) = q + 1
  BY <1>3, <1>4, Zenon
<1>5. long # n
  <2>1. SUFFICES ASSUME long = n PROVE FALSE
    OBVIOUS
  <2>2. q = p + 1
    BY <1>8, <2>1, Zenon
  <2>. HIDE DEF p, q
  <2>. QED
    BY <1>7, <2>2
<1>6. ASSUME long = other PROVE m = n /\ b = c
  <2>1. p + 1 = q + 1
    BY <1>8, <1>6, Zenon
  <2>2. Len(m) = Len(n)
    <3>. HIDE DEF p, q
    <3>1. p = q
      BY <1>7, <2>1
    <3>. QED
      BY <3>1 DEF p, q
  <2>3. \A i \in 1 .. Len(m) : m[i] = n[i]
    BY <1>3, <1>4, <1>6, <2>2, Zenon
  <2>4. b = c
    BY <1>3, <1>4, <1>6, <2>2, Zenon
  <2>5. m = n
    BY <1>1, <1>2, <2>2, <2>3
  <2>. QED
    BY <2>4, <2>5
<1>. QED
  BY <1>3, <1>4, <1>5, <1>6, Zenon

\* What a backend makes of its nodes can be told apart.
LEMMA DiscoveredOffer ==
    ASSUME NEW b \in Registry!Backends
    PROVE  OfferOf(Registry!Discovered(b))
<1>. DEFINE List(i) == Registry!GetSensorsList(b, i)
            Found1 == Registry!DiscoverDevices(b)
<1>1. /\ DOMAIN BackendNodes[b] \subseteq Nat
      /\ \A i, j \in DOMAIN BackendNodes[b] :
           /\ DOMAIN List(i) \subseteq Nat
           /\ \A k \in DOMAIN List(i), m \in DOMAIN List(j) :
                List(i)[k].type = List(j)[m].type /\ List(i)[k].name = List(j)[m].name =>
                    (i = j /\ k = m) \/ (b = "iio" /\ i # j)
  BY RegistryAssumption DEF Registry!Backends
<1>2. \A i : \A k \in DOMAIN List(i) :
        /\ DOMAIN List(i)[k] = {"type", "name", "node"}
        /\ \E x : List(i)[k].name = <<x>>
        /\ List(i)[k].node = i
  BY DEF Registry!GetSensorsList
<1>3. ASSUME NEW l \in DOMAIN Found1
      PROVE  /\ l = <<l[1], l[2]>>
             /\ l[1] \in DOMAIN BackendNodes[b]
             /\ l[2] \in DOMAIN List(l[1])
  <2>1. l \in UNION {{i} \X DOMAIN List(i) :
                       i \in {n \in DOMAIN BackendNodes[b] : <<b, n>> \in present}}
    BY DEF Registry!DiscoverDevices, Registry!LocalHandles
  <2>. HIDE DEF List, Found1
  <2>2. PICK i \in DOMAIN BackendNodes[b] : l \in {i} \X DOMAIN List(i)
    BY <2>1
  <2>3. PICK k \in DOMAIN List(i) : l = <<i, k>>
    BY <2>2
  <2>. QED
    BY <2>3
<1>4. \A l \in DOMAIN Found1 : Found1[l] = List(l[1])[l[2]]
  BY DEF Registry!DiscoverDevices
<1>. HIDE DEF List, Found1
<1>5. ASSUME NEW l \in DOMAIN Found1 PROVE l \in Nat \X Nat
  <2>1. l = <<l[1], l[2]>> /\ l[1] \in Nat /\ l[2] \in Nat
    BY <1>1, <1>3
  <2>. QED
    BY <2>1, Zenon
<1>6. \A l \in DOMAIN Found1 :
        /\ DOMAIN Found1[l] = {"type", "name", "node"}
        /\ \E x : Found1[l].name = <<x>>
        /\ Found1[l].node = l[1]
  BY <1>2, <1>3, <1>4
<1>7. ASSUME NEW l \in DOMAIN Found1, NEW o \in DOMAIN Found1,
             Found1[l].type = Found1[o].type, Found1[l].name = Found1[o].name
      PROVE  l = o \/ (b = "iio" /\ l[1] # o[1])
  <2>1. /\ l[1] \in DOMAIN BackendNodes[b] /\ l[2] \in DOMAIN List(l[1])
        /\ o[1] \in DOMAIN BackendNodes[b] /\ o[2] \in DOMAIN List(o[1])
        /\ l = <<l[1], l[2]>> /\ o = <<o[1], o[2]>>
    BY <1>3
  <2>2. /\ List(l[1])[l[2]].type = List(o[1])[o[2]].type
        /\ List(l[1])[l[2]].name = List(o[1])[o[2]].name
    BY <1>4, <1>7
  <2>3. (l[1] = o[1] /\ l[2] = o[2]) \/ (b = "iio" /\ l[1] # o[1])
    BY <1>1, <2>1, <2>2
  <2>. QED
    BY <2>1, <2>3, Zenon
<1>8. CASE b # "iio"
  <2>1. Registry!Discovered(b) = Found1
    BY <1>8 DEF Registry!Discovered, Found1
  <2>. QED
    BY <2>1, <1>5, <1>6, <1>7, <1>8 DEF OfferOf, Original
<1>9. CASE b = "iio"
  <2>. DEFINE Many(l) == \E o \in DOMAIN Found1 \ {l} :
                           Found1[o].type = Found1[l].type /\ Found1[o].name = Found1[l].name
              Unique == Registry!MakeSensorNamesUnique(Found1)
  <2>1. /\ DOMAIN Unique = DOMAIN Found1
        /\ \A l \in DOMAIN Found1 :
             /\ ~Many(l) => Unique[l] = Found1[l]
             /\ Many(l) => Unique[l] = [Found1[l] EXCEPT !.name = @ \o <<"device", Found1[l].node>>]
    BY DEF Registry!MakeSensorNamesUnique
  <2>2. Registry!Discovered(b) = Unique
    BY <1>9 DEF Registry!Discovered, Found1
  <2>3. ASSUME NEW x, NEW n PROVE <<x>> \o <<"device", n>> = <<x, "device", n>>
    <3>1. <<x>> \in Seq({x, "device", n}) /\ <<"device", n>> \in Seq({x, "device", n})
      OBVIOUS
    <3>2. PICK whole : whole = <<x>> \o <<"device", n>>
      OBVIOUS
    <3>3. /\ whole \in Seq({x, "device", n}) /\ Len(whole) = 3
          /\ whole[1] = x /\ whole[2] = "device" /\ whole[3] = n
      BY <3>1, <3>2, ConcatProperties
    <3>4. <<x, "device", n>> \in Seq({x, "device", n})
      OBVIOUS
    <3>5. whole = <<x, "device", n>>
      BY <3>3, <3>4
    <3>. QED
      BY <3>2, <3>5
  <2>. HIDE DEF Unique
  <2>4. ASSUME NEW l \in DOMAIN Found1
        PROVE  /\ Unique[l].type = Found1[l].type
               /\ ~Many(l) => Unique[l].name = Found1[l].name
               /\ Many(l) => \E x : /\ Found1[l].name = <<x>>
                                    /\ Unique[l].name = <<x, "device", l[1]>>
    <3>1. CASE ~Many(l)
      BY <2>1, <3>1
    <3>2. CASE Many(l)
      <4>1. PICK x : Found1[l].name = <<x>>
        BY <1>6
      <4>2. Unique[l] = [Found1[l] EXCEPT !.name = Found1[l].name \o <<"device", Found1[l].node>>]
        BY <2>1, <3>2
      <4>3. Unique[l].type = Found1[l].type
            /\ Unique[l].name = Found1[l].name \o <<"device", Found1[l].node>>
        BY <1>6, <4>2
      <4>4. Unique[l].name = <<x, "device", l[1]>>
        BY <1>6, <2>3, <4>1, <4>3
      <4>. QED
        BY <3>2, <4>1, <4>3, <4>4
    <3>. QED
      BY <3>1, <3>2
  <2>5. ASSUME NEW l \in DOMAIN Found1, NEW o \in DOMAIN Found1,
               Unique[l].type = Unique[o].type, Unique[l].name = Unique[o].name
        PROVE  l = o
    <3>1. CASE Many(l) /\ Many(o)
      <4>1. PICK x : Found1[l].name = <<x>> /\ Unique[l].name = <<x, "device", l[1]>>
        BY <2>4, <3>1
      <4>2. PICK y : Found1[o].name = <<y>> /\ Unique[o].name = <<y, "device", o[1]>>
        BY <2>4, <3>1
      <4>3. x = y /\ l[1] = o[1]
        BY <4>1, <4>2, <2>5
      <4>. QED
        BY <4>1, <4>2, <4>3, <2>4, <2>5, <1>7
    <3>2. CASE ~Many(l) /\ ~Many(o)
      BY <2>4, <2>5, <3>2
    <3>3. ASSUME NEW p \in DOMAIN Found1, NEW q \in DOMAIN Found1, Many(p), ~Many(q)
          PROVE  Unique[p].name # Unique[q].name
      <4>1. PICK x : Unique[p].name = <<x, "device", p[1]>>
        BY <2>4, <3>3
      <4>2. PICK y : Unique[q].name = <<y>>
        BY <1>6, <2>4, <3>3
      <4>. QED
        BY <4>1, <4>2
    <3>. QED
      BY <3>1, <3>2, <3>3, <2>5
  <2>6. \A l \in DOMAIN Found1 : Original(Unique[l].name)
    BY <1>6, <2>4 DEF Original
  <2>. QED
    BY <2>1, <2>2, <2>5, <2>6, <1>5 DEF OfferOf
<1>. QED
  BY <1>8, <1>9

-----------------------------------------------------------------------------
LEMMA Grown ==
    ASSUME NEW s, IsList(s), NEW e
    PROVE  /\ IsList(Append(s, e))
           /\ Len(s) \in Nat /\ Len(Append(s, e)) = Len(s) + 1
           /\ DOMAIN s = 1 .. Len(s) /\ DOMAIN Append(s, e) = 1 .. Len(s) + 1
           /\ \A i \in DOMAIN s : Append(s, e)[i] = s[i]
           /\ Append(s, e)[Len(s) + 1] = e
<1>. DEFINE S == {s[i] : i \in DOMAIN s} \cup {e}
<1>1. s \in Seq(S)
  <2>1. s \in Seq({s[i] : i \in DOMAIN s})
    BY DEF IsList
  <2>2. Len(s) \in Nat /\ DOMAIN s = 1 .. Len(s) /\ \A i \in 1 .. Len(s) : s[i] \in S
    BY <2>1
  <2>. HIDE DEF S
  <2>. QED
    BY <2>1, <2>2, SeqDef
<1>2. /\ Append(s, e) \in Seq(S)
      /\ Len(Append(s, e)) = Len(s) + 1
      /\ \A i \in 1 .. Len(s) : Append(s, e)[i] = s[i]
      /\ Append(s, e)[Len(s) + 1] = e
  <2>. HIDE DEF S
  <2>1. e \in S
    BY DEF S
  <2>. QED
    BY <1>1, <2>1, AppendProperties
<1>3. PICK t : t = Append(s, e)
  OBVIOUS
<1>4. /\ t \in Seq(S) /\ Len(t) = Len(s) + 1
      /\ \A i \in 1 .. Len(s) : t[i] = s[i]
      /\ t[Len(s) + 1] = e
  BY <1>2, <1>3, Zenon
<1>5. Len(s) \in Nat /\ DOMAIN s = 1 .. Len(s)
  <2>. HIDE DEF S
  <2>. QED
    BY <1>1
<1>6. DOMAIN t = 1 .. Len(s) + 1
  <2>. HIDE DEF S
  <2>. QED
    BY <1>4, <1>5
<1>7. t \in Seq({t[i] : i \in DOMAIN t})
  <2>. HIDE DEF S
  <2>. QED
    BY <1>4, <1>5, <1>6, SeqDef
<1>. QED
  BY <1>3, <1>4, <1>5, <1>6, <1>7, Zenon DEF IsList

LEMMA EmptyIsList == IsList(<<>>) /\ Len(<<>>) = 0 /\ DOMAIN <<>> = {}
  BY DEF IsList

\* What holds while nothing is registered.
LEMMA NothingRegistered ==
    /\ hardware = <<>> /\ composites = <<>> /\ next = 1
    /\ toGlobal = [b \in Registry!Backends |-> <<>>]
    => HardwareInv
  BY EmptyIsList DEF HardwareInv, Registry!HandlesLead, Registry!InOrderOfBackends,
     Registry!NamesDiffer, Registry!CompositesFollow

LEMMA RegistryInvInit == Registry!Init => RegistryInv
<1>. SUFFICES ASSUME Registry!Init PROVE RegistryInv
  OBVIOUS
<1>. USE DEF Registry!Init, Registry!Nothing
<1>1. HardwareInv
  BY NothingRegistered
<1>2. LoadedInv
  <2>1. list \in Seq(Registry!Backends) /\ list # <<>>
    BY RegistryAssumption DEF Registry!Backends
  <2>2. 1 \in 1 .. Len(list)
    BY <2>1
  <2>. QED
    BY <2>2 DEF LoadedInv
<1>3. OfferedInv
  BY DEF OfferedInv, OfferOf
<1>4. PhaseInv
  BY DEF PhaseInv
<1>. QED
  BY <1>1, <1>2, <1>3, <1>4 DEF RegistryInv, TurnInv, FilledInv

LEMMA LoadKeeps == RegistryInv /\ Registry!LoadBackends => RegistryInv'
<1>. SUFFICES ASSUME RegistryInv, Registry!LoadBackends PROVE RegistryInv'
  OBVIOUS
<1>. USE DEF RegistryInv, Registry!LoadBackends, Registry!found, Registry!books
<1>1. LoadedInv'
  <2>1. /\ list \in Seq(Registry!Backends)
        /\ \A i, j \in DOMAIN list : list[i] = list[j] => i = j
        /\ turn \in 1 .. Len(list) /\ turn \in DOMAIN list
    BY RegistryAssumption DEF LoadedInv, Registry!Backends
  <2>2. list[turn] \in Registry!Backends
    BY <2>1
  <2>3. CASE loaded' = loaded
    BY <2>1, <2>3 DEF LoadedInv, PhaseInv
  <2>4. CASE loaded' = Append(loaded, list[turn])
    <3>1. /\ loaded' \in Seq(Registry!Backends) /\ Len(loaded) \in Nat
          /\ DOMAIN loaded = 1 .. Len(loaded) /\ DOMAIN loaded' = 1 .. Len(loaded) + 1
          /\ \A i \in DOMAIN loaded : loaded'[i] = loaded[i]
          /\ loaded'[Len(loaded) + 1] = list[turn]
      BY <2>2, <2>4 DEF LoadedInv
    <3>2. \A i \in DOMAIN loaded : \E k \in 1 .. turn - 1 : loaded[i] = list[k]
      BY DEF LoadedInv
    <3>3. \A i \in DOMAIN loaded : loaded[i] # list[turn]
      BY <2>1, <3>2
    <3>4. \A i, j \in DOMAIN loaded' : loaded'[i] = loaded'[j] => i = j
      BY <3>1, <3>3 DEF LoadedInv
    <3>5. \A i \in DOMAIN loaded' : \E k \in 1 .. turn : loaded'[i] = list[k]
      BY <2>1, <3>1, <3>2
    <3>6. initialized' = {}
      BY DEF PhaseInv
    <3>. QED
      BY <2>1, <3>1, <3>4, <3>5, <3>6 DEF LoadedInv
  <2>. QED
    BY <2>3, <2>4
<1>2. OfferedInv'
  BY DEF OfferedInv
<1>3. PhaseInv'
  BY DEF PhaseInv
<1>4. HardwareInv'
  <2>1. hardware = <<>> /\ hardware' = <<>>
    BY DEF PhaseInv
  <2>. QED
    BY <2>1, EmptyIsList DEF HardwareInv, Registry!HandlesLead, Registry!InOrderOfBackends,
       Registry!NamesDiffer, Registry!CompositesFollow
<1>5. phase' # "register" /\ phase' \notin {"decide", "composites", "done"}
  OBVIOUS
<1>. QED
  BY <1>1, <1>2, <1>3, <1>4, <1>5 DEF TurnInv, FilledInv

LEMMA InitializeKeeps == RegistryInv /\ Registry!InitializeBackends => RegistryInv'
<1>. SUFFICES ASSUME RegistryInv, Registry!InitializeBackends PROVE RegistryInv'
  OBVIOUS
<1>. USE DEF RegistryInv, Registry!InitializeBackends, Registry!books, Registry!NoHardware
<1>1. initialized' \subseteq {loaded[i] : i \in DOMAIN loaded}
  BY DEF Registry!ToSet
<1>2. LoadedInv'
  BY <1>1 DEF LoadedInv
<1>3. OfferedInv'
  <2>1. \A b \in Registry!Backends :
          /\ b \in initialized' => OfferOf(offered'[b])
          /\ b \notin initialized' => offered'[b] = <<>>
    BY DiscoveredOffer, Zenon
  <2>2. DOMAIN <<>> = {} /\ OfferOf(<<>>)
    BY DEF OfferOf
  <2>3. DOMAIN offered' = Registry!Backends
    OBVIOUS
  <2>. QED
    BY <2>1, <2>2, <2>3 DEF OfferedInv
<1>4. /\ phase' = "register" /\ hardware' = <<>> /\ composites' = <<>> /\ next' = 1 /\ turn' = 1
      /\ handled' = {} /\ own' = {} /\ provided' = {} /\ used' = {}
      /\ toGlobal' = [b \in Registry!Backends |-> <<>>]
  BY DEF PhaseInv, Registry!Nothing
<1>5. PhaseInv'
  BY <1>4 DEF PhaseInv
<1>6. HardwareInv'
  BY <1>4, EmptyIsList DEF HardwareInv, Registry!HandlesLead, Registry!InOrderOfBackends,
     Registry!NamesDiffer, Registry!CompositesFollow
<1>7. TurnInv'
  <2>1. /\ Len(loaded') \in Nat /\ DOMAIN loaded' = 1 .. Len(loaded')
    BY DEF LoadedInv
  <2>2. DOMAIN hardware' = {}
    BY <1>4
  <2>. QED
    BY <1>4, <2>1, <2>2 DEF TurnInv, Passed
<1>. QED
  BY <1>2, <1>3, <1>4, <1>5, <1>6, <1>7 DEF FilledInv

LEMMA RetryKeeps == RegistryInv /\ Registry!Retry => RegistryInv'
<1>. SUFFICES ASSUME RegistryInv, Registry!Retry PROVE RegistryInv'
  OBVIOUS
<1>. USE DEF RegistryInv, Registry!Retry, Registry!books, Registry!NoHardware
<1>1. /\ phase' = "initialize" /\ hardware' = <<>> /\ composites' = <<>> /\ next' = 1
      /\ handled' = {} /\ own' = {} /\ provided' = {} /\ used' = {} /\ initialized' = {}
      /\ toGlobal' = [b \in Registry!Backends |-> <<>>]
      /\ offered' = [b \in Registry!Backends |-> <<>>]
  BY DEF PhaseInv, Registry!Nothing
<1>2. LoadedInv'
  BY <1>1 DEF LoadedInv
<1>3. OfferedInv'
  BY <1>1 DEF OfferedInv, OfferOf
<1>4. PhaseInv'
  BY <1>1 DEF PhaseInv
<1>5. HardwareInv'
  BY <1>1, EmptyIsList DEF HardwareInv, Registry!HandlesLead, Registry!InOrderOfBackends,
     Registry!NamesDiffer, Registry!CompositesFollow
<1>. QED
  BY <1>1, <1>2, <1>3, <1>4, <1>5 DEF TurnInv, FilledInv

\* Fallbacks fill as much as before where the list and the offers are the same.
LEMMA SameFill ==
    ASSUME UNCHANGED <<initialized, offered, hardware, toGlobal>>
    PROVE  Registry!FallbacksFill' <=> Registry!FallbacksFill
<1>1. \A b, l : Registry!Invalid(offered[b][l])' <=> Registry!Invalid(offered[b][l])
  BY Zenon DEF Registry!Invalid
<1>2. /\ initialized' = initialized /\ offered' = offered /\ hardware' = hardware
      /\ toGlobal' = toGlobal
  OBVIOUS
<1>. QED
  BY <1>1, <1>2 DEF Registry!FallbacksFill

\* A step that does not touch the list.
LEMMA ListUntouched ==
    ASSUME RegistryInv,
           UNCHANGED <<list, loaded, initialized, offered, hardware, toGlobal, next,
                       handled, provided, own, used, composites>>,
           \/ UNCHANGED <<phase, turn>>
           \/ phase = "decide" /\ phase' = "composites"
           \/ phase = "composites" /\ phase' \in {"composites", "done"}
    PROVE  RegistryInv'
<1>. USE DEF RegistryInv
<1>1. LoadedInv'
  BY DEF LoadedInv
<1>2. OfferedInv'
  BY DEF OfferedInv
<1>3. PhaseInv'
  BY DEF PhaseInv
<1>4. HardwareInv'
  BY DEF HardwareInv, Registry!HandlesLead, Registry!InOrderOfBackends,
     Registry!NamesDiffer, Registry!CompositesFollow
<1>5. TurnInv'
  <2>1. CASE UNCHANGED <<phase, turn>>
    <3>1. \A b, l : LeftOut(b, l)' <=> LeftOut(b, l)
      BY Zenon DEF LeftOut, Registry!Invalid
    <3>2. \A i, l : Passed(i, l)' <=> Passed(i, l)
      BY <2>1, Zenon DEF Passed
    <3>. QED
      BY <2>1, <3>1, <3>2 DEF TurnInv
  <2>2. CASE phase' # "register"
    BY <2>2 DEF TurnInv
  <2>. QED
    BY <2>1, <2>2
<1>6. FilledInv'
  <2>1. Registry!FallbacksFill' <=> Registry!FallbacksFill
    BY SameFill
  <2>. QED
    BY <2>1 DEF FilledInv
<1>. QED
  BY <1>1, <1>2, <1>3, <1>4, <1>5, <1>6

\* There is a first sensor of a type that is served.
LEMMA FirstFound ==
    ASSUME IsList(hardware), NEW t \in Registry!TypesOf
    PROVE  Registry!FirstOfType(t) \in DOMAIN hardware
<1>. DEFINE S == {h \in DOMAIN hardware : hardware[h].type = t}
<1>1. Len(hardware) \in Nat /\ DOMAIN hardware = 1 .. Len(hardware)
  BY DEF IsList
<1>2. S \subseteq Nat /\ S # {}
  BY <1>1 DEF Registry!TypesOf
<1>3. PICK h \in S : \A o \in S : ~(<<o, h>> \in OpToRel(<, Nat))
  <2>. HIDE DEF S
  <2>. QED
    BY <1>2, NatLessThanWellFounded, WFMin, Zenon
<1>4. ASSUME NEW o \in 1 .. h - 1 PROVE hardware[o].type # t
  <2>1. SUFFICES ASSUME hardware[o].type = t PROVE FALSE
    OBVIOUS
  <2>2. h \in Nat /\ o \in Nat /\ o < h
    BY <1>1
  <2>3. o \in S
    BY <1>1, <2>1
  <2>4. <<o, h>> \in {ss \in Nat \X Nat : ss[1] < ss[2]}
    BY <2>2
  <2>. QED
    BY <1>3, <2>3, <2>4, Zenon DEF OpToRel
<1>5. \E g \in DOMAIN hardware : /\ hardware[g].type = t
                                 /\ \A o \in 1 .. g - 1 : hardware[o].type # t
  BY <1>3, <1>4
<1>. QED
  BY <1>5 DEF Registry!FirstOfType

LEMMA CompositesKeep == RegistryInv /\ Registry!RegisterComposites => RegistryInv'
<1>. SUFFICES ASSUME RegistryInv, Registry!RegisterComposites PROVE RegistryInv'
  OBVIOUS
<1>. DEFINE c == CompositeSensors[turn]
            made2 == [type |-> c.type, handle |-> next,
                      inputs |-> {Registry!FirstOfType(t) : t \in c.inputs}]
<1>1. CASE UNCHANGED <<composites, next>>
  <2>1. /\ UNCHANGED <<list, loaded, initialized, offered, hardware, toGlobal, next,
                       handled, provided, own, used, composites>>
        /\ phase = "composites" /\ phase' \in {"composites", "done"}
    BY <1>1 DEF Registry!RegisterComposites, Registry!books
  <2>. QED
    BY <2>1, ListUntouched
<1>2. CASE ~UNCHANGED <<composites, next>>
  <2>1. /\ c.type \notin Registry!TypesOf /\ c.inputs \subseteq Registry!TypesOf
        /\ composites' = Append(composites, made2) /\ next' = next + 1
        /\ phase = "composites" /\ phase' = "composites"
        /\ UNCHANGED <<list, loaded, initialized, offered, hardware, toGlobal,
                       handled, provided, own, used>>
    BY <1>2 DEF Registry!RegisterComposites, Registry!books
  <2>2. /\ made2.type = c.type /\ made2.handle = next
        /\ made2.inputs \subseteq DOMAIN hardware
    BY <2>1, FirstFound DEF RegistryInv, HardwareInv
  <2>. HIDE DEF made2
  <2>3. /\ IsList(composites') /\ Len(composites) \in Nat /\ Len(composites') = Len(composites) + 1
        /\ DOMAIN composites = 1 .. Len(composites)
        /\ DOMAIN composites' = 1 .. Len(composites) + 1
        /\ \A i \in DOMAIN composites : composites'[i] = composites[i]
        /\ composites'[Len(composites) + 1] = made2
    BY <2>1, Grown DEF RegistryInv, HardwareInv
  <2>4. Registry!CompositesFollow'
    <3>1. next = Len(hardware) + Len(composites) + 1 /\ Len(hardware) \in Nat
      BY DEF RegistryInv, HardwareInv, IsList
    <3>2. \A h \in DOMAIN hardware : hardware[h].type # c.type
      BY <2>1 DEF Registry!TypesOf
    <3>3. Registry!CompositesFollow
      BY DEF RegistryInv, HardwareInv
    <3>. QED
      BY <2>1, <2>2, <2>3, <3>1, <3>2, <3>3 DEF Registry!CompositesFollow
  <2>5. HardwareInv'
    <3>1. Len(hardware) \in Nat
      BY DEF RegistryInv, HardwareInv, IsList
    <3>. QED
      BY <2>1, <2>3, <2>4, <3>1 DEF RegistryInv, HardwareInv, Registry!HandlesLead,
         Registry!InOrderOfBackends, Registry!NamesDiffer
  <2>6. LoadedInv'
    BY <2>1 DEF RegistryInv, LoadedInv
  <2>7. OfferedInv'
    BY <2>1 DEF RegistryInv, OfferedInv
  <2>8. PhaseInv'
    BY <2>1 DEF RegistryInv, PhaseInv
  <2>9. FilledInv'
    <3>1. Registry!FallbacksFill' <=> Registry!FallbacksFill
      BY <2>1, SameFill
    <3>. QED
      BY <2>1, <3>1 DEF RegistryInv, FilledInv
  <2>. QED
    BY <2>1, <2>5, <2>6, <2>7, <2>8, <2>9 DEF RegistryInv, TurnInv
<1>. QED
  BY <1>1, <1>2

-----------------------------------------------------------------------------
(* RegisterHardwareSensors().                                              *)

\* What the loop leaves alone.
Kept == UNCHANGED <<list, loaded, initialized, offered, composites>>

LEMMA LoadedIs ==
    ASSUME RegistryInv
    PROVE  /\ Len(loaded) \in Nat /\ DOMAIN loaded = 1 .. Len(loaded)
           /\ \A i \in DOMAIN loaded : loaded[i] \in Registry!Backends
  BY DEF RegistryInv, LoadedInv

LEMMA KeptInv ==
    ASSUME RegistryInv, Kept, phase = "register", phase' \in {"register", "decide"}
    PROVE  LoadedInv' /\ OfferedInv'
  BY DEF RegistryInv, Kept, LoadedInv, OfferedInv

\* The loop is through all backends.
LEMMA LoopEnds ==
    ASSUME RegistryInv, Kept, phase = "register", phase' = "decide", turn > Len(loaded),
           UNCHANGED <<turn, hardware, toGlobal, next, handled, own>>, provided' = {}, used' = {}
    PROVE  RegistryInv'
<1>1. /\ turn = Len(loaded) + 1 /\ handled = {} /\ own = {}
      /\ \A i \in DOMAIN loaded : \A l \in DOMAIN offered[loaded[i]] :
            Passed(i, l) => l \in DOMAIN toGlobal[loaded[i]] \/ LeftOut(loaded[i], l)
  <2>1. /\ turn \in 1 .. Len(loaded) + 1
        /\ turn = Len(loaded) + 1 => handled = {} /\ own = {}
        /\ \A i \in DOMAIN loaded : \A l \in DOMAIN offered[loaded[i]] :
              Passed(i, l) => l \in DOMAIN toGlobal[loaded[i]] \/ LeftOut(loaded[i], l)
    BY Zenon DEF RegistryInv, TurnInv
  <2>2. turn = Len(loaded) + 1
    BY <2>1, LoadedIs
  <2>. QED
    BY <2>1, <2>2, Zenon
<1>2. PhaseInv'
  BY <1>1 DEF RegistryInv, PhaseInv, Kept
<1>3. HardwareInv'
  BY DEF RegistryInv, HardwareInv, Kept, Registry!HandlesLead, Registry!InOrderOfBackends,
     Registry!NamesDiffer, Registry!CompositesFollow
<1>4. Registry!FallbacksFill
  <2>1. ASSUME NEW b \in initialized, NEW l \in DOMAIN offered[b] \ DOMAIN toGlobal[b]
        PROVE  LeftOut(b, l)
    <3>1. PICK i \in DOMAIN loaded : loaded[i] = b
      BY DEF RegistryInv, LoadedInv
    <3>2. Passed(i, l)
      BY <1>1, LoadedIs DEF Passed
    <3>. QED
      BY <1>1, <3>1, <3>2
  <2>. QED
    BY <2>1 DEF RegistryInv, HardwareInv, Registry!FallbacksFill, LeftOut
<1>5. FilledInv'
  <2>1. UNCHANGED <<initialized, offered, hardware, toGlobal>>
    BY DEF Kept
  <2>. QED
    BY <1>4, <2>1, SameFill DEF FilledInv
<1>. QED
  BY <1>2, <1>3, <1>5, KeptInv DEF RegistryInv, TurnInv

\* All sensors of the backend whose turn it is are through.
LEMMA BackendKeeps ==
    ASSUME RegistryInv, Kept, phase = "register", phase' = "register", turn <= Len(loaded),
           DOMAIN offered[loaded[turn]] \ handled = {}, Registry!RegisterBackend
    PROVE  RegistryInv'
<1>. DEFINE b == loaded[turn]
<1>1. /\ turn \in 1 .. Len(loaded) /\ turn \in DOMAIN loaded /\ turn \in Nat
      /\ Len(loaded) \in Nat
      /\ handled = DOMAIN offered[b]
  <2>1. turn \in 1 .. Len(loaded) + 1 /\ handled \subseteq DOMAIN offered[b]
    BY Zenon DEF RegistryInv, TurnInv
  <2>2. handled = DOMAIN offered[b]
    BY <2>1, Zenon
  <2>3. Len(loaded) \in Nat /\ DOMAIN loaded = 1 .. Len(loaded)
    BY LoadedIs
  <2>. QED
    BY <2>1, <2>2, <2>3
<1>2. /\ provided' = provided \cup own /\ own' = {} /\ handled' = {} /\ turn' = turn + 1
      /\ UNCHANGED <<hardware, toGlobal, next, used>>
  BY DEF Registry!RegisterBackend, Registry!found
<1>3. PhaseInv'
  BY <1>2 DEF RegistryInv, PhaseInv, Kept
<1>4. HardwareInv'
  BY <1>2 DEF RegistryInv, HardwareInv, Kept, Registry!HandlesLead, Registry!InOrderOfBackends,
     Registry!NamesDiffer, Registry!CompositesFollow
<1>5. TurnInv'
  <2>1. \A i \in DOMAIN loaded : \A l : Passed(i, l)' <=> i <= turn
    BY <1>1, <1>2, LoadedIs DEF Passed
  <2>2. \A i \in DOMAIN loaded : \A l \in DOMAIN offered[loaded[i]] :
          i <= turn => Passed(i, l)
    BY <1>1, LoadedIs DEF Passed
  <2>3. \A i \in DOMAIN loaded : \A l : Passed(i, l) => i <= turn
    BY <1>1, LoadedIs DEF Passed
  <2>4. \A i, l : LeftOut(i, l)' <=> LeftOut(i, l)
    BY <1>2, Zenon DEF LeftOut, Registry!Invalid, Kept
  <2>5. \A i \in DOMAIN loaded' : \A h \in DOMAIN hardware' :
          loaded'[i] = hardware'[h].backend => Passed(i, hardware[h].local)'
    BY <1>2, <2>1, <2>3 DEF RegistryInv, TurnInv, Kept
  <2>6. \A i \in DOMAIN loaded' : \A l \in DOMAIN offered'[loaded'[i]] :
          Passed(i, l)' => l \in DOMAIN toGlobal'[loaded'[i]] \/ LeftOut(loaded[i], l)'
    BY <1>2, <2>1, <2>2, <2>4 DEF RegistryInv, TurnInv, Kept
  <2>7. \A t : t \in provided' <=> \E h \in DOMAIN hardware', i \in 1 .. turn' - 1 :
                                    hardware'[h].type = t /\ loaded'[i] = hardware'[h].backend
    <3>1. \A t : t \in provided <=> \E h \in DOMAIN hardware, i \in 1 .. turn - 1 :
                                     hardware[h].type = t /\ loaded[i] = hardware[h].backend
      BY DEF RegistryInv, TurnInv
    <3>2. \A t : t \in own <=> \E h \in DOMAIN hardware :
                                hardware[h].type = t /\ loaded[turn] = hardware[h].backend
      BY <1>1 DEF RegistryInv, TurnInv
    <3>3. \A i : i \in 1 .. turn' - 1 <=> i \in 1 .. turn - 1 \/ i = turn
      BY <1>1, <1>2
    <3>. QED
      BY <1>2, <3>1, <3>2, <3>3 DEF Kept
  <2>8. used' = {<<hardware'[h].type, hardware'[h].name>> : h \in DOMAIN hardware'}
    BY <1>2 DEF RegistryInv, TurnInv
  <2>9. turn' <= Len(loaded') => \A h \in DOMAIN hardware' : hardware'[h].backend # loaded'[turn']
    BY <1>1, <1>2, <2>3, LoadedIs DEF RegistryInv, TurnInv, Kept
  <2>10. turn' \in 1 .. Len(loaded') + 1
    BY <1>1, <1>2 DEF Kept
  <2>. QED
    BY <1>2, <2>5, <2>6, <2>7, <2>8, <2>9, <2>10 DEF TurnInv
<1>. QED
  BY <1>3, <1>4, <1>5, KeptInv DEF RegistryInv, FilledInv

\* A sensor is left out: a fallback's where another backend provides the type,
\* or one no one can use.
LEMMA SkipKeeps ==
    ASSUME RegistryInv, Kept, phase = "register", phase' = "register", turn <= Len(loaded),
           NEW local \in DOMAIN offered[loaded[turn]] \ handled,
           \A o \in (DOMAIN offered[loaded[turn]] \ handled) \ {local} : Registry!Before(local, o),
           \/ Registry!SkippedFallback(loaded[turn], offered[loaded[turn]][local].type)
           \/ Registry!Invalid(offered[loaded[turn]][local]),
           handled' = handled \cup {local},
           UNCHANGED <<turn, hardware, toGlobal, next, provided, own, used>>
    PROVE  RegistryInv'
<1>. DEFINE b == loaded[turn]
<1>1. /\ turn \in DOMAIN loaded /\ Len(loaded) \in Nat /\ turn \in Nat
      /\ handled \subseteq DOMAIN offered[b]
  BY LoadedIs DEF RegistryInv, TurnInv
<1>2. PhaseInv'
  BY DEF RegistryInv, PhaseInv, Kept
<1>3. HardwareInv'
  BY DEF RegistryInv, HardwareInv, Kept, Registry!HandlesLead, Registry!InOrderOfBackends,
     Registry!NamesDiffer, Registry!CompositesFollow
<1>4. LeftOut(b, local)
  <2>1. CASE Registry!Invalid(offered[b][local])
    BY <2>1 DEF LeftOut
  <2>2. CASE Registry!SkippedFallback(b, offered[b][local].type)
    <3>1. b \in FallbackOnly /\ offered[b][local].type \in provided
      BY <2>2 DEF Registry!SkippedFallback
    <3>2. PICK h \in DOMAIN hardware, i \in 1 .. turn - 1 :
            hardware[h].type = offered[b][local].type /\ loaded[i] = hardware[h].backend
      BY <3>1 DEF RegistryInv, TurnInv
    <3>3. i \in DOMAIN loaded /\ i # turn
      BY <1>1, LoadedIs
    <3>4. hardware[h].backend # b
      BY <1>1, <3>2, <3>3 DEF RegistryInv, LoadedInv
    <3>. QED
      BY <3>1, <3>2, <3>4 DEF LeftOut
  <2>. QED
    BY <2>1, <2>2
<1>5. TurnInv'
  <2>1. \A i, l : Passed(i, l)' <=> Passed(i, l) \/ (i = turn /\ l = local)
    BY DEF Passed
  <2>2. \A i, l : LeftOut(i, l)' <=> LeftOut(i, l)
    BY Zenon DEF LeftOut, Registry!Invalid, Kept
  <2>3. \A i \in DOMAIN loaded' : \A h \in DOMAIN hardware' :
          loaded'[i] = hardware'[h].backend => Passed(i, hardware[h].local)'
    BY <2>1 DEF RegistryInv, TurnInv, Kept
  <2>4. \A i \in DOMAIN loaded' : \A l \in DOMAIN offered'[loaded'[i]] :
          Passed(i, l)' => l \in DOMAIN toGlobal'[loaded'[i]] \/ LeftOut(loaded[i], l)'
    BY <1>4, <2>1, <2>2 DEF RegistryInv, TurnInv, Kept
  <2>5. \A l \in handled', o \in DOMAIN offered[b] \ handled' : Registry!Before(l, o)
    BY <1>1 DEF RegistryInv, TurnInv
  <2>6. handled' \subseteq DOMAIN offered[b]
    BY <1>1
  <2>7. turn' <= Len(loaded')
    BY DEF Kept
  <2>8. turn' # Len(loaded') + 1
    BY <1>1, <2>7 DEF Kept
  <2>. QED
    BY <2>3, <2>4, <2>5, <2>6, <2>7, <2>8 DEF RegistryInv, TurnInv, Kept
<1>. QED
  BY <1>2, <1>3, <1>5, KeptInv DEF RegistryInv, FilledInv

\* A sensor is registered: it has the next handle, the name the backend gave it
\* or that with the backend's, and no other sensor has its type and name.
LEMMA RegisteredKeeps ==
    ASSUME RegistryInv, Kept, phase = "register", phase' = "register", turn <= Len(loaded),
           NEW local \in DOMAIN offered[loaded[turn]] \ handled,
           \A o \in (DOMAIN offered[loaded[turn]] \ handled) \ {local} : Registry!Before(local, o),
           ~Registry!SkippedFallback(loaded[turn], offered[loaded[turn]][local].type),
           ~Registry!Invalid(offered[loaded[turn]][local]),
           Registry!RegisterOne(loaded[turn], local)
    PROVE  RegistryInv'
<1>. DEFINE b == loaded[turn]
            offer == offered[b][local]
            name == Registry!Named(offer, b)
            n == Len(hardware) + 1
            entry == [backend |-> b, local |-> local, type |-> offer.type, name |-> name,
                      handle |-> next]
<1>1. /\ turn \in DOMAIN loaded /\ Len(loaded) \in Nat /\ turn \in Nat
      /\ handled \subseteq DOMAIN offered[b]
      /\ b \in Registry!Backends
  BY LoadedIs DEF RegistryInv, TurnInv
<1>2. /\ handled' = handled \cup {local} /\ UNCHANGED <<turn, provided>>
      /\ hardware' = Append(hardware, entry)
      /\ toGlobal' = [toGlobal EXCEPT ![b] =
            [l \in DOMAIN toGlobal[b] \cup {local} |-> IF l = local THEN next ELSE toGlobal[b][l]]]
      /\ next' = next + 1
      /\ own' = own \cup {offer.type}
      /\ used' = used \cup {<<offer.type, name>>}
  BY DEF Registry!RegisterOne
<1>3. /\ composites = <<>> /\ composites' = <<>> /\ Len(composites) = 0
      /\ next = n /\ n \in Nat /\ next \in Nat
  <2>1. composites = <<>>
    BY DEF RegistryInv, PhaseInv
  <2>2. Len(hardware) \in Nat /\ next = Len(hardware) + Len(composites) + 1
    BY DEF RegistryInv, HardwareInv, IsList
  <2>. QED
    BY <2>1, <2>2, EmptyIsList DEF Kept
<1>4. /\ entry.backend = b /\ entry.local = local /\ entry.type = offer.type
      /\ entry.name = name /\ entry.handle = n
  BY <1>3
<1>5. /\ IsList(hardware') /\ DOMAIN hardware = 1 .. n - 1 /\ DOMAIN hardware' = 1 .. n
      /\ Len(hardware') = n
      /\ \A h \in DOMAIN hardware : hardware'[h] = hardware[h]
      /\ hardware'[n] = entry
  <2>. HIDE DEF entry
  <2>1. IsList(hardware)
    BY DEF RegistryInv, HardwareInv
  <2>. QED
    BY <1>2, <2>1, Grown
<1>6. /\ DOMAIN toGlobal' = Registry!Backends
      /\ DOMAIN toGlobal'[b] = DOMAIN toGlobal[b] \cup {local}
      /\ toGlobal'[b][local] = n
      /\ \A l \in DOMAIN toGlobal[b] \ {local} : toGlobal'[b][l] = toGlobal[b][l]
      /\ \A o \in Registry!Backends \ {b} : toGlobal'[o] = toGlobal[o]
  <2>1. DOMAIN toGlobal = Registry!Backends
    BY DEF RegistryInv, HardwareInv
  <2>. QED
    BY <1>1, <1>2, <1>3, <2>1
<1>7. name \in {offer.name, Append(offer.name, b)}
      /\ (<<offer.type, offer.name>> \in used => name = Append(offer.name, b))
      /\ (<<offer.type, offer.name>> \notin used => name = offer.name)
  BY DEF Registry!Named
<1>. HIDE DEF entry, offer, name, b
\* Nothing of this backend with this local handle was registered.
<1>8. \A h \in DOMAIN hardware :
        hardware[h].backend = b => hardware[h].local \in handled /\ hardware[h].local # local
  <2>1. \A h \in DOMAIN hardware : loaded[turn] = hardware[h].backend => Passed(turn, hardware[h].local)
    BY <1>1 DEF RegistryInv, TurnInv
  <2>. QED
    BY <1>1, <2>1 DEF Passed, b
<1>9. local \notin DOMAIN toGlobal[b]
  BY <1>1, <1>8 DEF RegistryInv, HardwareInv, Registry!HandlesLead
<1>10. \A h \in DOMAIN hardware : \E i \in 1 .. turn : loaded[i] = hardware[h].backend
  <2>1. \A i \in DOMAIN loaded : \A h \in DOMAIN hardware :
          loaded[i] = hardware[h].backend => Passed(i, hardware[h].local)
    BY DEF RegistryInv, TurnInv
  <2>2. \A h \in DOMAIN hardware : \E i \in DOMAIN loaded : loaded[i] = hardware[h].backend
    BY DEF RegistryInv, HardwareInv
  <2>3. \A i \in DOMAIN loaded : \A l : Passed(i, l) => i \in 1 .. turn
    BY <1>1, LoadedIs DEF Passed
  <2>. QED
    BY <2>1, <2>2, <2>3
<1>11. /\ offered' = offered /\ loaded' = loaded /\ initialized' = initialized /\ list' = list
      /\ turn' = turn /\ provided' = provided
  BY <1>2 DEF Kept
<1>12. \A h \in DOMAIN hardware :
         /\ hardware[h].handle = h
         /\ hardware[h].local \in DOMAIN toGlobal[hardware[h].backend]
         /\ toGlobal[hardware[h].backend][hardware[h].local] = h
         /\ hardware[h].local \in DOMAIN offered[hardware[h].backend]
         /\ offered[hardware[h].backend][hardware[h].local].type = hardware[h].type
         /\ hardware[h].backend \in Registry!Backends
  BY DEF RegistryInv, HardwareInv, Registry!HandlesLead
<1>13. offer = offered[b][local] /\ local \in DOMAIN offered[b] /\ local \notin handled
  BY DEF offer, b
<1>14. Registry!HandlesLead'
  <2>1. ASSUME NEW h \in DOMAIN hardware'
        PROVE  /\ hardware'[h].handle = h
               /\ hardware'[h].local \in DOMAIN toGlobal'[hardware'[h].backend]
               /\ toGlobal'[hardware'[h].backend][hardware'[h].local] = h
               /\ hardware'[h].local \in DOMAIN offered'[hardware'[h].backend]
               /\ offered'[hardware'[h].backend][hardware'[h].local].type = hardware'[h].type
    <3>1. CASE h \in DOMAIN hardware
      <4>1. CASE hardware[h].backend = b
        BY <1>5, <1>6, <1>8, <1>11, <1>12, <3>1, <4>1
      <4>2. CASE hardware[h].backend # b
        BY <1>5, <1>6, <1>11, <1>12, <3>1, <4>2
      <4>. QED
        BY <4>1, <4>2
    <3>2. CASE h \notin DOMAIN hardware
      <4>1. h = n
        BY <1>3, <1>5, <3>2
      <4>. QED
        BY <1>4, <1>5, <1>6, <1>11, <1>13, <4>1
    <3>. QED
      BY <3>1, <3>2
  <2>2. ASSUME NEW c \in Registry!Backends, NEW l \in DOMAIN toGlobal'[c]
        PROVE  /\ toGlobal'[c][l] \in DOMAIN hardware'
               /\ hardware'[toGlobal'[c][l]].backend = c /\ hardware'[toGlobal'[c][l]].local = l
    <3>1. CASE c = b /\ l = local
      BY <1>3, <1>4, <1>5, <1>6, <3>1
    <3>2. CASE ~(c = b /\ l = local)
      <4>1. l \in DOMAIN toGlobal[c] /\ toGlobal'[c][l] = toGlobal[c][l]
        BY <1>6, <3>2
      <4>2. /\ toGlobal[c][l] \in DOMAIN hardware
            /\ hardware[toGlobal[c][l]].backend = c /\ hardware[toGlobal[c][l]].local = l
        BY <4>1 DEF RegistryInv, HardwareInv, Registry!HandlesLead
      <4>3. toGlobal[c][l] \in DOMAIN hardware'
        BY <1>3, <1>5, <4>2
      <4>. QED
        BY <1>5, <4>1, <4>2, <4>3
    <3>. QED
      BY <3>1, <3>2
  <2>. QED
    BY <2>1, <2>2 DEF Registry!HandlesLead
<1>15. Registry!InOrderOfBackends'
  <2>1. ASSUME NEW h \in DOMAIN hardware', NEW o \in 1 .. h - 1
        PROVE  \/ /\ hardware'[o].backend = hardware'[h].backend
                  /\ Registry!Before(hardware'[o].local, hardware'[h].local)
               \/ \E i, j \in DOMAIN loaded :
                     i < j /\ loaded[i] = hardware'[o].backend /\ loaded[j] = hardware'[h].backend
    <3>1. o \in DOMAIN hardware /\ hardware'[o] = hardware[o]
      BY <1>3, <1>5
    <3>2. CASE h \in DOMAIN hardware
      <4>1. hardware'[h] = hardware[h]
        BY <1>5, <3>2
      <4>2. \/ /\ hardware[o].backend = hardware[h].backend
               /\ Registry!Before(hardware[o].local, hardware[h].local)
            \/ \E i, j \in DOMAIN loaded :
                  i < j /\ loaded[i] = hardware[o].backend /\ loaded[j] = hardware[h].backend
        BY <3>2, Zenon DEF RegistryInv, HardwareInv, Registry!InOrderOfBackends
      <4>. QED
        BY <3>1, <4>1, <4>2, Zenon
    <3>3. CASE h \notin DOMAIN hardware
      <4>1. hardware'[h] = entry
        BY <1>3, <1>5, <3>3
      <4>2. PICK i \in 1 .. turn : loaded[i] = hardware[o].backend
        BY <1>10, <3>1
      <4>3. CASE i = turn
        <5>1. hardware[o].backend = b
          BY <4>2, <4>3 DEF b
        <5>2. hardware[o].local \in handled
          BY <1>8, <3>1, <5>1
        <5>3. \A l \in handled, q \in DOMAIN offered[b] \ handled : Registry!Before(l, q)
          BY DEF RegistryInv, TurnInv, b
        <5>4. Registry!Before(hardware[o].local, local)
          BY <1>13, <5>2, <5>3, Zenon
        <5>. QED
          BY <1>4, <3>1, <4>1, <5>1, <5>4
      <4>4. CASE i # turn
        <5>1. i \in DOMAIN loaded /\ i < turn
          BY <1>1, <4>4, LoadedIs
        <5>. QED
          BY <1>1, <1>4, <3>1, <4>1, <4>2, <5>1 DEF b
      <4>. QED
        BY <4>3, <4>4
    <3>. QED
      BY <3>2, <3>3
  <2>. QED
    BY <1>11, <2>1 DEF Registry!InOrderOfBackends
<1>16. used = {<<hardware[h].type, hardware[h].name>> : h \in DOMAIN hardware}
  BY DEF RegistryInv, TurnInv
<1>17. ASSUME NEW o \in DOMAIN hardware, hardware[o].type = offer.type
       PROVE  hardware[o].name # name
  <2>. DEFINE theirs == offered[hardware[o].backend][hardware[o].local]
  <2>1. SUFFICES ASSUME hardware[o].name = name PROVE FALSE
    OBVIOUS
  <2>2. <<offer.type, name>> \in used
    BY <1>16, <1>17, <2>1
  <2>3. name = Append(offer.name, b)
    BY <1>7, <2>2
  <2>4. hardware[o].name \in {theirs.name, Append(theirs.name, hardware[o].backend)}
    BY DEF RegistryInv, HardwareInv
  <2>5. Original(theirs.name) /\ theirs.type = offer.type
    BY <1>12, <1>17 DEF RegistryInv, OfferedInv, OfferOf
  <2>6. Original(offer.name)
    BY <1>1, <1>13 DEF RegistryInv, OfferedInv, OfferOf
  <2>. HIDE DEF theirs
  <2>7. /\ Append(offer.name, b) # theirs.name
        /\ Append(offer.name, b) = Append(theirs.name, hardware[o].backend) =>
              offer.name = theirs.name /\ b = hardware[o].backend
    BY <2>5, <2>6, NamesApart
  <2>8. Append(offer.name, b) = Append(theirs.name, hardware[o].backend)
    BY <2>1, <2>3, <2>4, <2>7, Zenon
  <2>9. offer.name = theirs.name /\ b = hardware[o].backend
    BY <2>7, <2>8, Zenon
  <2>10. /\ theirs = offered[b][hardware[o].local]
         /\ hardware[o].local \in DOMAIN offered[b]
    BY <1>12, <2>9 DEF theirs
  <2>11. hardware[o].local = local
    <3>1. OfferOf(offered[b])
      BY <1>1 DEF RegistryInv, OfferedInv
    <3>. QED
      BY <1>13, <2>5, <2>9, <2>10, <3>1 DEF OfferOf
  <2>. QED
    BY <1>8, <2>9, <2>11
<1>18. Registry!NamesDiffer'
  <2>1. ASSUME NEW h \in DOMAIN hardware', NEW o \in 1 .. h - 1,
               hardware'[o].type = hardware'[h].type
        PROVE  hardware'[o].name # hardware'[h].name
    <3>1. o \in DOMAIN hardware /\ hardware'[o] = hardware[o]
      BY <1>3, <1>5
    <3>2. CASE h \in DOMAIN hardware
      BY <1>5, <2>1, <3>1, <3>2 DEF RegistryInv, HardwareInv, Registry!NamesDiffer
    <3>3. CASE h \notin DOMAIN hardware
      <4>1. hardware'[h] = entry
        BY <1>3, <1>5, <3>3
      <4>. QED
        BY <1>4, <1>17, <2>1, <3>1, <4>1
    <3>. QED
      BY <3>2, <3>3
  <2>. QED
    BY <2>1 DEF Registry!NamesDiffer
<1>19. \A h \in DOMAIN hardware' : hardware'[h].backend \in FallbackOnly =>
         \A o \in 1 .. h - 1 :
            hardware'[o].type = hardware'[h].type => hardware'[o].backend = hardware'[h].backend
  <2>1. ASSUME NEW h \in DOMAIN hardware', hardware'[h].backend \in FallbackOnly,
               NEW o \in 1 .. h - 1, hardware'[o].type = hardware'[h].type
        PROVE  hardware'[o].backend = hardware'[h].backend
    <3>1. o \in DOMAIN hardware /\ hardware'[o] = hardware[o]
      BY <1>3, <1>5
    <3>2. CASE h \in DOMAIN hardware
      BY <1>5, <2>1, <3>1, <3>2 DEF RegistryInv, HardwareInv
    <3>3. CASE h \notin DOMAIN hardware
      <4>1. hardware'[h] = entry
        BY <1>3, <1>5, <3>3
      <4>2. offer.type \notin provided
        BY <1>4, <2>1, <4>1 DEF Registry!SkippedFallback, offer, b
      <4>3. PICK i \in 1 .. turn : loaded[i] = hardware[o].backend
        BY <1>10, <3>1
      <4>4. hardware[o].type = offer.type
        BY <1>4, <2>1, <3>1, <4>1
      <4>5. ~(i \in 1 .. turn - 1)
        BY <3>1, <4>2, <4>3, <4>4 DEF RegistryInv, TurnInv
      <4>6. i = turn
        BY <1>1, <4>5
      <4>. QED
        BY <1>4, <3>1, <4>1, <4>3, <4>6 DEF b
    <3>. QED
      BY <3>2, <3>3
  <2>. QED
    BY <2>1
<1>20. HardwareInv'
  <2>1. ASSUME NEW h \in DOMAIN hardware'
        PROVE  /\ hardware'[h].backend \in Registry!Backends
               /\ \E i \in DOMAIN loaded' : loaded'[i] = hardware'[h].backend
               /\ hardware'[h].name \in
                     {offered'[hardware'[h].backend][hardware'[h].local].name,
                      Append(offered'[hardware'[h].backend][hardware'[h].local].name,
                             hardware'[h].backend)}
    <3>1. CASE h \in DOMAIN hardware
      <4>1. hardware'[h] = hardware[h]
        BY <1>5, <3>1
      <4>2. /\ hardware[h].backend \in Registry!Backends
            /\ \E i \in DOMAIN loaded : loaded[i] = hardware[h].backend
            /\ hardware[h].name \in
                  {offered[hardware[h].backend][hardware[h].local].name,
                   Append(offered[hardware[h].backend][hardware[h].local].name,
                          hardware[h].backend)}
        BY <3>1, Zenon DEF RegistryInv, HardwareInv
      <4>. QED
        BY <1>11, <4>1, <4>2, Zenon
    <3>2. CASE h \notin DOMAIN hardware
      <4>1. hardware'[h] = entry
        BY <1>3, <1>5, <3>2
      <4>2. loaded[turn] = b
        BY DEF b
      <4>3. /\ hardware'[h].backend = b /\ hardware'[h].local = local /\ hardware'[h].name = name
        BY <1>4, <4>1
      <4>4. name \in {offered[b][local].name, Append(offered[b][local].name, b)}
        BY <1>7, <1>13, Zenon
      <4>. QED
        BY <1>1, <1>11, <4>2, <4>3, <4>4, Zenon
    <3>. QED
      BY <3>1, <3>2
  <2>2. Registry!CompositesFollow'
    BY <1>3, EmptyIsList DEF Registry!CompositesFollow
  <2>3. /\ IsList(hardware') /\ IsList(composites')
        /\ next' = Len(hardware') + Len(composites') + 1
    BY <1>2, <1>3, <1>5, EmptyIsList
  <2>4. DOMAIN toGlobal' = Registry!Backends
    BY <1>6
  <2>. QED
    BY <1>14, <1>15, <1>18, <1>19, <2>1, <2>2, <2>3, <2>4, Zenon DEF HardwareInv
<1>21. TurnInv'
  <2>1. \A i, l : Passed(i, l)' <=> Passed(i, l) \/ (i = turn /\ l = local)
    BY <1>2 DEF Passed
  <2>2. \A c, l : LeftOut(c, l) => LeftOut(c, l)'
    <3>1. ASSUME NEW c, NEW l, LeftOut(c, l) PROVE LeftOut(c, l)'
      <4>1. CASE Registry!Invalid(offered[c][l])
        BY <1>11, <4>1 DEF LeftOut, Registry!Invalid
      <4>2. CASE c \in FallbackOnly /\ \E h \in DOMAIN hardware :
                    hardware[h].type = offered[c][l].type /\ hardware[h].backend # c
        <5>1. PICK h \in DOMAIN hardware :
                hardware[h].type = offered[c][l].type /\ hardware[h].backend # c
          BY <4>2
        <5>2. h \in DOMAIN hardware' /\ hardware'[h] = hardware[h]
          BY <1>3, <1>5
        <5>. QED
          BY <1>11, <4>2, <5>1, <5>2 DEF LeftOut
      <4>. QED
        BY <3>1, <4>1, <4>2 DEF LeftOut
    <3>. QED
      BY <3>1
  <2>3. ASSUME NEW i \in DOMAIN loaded', NEW h \in DOMAIN hardware',
               loaded'[i] = hardware'[h].backend
        PROVE  Passed(i, hardware[h].local)'
    <3>1. CASE h \in DOMAIN hardware
      <4>1. Passed(i, hardware[h].local)
        BY <1>5, <1>11, <2>3, <3>1 DEF RegistryInv, TurnInv
      <4>2. Passed(i, hardware[h].local) => i < turn \/ (i = turn /\ hardware[h].local \in handled)
        BY DEF Passed
      <4>. QED
        BY <1>2, <1>5, <1>11, <3>1, <4>1, <4>2 DEF Passed
    <3>2. CASE h \notin DOMAIN hardware
      <4>1. hardware'[h] = entry
        BY <1>3, <1>5, <3>2
      <4>2. loaded[i] = loaded[turn] /\ i \in DOMAIN loaded
        BY <1>4, <1>11, <2>3, <4>1 DEF b
      <4>3. i = turn
        BY <1>1, <4>2 DEF RegistryInv, LoadedInv
      <4>. QED
        BY <1>2, <1>4, <1>11, <4>1, <4>3 DEF Passed
    <3>. QED
      BY <3>1, <3>2
  <2>4. ASSUME NEW i \in DOMAIN loaded', NEW l \in DOMAIN offered'[loaded'[i]], Passed(i, l)'
        PROVE  l \in DOMAIN toGlobal'[loaded'[i]] \/ LeftOut(loaded[i], l)'
    <3>1. CASE Passed(i, l)
      <4>1. l \in DOMAIN toGlobal[loaded[i]] \/ LeftOut(loaded[i], l)
        BY <1>11, <3>1 DEF RegistryInv, TurnInv
      <4>2. loaded[i] \in Registry!Backends
        BY <1>11, LoadedIs
      <4>3. DOMAIN toGlobal[loaded[i]] \subseteq DOMAIN toGlobal'[loaded[i]]
        BY <1>6, <4>2
      <4>. QED
        BY <1>11, <2>2, <4>1, <4>3
    <3>2. CASE i = turn /\ l = local
      BY <1>6, <1>11, <3>2 DEF b
    <3>. QED
      BY <2>1, <2>4, <3>1, <3>2
  <2>5. \A l \in handled', o \in DOMAIN offered'[loaded'[turn']] \ handled' : Registry!Before(l, o)
    <3>1. \A l \in handled, o \in DOMAIN offered[loaded[turn]] \ handled : Registry!Before(l, o)
      BY DEF RegistryInv, TurnInv
    <3>. QED
      BY <1>2, <1>11, <3>1
  <2>6. handled' \subseteq DOMAIN offered'[loaded'[turn']]
    BY <1>1, <1>2, <1>11, <1>13 DEF b
  <2>7. turn' \in 1 .. Len(loaded') + 1 /\ turn' # Len(loaded') + 1 /\ turn' <= Len(loaded')
    BY <1>1, <1>11, LoadedIs
  <2>8. used' = {<<hardware'[h].type, hardware'[h].name>> : h \in DOMAIN hardware'}
    <3>1. \A h : h \in DOMAIN hardware' <=> h \in DOMAIN hardware \/ h = n
      BY <1>3, <1>5
    <3>2. n \notin DOMAIN hardware
      BY <1>3, <1>5
    <3>3. {<<hardware'[h].type, hardware'[h].name>> : h \in DOMAIN hardware'}
          = {<<hardware[h].type, hardware[h].name>> : h \in DOMAIN hardware}
            \cup {<<entry.type, entry.name>>}
      BY <1>5, <3>1, <3>2
    <3>. QED
      BY <1>2, <1>4, <1>16, <3>3
  <2>9. ASSUME NEW t
        PROVE  t \in provided' <=> \E h \in DOMAIN hardware', i \in 1 .. turn' - 1 :
                  hardware'[h].type = t /\ loaded'[i] = hardware'[h].backend
    <3>1. t \in provided <=> \E h \in DOMAIN hardware, i \in 1 .. turn - 1 :
             hardware[h].type = t /\ loaded[i] = hardware[h].backend
      BY DEF RegistryInv, TurnInv
    <3>2. \A h : h \in DOMAIN hardware' <=> h \in DOMAIN hardware \/ h = n
      BY <1>3, <1>5
    <3>3. \A i \in 1 .. turn - 1 : loaded[i] # b
      BY <1>1, LoadedIs DEF RegistryInv, LoadedInv, b
    <3>. QED
      BY <1>4, <1>5, <1>11, <3>1, <3>2, <3>3
  <2>10. \A t \in own' : \E h \in DOMAIN hardware' :
           turn' <= Len(loaded') /\ hardware'[h].type = t /\ loaded'[turn'] = hardware'[h].backend
    <3>1. \A t \in own : \E h \in DOMAIN hardware :
            hardware[h].type = t /\ loaded[turn] = hardware[h].backend
      BY DEF RegistryInv, TurnInv
    <3>2. \A h : h \in DOMAIN hardware' <=> h \in DOMAIN hardware \/ h = n
      BY <1>3, <1>5
    <3>3. loaded[turn] = b
      BY DEF b
    <3>. QED
      BY <1>2, <1>4, <1>5, <1>11, <2>7, <3>1, <3>2, <3>3
  <2>11. \A h \in DOMAIN hardware' :
           hardware'[h].backend = loaded'[turn'] => hardware'[h].type \in own'
    <3>1. \A h \in DOMAIN hardware : hardware[h].backend = loaded[turn] => hardware[h].type \in own
      BY DEF RegistryInv, TurnInv
    <3>2. \A h : h \in DOMAIN hardware' <=> h \in DOMAIN hardware \/ h = n
      BY <1>3, <1>5
    <3>. QED
      BY <1>2, <1>4, <1>5, <1>11, <3>1, <3>2
  <2>. QED
    BY <2>3, <2>4, <2>5, <2>6, <2>7, <2>8, <2>9, <2>10, <2>11 DEF TurnInv
<1>22. PhaseInv'
  BY <1>3 DEF RegistryInv, PhaseInv, Kept
<1>. QED
  BY <1>20, <1>21, <1>22, KeptInv DEF RegistryInv, FilledInv

LEMMA RegisterKeeps == RegistryInv /\ Registry!RegisterHardwareSensors => RegistryInv'
<1>. SUFFICES ASSUME RegistryInv, Registry!RegisterHardwareSensors PROVE RegistryInv'
  OBVIOUS
<1>1. Kept /\ phase = "register"
  BY DEF Registry!RegisterHardwareSensors, Kept
<1>2. ASSUME turn <= Len(loaded), phase' = "register",
             NEW local \in DOMAIN offered[loaded[turn]] \ handled,
             \A o \in (DOMAIN offered[loaded[turn]] \ handled) \ {local} : Registry!Before(local, o),
             Registry!RegisterOne(loaded[turn], local)
      PROVE  RegistryInv'
  <2>1. CASE \/ Registry!SkippedFallback(loaded[turn], offered[loaded[turn]][local].type)
             \/ Registry!Invalid(offered[loaded[turn]][local])
    <3>1. /\ handled' = handled \cup {local}
          /\ UNCHANGED <<turn, hardware, toGlobal, next, provided, own, used>>
      BY <1>2, <2>1 DEF Registry!RegisterOne, Registry!found
    <3>. QED
      BY <1>1, <1>2, <2>1, <3>1, SkipKeeps
  <2>2. CASE /\ ~Registry!SkippedFallback(loaded[turn], offered[loaded[turn]][local].type)
             /\ ~Registry!Invalid(offered[loaded[turn]][local])
    BY <1>1, <1>2, <2>2, RegisteredKeeps
  <2>. QED
    BY <2>1, <2>2
<1>3. ASSUME turn <= Len(loaded), phase' = "register",
             DOMAIN offered[loaded[turn]] \ handled = {}, Registry!RegisterBackend
      PROVE  RegistryInv'
  BY <1>1, <1>3, BackendKeeps
<1>4. ASSUME turn > Len(loaded), phase' = "decide", provided' = {}, used' = {},
             UNCHANGED <<turn, hardware, toGlobal, next, handled, own>>
      PROVE  RegistryInv'
  BY <1>1, <1>4, LoopEnds
<1>. QED
  BY <1>2, <1>3, <1>4 DEF Registry!RegisterHardwareSensors, Registry!found

LEMMA RegistryInvNext == RegistryInv /\ [MCNext]_all => RegistryInv'
<1>. SUFFICES ASSUME RegistryInv, [MCNext]_all PROVE RegistryInv'
  OBVIOUS
<1>1. CASE UNCHANGED registry
  <2>1. UNCHANGED <<list, loaded, initialized, offered, hardware, toGlobal, next,
                    handled, provided, own, used, composites>> /\ UNCHANGED <<phase, turn>>
    BY <1>1 DEF registry
  <2>. QED
    BY <2>1, ListUntouched
<1>2. CASE Registry!Settle \/ Registry!Appear
  <2>1. /\ UNCHANGED <<list, loaded, initialized, offered, hardware, toGlobal, next,
                       handled, provided, own, used, composites>>
        /\ \/ UNCHANGED <<phase, turn>>
           \/ phase = "decide" /\ phase' = "composites"
    BY <1>2 DEF Registry!Settle, Registry!Appear, Registry!found, Registry!books
  <2>. QED
    BY <2>1, ListUntouched
<1>3. Registry!Next \/ UNCHANGED registry
  BY DEF MCNext, all, DeviceStep, RatesStep, SensorStep, ValuesStep, InputStep, MockStep,
         RegistryStep, OrientationStep, ConfigStep
<1>. QED
  BY <1>1, <1>2, <1>3, LoadKeeps, InitializeKeeps, RegisterKeeps, RetryKeeps, CompositesKeep
     DEF Registry!Next

\* The list of sensors the framework is given is sound, whatever backends are
\* listed, whichever of them are there and initialize, and whenever nodes
\* appear: handles in the order of the backends, names that differ, fallbacks
\* that fill what is missing, composites with their inputs
\* (SensorManager::Initialize, RegisterHardwareSensors, RegisterComposites).
THEOREM ListIsSoundAlways == MCSpec => []ListIsSound
<1>1. MCInit => RegistryInv
  BY RegistryInvInit DEF MCInit
<1>2. RegistryInv => ListIsSound
  BY DEF RegistryInv, HardwareInv, FilledInv, ListIsSound, Registry!ListIsSound
<1>. QED
  BY <1>1, <1>2, RegistryInvNext, PTL DEF MCSpec

-----------------------------------------------------------------------------
(* Induction: sets of naturals have a least element, and what is defined   *)
(* step by step exists.                                                    *)

\* Finite sets are well-founded by inclusion.
LEMMA SmallestFiniteSet ==
    ASSUME NEW U, NEW T, T \subseteq FiniteSubsetsOf(U), T # {}
    PROVE  \E t \in T : \A u \in T : u \subseteq t => u = t
<1>1. IsWellFoundedOn(StrictSubsetOrdering(U), FiniteSubsetsOf(U))
  BY FS_StrictSubsetOrderingWellFounded
<1>2. PICK t \in T : \A u \in T : ~ (<<u, t>> \in StrictSubsetOrdering(U))
  BY <1>1, WFMin
<1>3. ASSUME NEW u \in T, u \subseteq t PROVE u = t
  <2>1. u \in SUBSET U /\ t \in SUBSET U
    BY DEF FiniteSubsetsOf
  <2> QED BY <1>2, <1>3, <2>1 DEF StrictSubsetOrdering
<1> QED BY <1>3

\* The intervals up to the members of a set of naturals have a smallest one.
LEMMA LeastNatural ==
    ASSUME NEW S \in SUBSET Nat, S # {}
    PROVE  \E n \in S : \A m \in S : n <= m
<1> DEFINE T == {0 .. n : n \in S}
<1>1. ASSUME NEW n \in S PROVE 0 .. n \in FiniteSubsetsOf(Nat)
  <2>1. n \in Nat /\ n \in Int /\ 0 \in Int
    OBVIOUS
  <2>2. IsFiniteSet(0 .. n)
    BY <2>1, FS_Interval
  <2> QED BY <2>1, <2>2 DEF FiniteSubsetsOf
<1>2. T \subseteq FiniteSubsetsOf(Nat) /\ T # {}
  BY <1>1
<1> HIDE DEF T
<1>3. PICK t \in T : \A u \in T : u \subseteq t => u = t
  BY <1>2, SmallestFiniteSet
<1> USE DEF T
<1>4. PICK n \in S : t = 0 .. n
  OBVIOUS
<1>5. ASSUME NEW m \in S, m < n PROVE FALSE
  <2>1. 0 .. m \in T /\ 0 .. m \subseteq t
    BY <1>4, <1>5
  <2>2. 0 .. m = 0 .. n
    BY <2>1, <1>3, <1>4
  <2> QED BY <2>2, <1>5
<1>6. \A m \in S : n <= m
  BY <1>5
<1> QED BY <1>6

\* What takes n steps, each a function of the state before it.
Steps(f, n, St, st, step) ==
    /\ f \in [0 .. n -> St]
    /\ f[0] = st
    /\ \A i \in 1 .. n : f[i] = step[i][f[i - 1]]

HasSteps(n, St, st, step) == \E f : Steps(f, n, St, st, step)

\* The first step that could not be taken could be taken.
LEMMA StepsExist ==
    ASSUME NEW n \in Nat, NEW St, NEW st \in St, NEW step \in [1 .. n -> [St -> St]]
    PROVE  HasSteps(n, St, st, step)
<1> DEFINE Bad == {k \in 0 .. n : ~ HasSteps(k, St, st, step)}
<1>1. SUFFICES ASSUME n \in Bad PROVE FALSE
  OBVIOUS
<1>2. PICK k \in Bad : \A m \in Bad : k <= m
  <2>1. Bad \in SUBSET Nat /\ Bad # {}
    BY <1>1
  <2> HIDE DEF Bad
  <2> QED BY <2>1, LeastNatural
<1>3. k # 0
  <2>1. Steps([i \in 0 .. 0 |-> st], 0, St, st, step)
    BY DEF Steps
  <2> QED BY <2>1, <1>2 DEF HasSteps
<1>4. k \in 1 .. n /\ k - 1 \in 0 .. n /\ k - 1 \notin Bad
  BY <1>2, <1>3
<1>5. PICK f : Steps(f, k - 1, St, st, step)
  BY <1>4 DEF HasSteps
<1> DEFINE g == [i \in 0 .. k |-> IF i = k THEN step[k][f[k - 1]] ELSE f[i]]
<1>6. Steps(g, k, St, st, step)
  <2>1. f \in [0 .. k - 1 -> St] /\ f[0] = st /\ \A i \in 1 .. k - 1 : f[i] = step[i][f[i - 1]]
    BY <1>5 DEF Steps
  <2>2. step[k] \in [St -> St] /\ f[k - 1] \in St
    BY <1>4, <2>1
  <2>3. g \in [0 .. k -> St]
    BY <1>4, <2>1, <2>2
  <2>4. g[0] = st
    BY <1>4, <2>1
  <2>5. ASSUME NEW i \in 1 .. k PROVE g[i] = step[i][g[i - 1]]
    <3>1. CASE i = k
      BY <1>4, <3>1
    <3>2. CASE i # k
      <4>1. i \in 1 .. k - 1 /\ i - 1 \in 0 .. k /\ i \in 0 .. k /\ i - 1 # k
        BY <1>4, <3>2
      <4>2. g[i] = f[i] /\ g[i - 1] = f[i - 1]
        BY <4>1, <3>2
      <4> QED BY <2>1, <4>1, <4>2
    <3> QED BY <3>1, <3>2
  <2> HIDE DEF g
  <2> QED BY <2>3, <2>4, <2>5 DEF Steps
<1> QED BY <1>6, <1>2 DEF HasSteps

-----------------------------------------------------------------------------
(* The sampling rates of an IIO device.                                    *)

\* Every list of numbers can be sorted: its first k numbers for every k.
SortsFirst(o, k, content) ==
    /\ o \in [1 .. k -> 1 .. k]
    /\ \A m \in 1 .. k : \E i \in 1 .. k : o[i] = m
    /\ \A i, j \in 1 .. k : i < j => content[o[i]] <= content[o[j]]

Sortable(k, content) == \E o : SortsFirst(o, k, content)

\* The next number goes in front of the first greater one.
LEMMA SortableGrows ==
    ASSUME NEW content \in Seq(Nat), NEW k \in Nat, k + 1 \in 1 .. Len(content),
           Sortable(k, content)
    PROVE  Sortable(k + 1, content)
<1>1. PICK o : SortsFirst(o, k, content)
  BY DEF Sortable
<1>2. /\ o \in [1 .. k -> 1 .. k]
      /\ \A m \in 1 .. k : \E i \in 1 .. k : o[i] = m
      /\ \A i, j \in 1 .. k : i < j => content[o[i]] <= content[o[j]]
  BY <1>1 DEF SortsFirst
<1>3. \A i \in 1 .. k + 1 : content[i] \in Nat
  OBVIOUS
<1> DEFINE x == content[k + 1]
           Greater == {i \in 1 .. k : x < content[o[i]]} \cup {k + 1}
<1>4. PICK c \in Greater : \A m \in Greater : c <= m
  <2>1. Greater \in SUBSET Nat /\ Greater # {}
    OBVIOUS
  <2> HIDE DEF Greater
  <2> QED BY <2>1, LeastNatural
<1>5. c \in 1 .. k + 1
  BY <1>4
<1>6. \A i \in 1 .. k : i < c => content[o[i]] <= x
  <2>1. ASSUME NEW i \in 1 .. k PROVE content[o[i]] \in Nat
    <3>1. o[i] \in 1 .. k + 1
      BY <1>2
    <3> QED BY <3>1, <1>3
  <2>2. ASSUME NEW i \in 1 .. k, i < c PROVE ~ (x < content[o[i]])
    <3>1. SUFFICES ASSUME x < content[o[i]] PROVE FALSE
      OBVIOUS
    <3>2. i \in Greater
      BY <3>1
    <3> HIDE DEF x, Greater
    <3>3. c <= i
      BY <1>4, <3>2
    <3> QED BY <3>3, <2>2, <1>5
  <2> QED BY <2>1, <2>2, <1>3
<1>7. \A i \in 1 .. k : c <= i => x <= content[o[i]]
  <2>1. SUFFICES ASSUME NEW i \in 1 .. k, c <= i PROVE x <= content[o[i]]
    OBVIOUS
  <2>2. c \in 1 .. k /\ x < content[o[c]]
    BY <1>4, <1>5, <2>1
  <2>3. content[o[c]] <= content[o[i]]
    <3>1. CASE c = i
      <4> HIDE DEF x, Greater
      <4>0. o[i] \in 1 .. k
        BY <1>2
      <4>1. o[i] \in 1 .. k + 1
        BY <4>0
      <4>2. content[o[i]] \in Nat
        BY <4>1, <1>3
      <4> QED BY <3>1, <4>2
    <3>2. CASE c # i
      <4>1. c \in 1 .. k /\ c < i
        BY <3>2, <2>1, <2>2
      <4> HIDE DEF x, Greater
      <4> QED BY <4>1, <1>2
    <3> QED BY <3>1, <3>2
  <2>4. o[c] \in 1 .. k /\ o[i] \in 1 .. k
    BY <1>2, <2>2
  <2>5. x \in Nat /\ content[o[c]] \in Nat /\ content[o[i]] \in Nat
    BY <1>3, <2>4
  <2> HIDE DEF x
  <2> QED BY <2>2, <2>3, <2>5
<1> DEFINE p == [i \in 1 .. k + 1 |-> IF i < c THEN o[i] ELSE IF i = c THEN k + 1 ELSE o[i - 1]]
<1>8. ASSUME NEW i \in 1 .. k + 1
      PROVE  /\ i < c => i \in 1 .. k /\ p[i] = o[i]
             /\ i = c => p[i] = k + 1
             /\ i > c => i - 1 \in 1 .. k /\ p[i] = o[i - 1]
  BY <1>5
<1>9. p \in [1 .. k + 1 -> 1 .. k + 1]
  <2>1. ASSUME NEW i \in 1 .. k + 1 PROVE p[i] \in 1 .. k + 1
    <3>1. i < c \/ i = c \/ i > c
      BY <1>5
    <3>2. \A h \in 1 .. k : o[h] \in 1 .. k + 1
      BY <1>2
    <3> HIDE DEF p
    <3>3. k + 1 \in 1 .. k + 1
      OBVIOUS
    <3> QED BY <3>1, <3>2, <3>3, <1>8
  <2> QED BY <2>1
<1>10. ASSUME NEW m \in 1 .. k + 1 PROVE \E i \in 1 .. k + 1 : p[i] = m
  <2>1. CASE m = k + 1
    BY <2>1, <1>5
  <2>2. CASE m # k + 1
    <3>1. PICK i \in 1 .. k : o[i] = m
      BY <2>2, <1>2
    <3>2. CASE i < c
      BY <3>1, <3>2
    <3>3. CASE ~ (i < c)
      <4>1. i + 1 \in 1 .. k + 1 /\ i + 1 > c /\ (i + 1) - 1 = i
        BY <3>1, <3>3, <1>5
      <4> HIDE DEF p
      <4> QED BY <4>1, <3>1, <1>8
    <3> QED BY <3>2, <3>3
  <2> QED BY <2>1, <2>2
<1>11. ASSUME NEW i \in 1 .. k + 1, NEW j \in 1 .. k + 1, i < j
       PROVE  content[p[i]] <= content[p[j]]
  <2>1. x \in Nat /\ x = content[k + 1]
    BY <1>3
  <2>2. c \in Int
    BY <1>5
  <2> HIDE DEF p, x
  <2>3. CASE j < c
    <3>1. i \in 1 .. k /\ j \in 1 .. k /\ p[i] = o[i] /\ p[j] = o[j]
      BY <2>2, <2>3, <1>11, <1>8
    <3> QED BY <3>1, <1>2, <1>11
  <2>4. CASE j = c
    BY <2>1, <2>2, <2>4, <1>11, <1>8, <1>6
  <2>5. CASE j > c /\ i = c
    <3>1. j - 1 \in 1 .. k /\ p[j] = o[j - 1] /\ c <= j - 1 /\ p[i] = k + 1
      BY <2>2, <2>5, <1>8
    <3> QED BY <3>1, <2>1, <1>7
  <2>6. CASE j > c /\ i > c
    <3>1. i - 1 \in 1 .. k /\ j - 1 \in 1 .. k /\ p[i] = o[i - 1] /\ p[j] = o[j - 1] /\ i - 1 < j - 1
      BY <2>2, <2>6, <1>11, <1>8
    <3> QED BY <3>1, <1>2
  <2>7. CASE j > c /\ i < c
    <3>1. j - 1 \in 1 .. k /\ p[j] = o[j - 1] /\ i \in 1 .. k /\ p[i] = o[i] /\ i < j - 1
      BY <2>2, <2>7, <1>8
    <3> QED BY <3>1, <1>2
  <2> QED BY <2>2, <2>3, <2>4, <2>5, <2>6, <2>7
<1> HIDE DEF p
<1>12. SortsFirst(p, k + 1, content)
  BY <1>9, <1>10, <1>11 DEF SortsFirst
<1> QED BY <1>12 DEF Sortable

\* What std::sort() promises can be had of every list.
LEMMA SortingExists ==
    ASSUME NEW content \in Seq(Nat)
    PROVE  \E o \in [DOMAIN content -> DOMAIN content] : Rates!Sorting(content, o)
<1> DEFINE Bad == {k \in 0 .. Len(content) : ~ Sortable(k, content)}
<1>1. Len(content) \in Nat /\ DOMAIN content = 1 .. Len(content)
  OBVIOUS
<1>2. Bad = {}
  <2>1. SUFFICES ASSUME Bad # {} PROVE FALSE
    OBVIOUS
  <2>2. PICK k \in Bad : \A m \in Bad : k <= m
    <3>1. Bad \in SUBSET Nat
      BY <1>1
    <3> HIDE DEF Bad
    <3> QED BY <2>1, <3>1, LeastNatural
  <2>3. k # 0
    <3>1. SortsFirst([i \in 1 .. 0 |-> i], 0, content)
      BY DEF SortsFirst
    <3> QED BY <3>1, <2>2 DEF Sortable
  <2>4. k - 1 \in 0 .. Len(content) /\ k - 1 \notin Bad /\ k - 1 \in Nat /\ (k - 1) + 1 = k /\ k \in 1 .. Len(content)
    BY <2>2, <2>3, <1>1
  <2>5. Sortable(k - 1, content)
    BY <2>4
  <2>6. Sortable((k - 1) + 1, content)
    BY <2>4, <2>5, SortableGrows
  <2> QED BY <2>4, <2>6, <2>2
<1>3. Sortable(Len(content), content)
  BY <1>1, <1>2
<1>4. PICK o : SortsFirst(o, Len(content), content)
  BY <1>3 DEF Sortable
<1> QED BY <1>1, <1>4 DEF SortsFirst, Rates!Sorting

\* Min() finds it.
LEMMA RatesMin ==
    ASSUME NEW S \in SUBSET Nat, S # {}
    PROVE  Rates!Min(S) \in S /\ \A m \in S : Rates!Min(S) <= m
  BY LeastNatural DEF Rates!Min

\* The sorted list has the numbers of the file, in order.
LEMMA ListIsSorted ==
    ASSUME NEW content \in Seq(Nat), NEW l, l = Rates!ParseDoubleList(content)
    PROVE  /\ l \in Seq(Nat) /\ Len(l) = Len(content)
           /\ Rates!ToSet(l) = Rates!ToSet(content)
           /\ \A i, j \in 1 .. Len(l) : i < j => l[i] <= l[j]
<1> DEFINE D == DOMAIN content
           order == CHOOSE o \in [D -> D] : Rates!Sorting(content, o)
<1>1. D = 1 .. Len(content) /\ Len(content) \in Nat /\ \A i \in D : content[i] \in Nat
  OBVIOUS
<1>2. order \in [D -> D] /\ Rates!Sorting(content, order)
  BY SortingExists
<1>3. l = [i \in D |-> content[order[i]]]
  BY DEF Rates!ParseDoubleList
<1> HIDE DEF order, D
<1>4. /\ \A k \in D : \E i \in D : order[i] = k
      /\ \A i, j \in D : i < j => content[order[i]] <= content[order[j]]
  BY <1>2 DEF Rates!Sorting, D
<1>5. \A i \in D : order[i] \in D /\ l[i] = content[order[i]] /\ l[i] \in Nat
  BY <1>1, <1>2, <1>3
<1>6. l \in [1 .. Len(content) -> Nat]
  BY <1>1, <1>3, <1>5
<1>7. l \in Seq(Nat) /\ Len(l) = Len(content) /\ DOMAIN l = D
  BY <1>1, <1>6
<1>8. Rates!ToSet(l) = Rates!ToSet(content)
  <2>1. Rates!ToSet(l) = {l[i] : i \in D} /\ Rates!ToSet(content) = {content[i] : i \in D}
    BY <1>7 DEF Rates!ToSet, D
  <2>2. ASSUME NEW k \in D PROVE content[k] \in {l[i] : i \in D}
    <3>1. PICK i \in D : order[i] = k
      BY <1>4
    <3> QED BY <3>1, <1>5
  <2>3. ASSUME NEW i \in D PROVE l[i] \in {content[k] : k \in D}
    BY <1>5
  <2> QED BY <2>1, <2>2, <2>3
<1>9. ASSUME NEW i \in 1 .. Len(l), NEW j \in 1 .. Len(l), i < j PROVE l[i] <= l[j]
  <2>1. i \in D /\ j \in D
    BY <1>1, <1>7
  <2> QED BY <2>1, <1>9, <1>4, <1>5
<1> QED BY <1>7, <1>8, <1>9

\* Looking for the first frequency of the sorted list that is not slower finds
\* the slowest one that is fast enough.
FittingFor(hz) ==
    LET listed == Rates!ToSet(Listed)
        enough == {f \in listed : f >= hz}
    IN  IF enough = {} THEN Rates!Max(listed) ELSE Rates!Min(enough)

LEMMA RoundsToFitting ==
    ASSUME NEW hz
    PROVE  Rates!RoundFrequency(hz) = FittingFor(hz) /\ FittingFor(hz) \in Nat \ {0}
<1> DEFINE l == Rates!ParseDoubleList(Listed)
           fast == {i \in DOMAIN l : l[i] >= hz}
           listed == Rates!ToSet(Listed)
           enough == {f \in listed : f >= hz}
<1>1. Listed \in Seq(Nat) /\ Len(Listed) \in Nat \ {0} /\ listed \subseteq Nat \ {0}
  <2>1. Listed \in Seq(Nat \ {0}) /\ Listed # <<>>
    BY RatesAssumption
  <2> QED BY <2>1 DEF Rates!ToSet
<1>2. /\ l \in Seq(Nat) /\ Len(l) = Len(Listed)
      /\ Rates!ToSet(l) = listed
      /\ \A i, j \in 1 .. Len(l) : i < j => l[i] <= l[j]
  <2>1. \A x : x = l => /\ x \in Seq(Nat) /\ Len(x) = Len(Listed)
                        /\ Rates!ToSet(x) = Rates!ToSet(Listed)
                        /\ \A i, j \in 1 .. Len(x) : i < j => x[i] <= x[j]
    BY <1>1, ListIsSorted
  <2> QED BY <2>1
<1> HIDE DEF l
<1>3. DOMAIN l = 1 .. Len(l) /\ Len(l) \in Nat \ {0} /\ l # <<>>
  BY <1>1, <1>2
<1>4. listed = {l[i] : i \in 1 .. Len(l)}
  BY <1>2, <1>3 DEF Rates!ToSet
<1>5. Rates!RoundFrequency(hz) = IF fast # {} THEN l[Rates!Min(fast)] ELSE l[Len(l)]
  BY <1>3 DEF Rates!RoundFrequency, l
<1>6. \A i \in 1 .. Len(l) : l[i] \in Nat \ {0} /\ l[i] \in listed
  BY <1>1, <1>4
<1>7. FittingFor(hz) = IF enough = {} THEN Rates!Max(listed) ELSE Rates!Min(enough)
  BY DEF FittingFor
<1>8. CASE fast = {}
  <2>1. enough = {}
    BY <1>8, <1>3, <1>4
  <2>2. l[Len(l)] \in listed /\ \A y \in listed : l[Len(l)] >= y
    <3>1. Len(l) \in 1 .. Len(l)
      BY <1>3
    <3>2. ASSUME NEW i \in 1 .. Len(l) PROVE l[Len(l)] >= l[i]
      BY <3>1, <1>2, <1>3, <1>6
    <3> QED BY <3>1, <3>2, <1>4
  <2> HIDE DEF listed
  <2>3. Rates!Max(listed) \in listed /\ \A y \in listed : Rates!Max(listed) >= y
    BY <2>2 DEF Rates!Max
  <2>4. Rates!Max(listed) = l[Len(l)]
    <3>1. Rates!Max(listed) \in Nat /\ l[Len(l)] \in Nat
      BY <2>2, <2>3, <1>1 DEF listed
    <3>2. Rates!Max(listed) >= l[Len(l)] /\ l[Len(l)] >= Rates!Max(listed)
      BY <2>2, <2>3
    <3> QED BY <3>1, <3>2
  <2> QED BY <1>8, <2>1, <2>2, <2>4, <1>1, <1>5, <1>7
<1>9. CASE fast # {}
  <2>1. Rates!Min(fast) \in fast /\ \A m \in fast : Rates!Min(fast) <= m
    <3>1. fast \in SUBSET Nat
      BY <1>3
    <3> HIDE DEF fast
    <3> QED BY <3>1, <1>9, RatesMin
  <2> DEFINE x == l[Rates!Min(fast)]
  <2>2. x \in enough
    BY <2>1, <1>3, <1>6
  <2>3. ASSUME NEW y \in enough PROVE x <= y
    <3>1. PICK i \in 1 .. Len(l) : y = l[i]
      BY <1>4
    <3>2. i \in fast
      BY <3>1, <1>3
    <3>3. Rates!Min(fast) \in 1 .. Len(l) /\ (Rates!Min(fast) = i \/ Rates!Min(fast) < i)
      <4>1. fast \subseteq 1 .. Len(l)
        BY <1>3
      <4>. HIDE DEF fast
      <4>2. Rates!Min(fast) \in 1 .. Len(l) /\ Rates!Min(fast) <= i
        BY <2>1, <3>2, <4>1
      <4>. QED
        BY <4>2
    <3> HIDE DEF fast
    <3> QED BY <3>1, <3>3, <1>2, <1>6
  <2>4. enough \in SUBSET Nat /\ enough # {}
    BY <1>1, <2>2
  <2> HIDE DEF x, enough
  <2>5. Rates!Min(enough) \in enough /\ \A m \in enough : Rates!Min(enough) <= m
    BY <2>4, RatesMin
  <2>6. Rates!Min(enough) = x
    <3>1. x \in Nat /\ Rates!Min(enough) \in Nat
      BY <2>2, <2>4, <2>5
    <3>2. x <= Rates!Min(enough) /\ Rates!Min(enough) <= x
      BY <2>2, <2>3, <2>5
    <3> QED BY <3>1, <3>2
  <2>7. x \in Nat \ {0}
    BY <2>2, <1>1 DEF enough
  <2> QED BY <1>9, <2>4, <2>6, <2>7, <1>5, <1>7 DEF x
<1> QED BY <1>8, <1>9

\* The part of the state that a pass works on.
Devices ==
    [written : [Rates!Attributes -> Nat], programmed : [Rates!Attributes -> Nat],
     refused : BOOLEAN, stray : SUBSET Rates!Attributes]

\* What is remembered of an attribute that is written on its own is its value.
Remembers(dev) ==
    \A a \in Rates!Attributes \ {"fifo"} : dev.written[a] # 0 => dev.programmed[a] = dev.written[a]

\* Unless a write was refused, sensor s has the rate v.
Serves(dev, s, v) ==
    ~dev.refused /\ Rates!Ruling(s) \in exists => dev.programmed[Rates!Ruling(s)] = v

\* A value changes to the new one or not at all, and refusals stay known.
WritesOnly(dev, was, v) ==
    /\ \A a \in Rates!Attributes : dev.programmed[a] \in {v, was.programmed[a]}
    /\ was.refused => dev.refused

\* The attributes for a type by name.
LEMMA PlacesAre ==
    ASSUME NEW type
    PROVE  /\ Rates!Places(type)[1] = type
           /\ Rates!Places(type)[2] = "device"
           /\ Rates!Places(type)[3] = "fifo"
  BY DEF Rates!Places

\* One call of WriteSamplingFrequency(): either the most specific attribute
\* had the value, and then the device has it, or it is the one that is written.
LEMMA WriteServes ==
    ASSUME exists \subseteq Rates!Attributes, NEW dev \in Devices, Remembers(dev),
           NEW s \in 1 .. SensorCount, NEW hz, NEW busy, NEW new,
           new = Rates!WriteSamplingFrequency(dev, TypeOf[s], hz, busy)
    PROVE  /\ new \in Devices /\ Remembers(new)
           /\ Serves(new, s, FittingFor(hz))
           /\ WritesOnly(new, dev, FittingFor(hz))
<1> DEFINE v == FittingFor(hz)
           type == TypeOf[s]
           P == Rates!Places(type)
           stale == {i \in Rates!Candidates(type) : dev.written[P[i]] # v}
           a == P[Rates!Min(stale)]
           mirrored == {a} \cup ({"fifo"} \cap exists)
           c == Rates!Ruling(s)
<1>1. v \in Nat \ {0} /\ Rates!RoundFrequency(hz) = v
  BY RoundsToFitting
<1>2. /\ type \in Rates!Attributes /\ type \notin {"device", "fifo"}
      /\ "device" \in Rates!Attributes /\ "fifo" \in Rates!Attributes
  BY RatesAssumption DEF Rates!Attributes, Rates!Types, Rates!Indices
<1>3. P[1] = type /\ P[2] = "device" /\ P[3] = "fifo"
  BY PlacesAre
<1>4. /\ dev.written \in [Rates!Attributes -> Nat] /\ dev.programmed \in [Rates!Attributes -> Nat]
      /\ dev.refused \in BOOLEAN /\ dev.stray \in SUBSET Rates!Attributes
  BY DEF Devices
<1>5. c = IF type \in exists THEN type ELSE "device"
  BY DEF Rates!Ruling
<1>6. \A i : i \in Rates!Candidates(type) <=> i \in 1 .. 3 /\ P[i] \in exists
  BY DEF Rates!Candidates
<1>7. new = IF stale = {} THEN dev
            ELSE [written |-> Rates!Remember(dev, a, v, busy),
                  programmed |-> [b \in Rates!Attributes |->
                                      IF b \in mirrored \ busy THEN v ELSE dev.programmed[b]],
                  refused |-> dev.refused \/ a \in busy,
                  stray |-> dev.stray \cup ({a} \ {P[Rates!Min(Rates!Candidates(type))]})]
  BY <1>1 DEF Rates!WriteSamplingFrequency
<1> HIDE DEF v, P, c
<1>8. CASE stale = {}
  <2>1. new = dev
    BY <1>7, <1>8
  <2>2. c \in exists => dev.programmed[c] = v
    <3>1. SUFFICES ASSUME c \in exists PROVE dev.programmed[c] = v
      OBVIOUS
    <3>2. c \in Rates!Attributes \ {"fifo"}
      BY <1>2, <1>5
    <3>3. \E i \in Rates!Candidates(type) : P[i] = c
      BY <1>3, <1>5, <1>6, <3>1
    <3>4. dev.written[c] = v
      BY <3>3, <1>8
    <3> QED BY <3>2, <3>4, <1>1 DEF Remembers
  <2> QED BY <2>1, <2>2 DEF Serves, WritesOnly, v, c
<1>9. CASE stale # {}
  <2>1. Rates!Min(stale) \in stale /\ \A m \in stale : Rates!Min(stale) <= m
    <3>1. stale \in SUBSET Nat
      BY <1>6
    <3> HIDE DEF stale
    <3> QED BY <3>1, <1>9, RatesMin
  <2>2. a \in exists /\ a \in Rates!Attributes /\ dev.written[a] # v
    BY <2>1, <1>6
  <2>3. ASSUME c \in exists PROVE a = c \/ dev.written[c] = v
    <3>1. SUFFICES ASSUME dev.written[c] # v PROVE a = c
      OBVIOUS
    <3>2. PICK i \in 1 .. 2 : P[i] = c /\ (i = 2 => 1 \notin Rates!Candidates(type))
      BY <1>3, <1>5, <1>6, <2>3
    <3>3. i \in stale
      BY <3>1, <3>2, <1>6, <2>3
    <3>4. Rates!Min(stale) \in 1 .. 3 /\ Rates!Min(stale) <= i /\ Rates!Min(stale) \in Rates!Candidates(type)
      BY <2>1, <3>3, <1>6
    <3>5. Rates!Min(stale) = i
      BY <3>2, <3>4
    <3> QED BY <3>2, <3>5
  <2> HIDE DEF a, type
  <2>4. /\ new.programmed = [b \in Rates!Attributes |->
                                IF b \in mirrored \ busy THEN v ELSE dev.programmed[b]]
        /\ new.written = IF a \in busy THEN dev.written ELSE [dev.written EXCEPT ![a] = v]
        /\ new.refused = (dev.refused \/ a \in busy)
    BY <1>7, <1>9 DEF Rates!Remember
  <2>5. new \in Devices
    <3>1. [b \in Rates!Attributes |-> IF b \in mirrored \ busy THEN v ELSE dev.programmed[b]]
              \in [Rates!Attributes -> Nat]
      BY <1>1, <1>4
    <3>2. Rates!Remember(dev, a, v, busy) \in [Rates!Attributes -> Nat]
      BY <1>1, <1>4 DEF Rates!Remember
    <3>3. dev.stray \cup ({a} \ {P[Rates!Min(Rates!Candidates(type))]}) \in SUBSET Rates!Attributes
      BY <1>4, <2>2
    <3> HIDE DEF mirrored
    <3> QED BY <3>1, <3>2, <3>3, <1>4, <1>7, <1>9 DEF Devices
  <2>6. \A b \in Rates!Attributes :
            new.programmed[b] = IF b \in mirrored \ busy THEN v ELSE dev.programmed[b]
    BY <2>4
  <2>7. Remembers(new)
    <3>1. SUFFICES ASSUME NEW b \in Rates!Attributes \ {"fifo"}, new.written[b] # 0
                   PROVE  new.programmed[b] = new.written[b]
      BY DEF Remembers
    <3>2. CASE b = a /\ a \notin busy
      BY <3>2, <2>4, <2>6, <1>4
    <3>3. CASE b # a \/ a \in busy
      <4>1. b \notin mirrored \ busy
        BY <3>3, <3>1
      <4>2. new.written[b] = dev.written[b]
        BY <3>3, <2>4, <1>4
      <4>3. dev.written[b] # 0 => dev.programmed[b] = dev.written[b]
        BY DEF Remembers
      <4> QED BY <4>1, <4>2, <4>3, <3>1, <2>6
    <3> QED BY <3>2, <3>3
  <2>8. ASSUME ~new.refused, c \in exists PROVE new.programmed[c] = v
    <3>1. c \in Rates!Attributes \ {"fifo"}
      BY <1>2, <1>5
    <3>2. CASE a = c
      BY <3>1, <3>2, <2>4, <2>6, <2>8
    <3>3. CASE dev.written[c] = v
      <4>1. dev.programmed[c] = v
        BY <3>1, <3>3, <1>1 DEF Remembers
      <4> QED BY <4>1, <3>1, <2>6
    <3> QED BY <3>2, <3>3, <2>3, <2>8
  <2>9. Serves(new, s, v)
    BY <2>8 DEF Serves, c
  <2>10. WritesOnly(new, dev, v)
    BY <2>4, <2>6 DEF WritesOnly
  <2> QED BY <2>5, <2>7, <2>9, <2>10 DEF v
<1> QED BY <1>8, <1>9

\* What a pass may start from.
GoodDevices == {dev \in Devices : Remembers(dev)}

\* A step of ApplyRatesLocked() for one sensor.
PassStep(dev, s, hz, asked, busy) ==
    IF Rates!FirstOfType(s, asked)
    THEN Rates!WriteSamplingFrequency(dev, TypeOf[s], hz, busy)
    ELSE dev

\* The two history variables do not matter for it.
LEMMA ClearedIsGood ==
    ASSUME NEW st \in GoodDevices
    PROVE  Rates!Cleared(st) \in GoodDevices /\ Rates!Cleared(st).refused = FALSE
<1>1. st.written \in [Rates!Attributes -> Nat] /\ st.programmed \in [Rates!Attributes -> Nat]
  BY DEF Devices, GoodDevices
<1>2. Rates!Cleared(st) \in Devices
  BY <1>1 DEF Devices, Rates!Cleared
<1>3. Remembers(st)
  BY DEF GoodDevices
<1> DEFINE d == Rates!Cleared(st)
<1>4. d.written = st.written /\ d.programmed = st.programmed /\ d.refused = FALSE /\ d \in Devices
  BY <1>2 DEF Rates!Cleared
<1> HIDE DEF d
<1>5. Remembers(d)
  BY <1>3, <1>4 DEF Remembers
<1>6. d \in GoodDevices
  BY <1>4, <1>5 DEF GoodDevices
<1> QED BY <1>4, <1>6 DEF d

\* A pass stays among them.
LEMMA StepStays ==
    ASSUME exists \subseteq Rates!Attributes, NEW dev \in GoodDevices,
           NEW s \in 1 .. SensorCount, NEW hz, NEW asked, NEW busy
    PROVE  PassStep(dev, s, hz, asked, busy) \in GoodDevices
<1>1. dev \in Devices /\ Remembers(dev)
  BY DEF GoodDevices
<1> DEFINE new == Rates!WriteSamplingFrequency(dev, TypeOf[s], hz, busy)
<1>2. \A x : x = new => x \in Devices /\ Remembers(x)
  BY <1>1, WriteServes
<1> HIDE DEF new
<1>3. new \in GoodDevices
  BY <1>2 DEF GoodDevices
<1> QED BY <1>3 DEF PassStep, new

\* The pass is what its definition says, sensor by sensor.
LEMMA PassIs ==
    ASSUME exists \subseteq Rates!Attributes, NEW st \in GoodDevices, NEW want, NEW asked, NEW busy,
           NEW hz, hz = Rates!DeviceRate(want, asked)
    PROVE  LET pass == Rates!Pass(st, want, asked, busy)
           IN  /\ \A s \in 0 .. SensorCount : pass[s] \in GoodDevices
               /\ pass[0] = Rates!Cleared(st)
               /\ \A s \in 1 .. SensorCount : pass[s] = PassStep(pass[s - 1], s, hz, asked, busy)
<1> DEFINE n == SensorCount
           Body(f) == [s \in 0 .. n |-> IF s = 0 THEN Rates!Cleared(st)
                                        ELSE PassStep(f[s - 1], s, hz, asked, busy)]
           step == [s \in 1 .. n |-> [dev \in GoodDevices |-> PassStep(dev, s, hz, asked, busy)]]
           pass == Rates!Pass(st, want, asked, busy)
<1>1. n \in Nat
  BY RatesAssumption
<1>2. pass = CHOOSE f : f = Body(f)
  BY DEF Rates!Pass, Rates!Cleared, PassStep
<1>3. PICK f : Steps(f, n, GoodDevices, Rates!Cleared(st), step)
  <2>1. Rates!Cleared(st) \in GoodDevices
    BY ClearedIsGood
  <2>2. step \in [1 .. n -> [GoodDevices -> GoodDevices]]
    BY StepStays
  <2> HIDE DEF step, n
  <2> QED BY <1>1, <2>1, <2>2, StepsExist DEF HasSteps
<1>4. /\ f \in [0 .. n -> GoodDevices] /\ f[0] = Rates!Cleared(st)
      /\ \A s \in 1 .. n : f[s] = PassStep(f[s - 1], s, hz, asked, busy)
  <2>1. /\ f \in [0 .. n -> GoodDevices] /\ f[0] = Rates!Cleared(st)
        /\ \A s \in 1 .. n : f[s] = step[s][f[s - 1]]
    BY <1>3 DEF Steps
  <2>2. ASSUME NEW s \in 1 .. n PROVE step[s][f[s - 1]] = PassStep(f[s - 1], s, hz, asked, busy)
    <3>1. f[s - 1] \in GoodDevices
      BY <1>1, <2>1
    <3> QED BY <3>1
  <2> HIDE DEF step, n
  <2> QED BY <2>1, <2>2
<1>5. f = Body(f)
  BY <1>1, <1>4
<1>6. pass = Body(pass)
  <2> HIDE DEF pass
  <2> QED BY <1>2, <1>5
<1> HIDE DEF pass
<1>7. pass[0] = Rates!Cleared(st) /\ \A s \in 1 .. n : pass[s] = PassStep(pass[s - 1], s, hz, asked, busy)
  BY <1>1, <1>6
<1>8. \A s \in 0 .. n : pass[s] \in GoodDevices
  <2> DEFINE Bad == {s \in 0 .. n : pass[s] \notin GoodDevices}
  <2>1. SUFFICES ASSUME Bad # {} PROVE FALSE
    OBVIOUS
  <2>2. PICK k \in Bad : \A m \in Bad : k <= m
    <3>1. Bad \in SUBSET Nat
      BY <1>1
    <3> HIDE DEF Bad
    <3> QED BY <2>1, <3>1, LeastNatural
  <2>3. k # 0
    BY <1>7, <2>2, ClearedIsGood
  <2>4. k \in 1 .. n /\ k - 1 \in 0 .. n /\ k - 1 \notin Bad
    BY <1>1, <2>2, <2>3
  <2>5. pass[k] = PassStep(pass[k - 1], k, hz, asked, busy) /\ pass[k - 1] \in GoodDevices
    BY <1>7, <2>4
  <2>6. pass[k] \in GoodDevices
    BY <2>4, <2>5, StepStays
  <2> QED BY <2>2, <2>6
<1> QED BY <1>7, <1>8 DEF pass

\* After the pass every sensor it asked for is served, unless a write was
\* refused: a type is written at its first sensor, and what later types write
\* is the same value.
LEMMA ApplyServes ==
    ASSUME exists \subseteq Rates!Attributes, NEW st \in GoodDevices, NEW want, NEW asked, NEW busy,
           asked \subseteq 1 .. SensorCount,
           NEW new, new = Rates!ApplyRates(st, want, asked, busy)
    PROVE  /\ new \in GoodDevices
           /\ \A s \in asked : Serves(new, s, FittingFor(Rates!DeviceRate(want, asked)))
<1> DEFINE n == SensorCount
           hz == Rates!DeviceRate(want, asked)
           v == FittingFor(hz)
           pass == Rates!Pass(st, want, asked, busy)
           Good(s) == \A t \in asked : t <= s => Serves(pass[s], t, v)
           Bad == {s \in 0 .. n : ~ Good(s)}
<1>1. n \in Nat /\ \A t \in asked : t \in 1 .. n
  BY RatesAssumption
<1>2. /\ \A s \in 0 .. n : pass[s] \in GoodDevices
      /\ \A s \in 1 .. n : pass[s] = PassStep(pass[s - 1], s, hz, asked, busy)
  BY PassIs
<1> HIDE DEF pass, hz
<1>3. ASSUME NEW s \in 1 .. n, Good(s - 1) PROVE Good(s)
  <2> DEFINE was == pass[s - 1]
             now0 == pass[s]
  <2>1. was \in GoodDevices /\ s - 1 \in 0 .. n /\ s \in 0 .. n
    BY <1>1, <1>2
  <2>2. now0 = PassStep(was, s, hz, asked, busy)
    BY <1>2
  <2>3. was \in Devices /\ Remembers(was)
    BY <2>1 DEF GoodDevices
  <2>4. \A t \in asked : t < s => Serves(was, t, v)
    BY <1>1, <1>3
  <2> HIDE DEF was, now0, v
  <2>5. CASE Rates!FirstOfType(s, asked)
    <3>1. now0 = Rates!WriteSamplingFrequency(was, TypeOf[s], hz, busy)
      BY <2>2, <2>5 DEF PassStep
    <3>2. Serves(now0, s, v) /\ WritesOnly(now0, was, v)
      BY <2>3, <3>1, WriteServes DEF v
    <3>3. ASSUME NEW t \in asked, t < s PROVE Serves(now0, t, v)
      <4>1. Serves(was, t, v)
        BY <2>4, <3>3
      <4>2. Rates!Ruling(t) \in exists => Rates!Ruling(t) \in Rates!Attributes
        OBVIOUS
      <4> QED BY <4>1, <4>2, <3>2 DEF Serves, WritesOnly
    <3>4. ASSUME NEW t \in asked, t <= s PROVE Serves(now0, t, v)
      BY <3>2, <3>3, <3>4, <1>1
    <3> QED BY <3>4 DEF now0
  <2>6. CASE ~ Rates!FirstOfType(s, asked)
    <3>1. now0 = was
      BY <2>2, <2>6 DEF PassStep
    <3>2. ASSUME s \in asked PROVE Serves(was, s, v)
      <4>1. PICK t \in asked : TypeOf[t] = TypeOf[s] /\ ~ (s <= t)
        BY <2>6, <3>2 DEF Rates!FirstOfType
      <4>2. t < s
        BY <4>1, <1>1
      <4>3. Serves(was, t, v)
        BY <2>4, <4>2
      <4> QED BY <4>1, <4>3 DEF Serves, Rates!Ruling
    <3>3. ASSUME NEW t \in asked, t <= s PROVE Serves(now0, t, v)
      BY <3>1, <3>2, <3>3, <2>4, <1>1
    <3> QED BY <3>3 DEF now0
  <2> QED BY <2>5, <2>6
<1>4. Good(0)
  BY <1>1
<1> HIDE DEF Good
<1>5. Bad = {}
  <2>1. SUFFICES ASSUME Bad # {} PROVE FALSE
    OBVIOUS
  <2>2. PICK k \in Bad : \A m \in Bad : k <= m
    <3>1. Bad \in SUBSET Nat
      BY <1>1
    <3> HIDE DEF Bad
    <3> QED BY <2>1, <3>1, LeastNatural
  <2>3. k \in 1 .. n /\ k - 1 \in 0 .. n /\ k - 1 \notin Bad
    BY <1>1, <1>4, <2>2
  <2> QED BY <1>3, <2>2, <2>3
<1>6. Good(n) /\ n \in 0 .. n
  BY <1>1, <1>5
<1>7. new = pass[n] /\ new \in GoodDevices
  BY <1>2, <1>6 DEF Rates!ApplyRates, pass
<1> QED BY <1>1, <1>6, <1>7 DEF Good, hz

-----------------------------------------------------------------------------
(* The invariant.                                                          *)

RatesTypes ==
    /\ exists \subseteq Rates!Attributes
    /\ rate \in [1 .. SensorCount -> Nat]
    /\ on \subseteq 1 .. SensorCount
    /\ written \in [Rates!Attributes -> Nat]
    /\ programmed \in [Rates!Attributes -> Nat]
    /\ refused \in BOOLEAN
    /\ stray \subseteq Rates!Attributes

\* While the buffer runs nothing else changes the attributes.
RatesInv ==
    /\ RatesTypes
    /\ path = "buffer" => Remembers(Rates!Device)
    /\ RateServesAll

\* The variables make such a device.
LEMMA DeviceType == RatesTypes => Rates!Device \in Devices
  BY DEF RatesTypes, Rates!Device, Devices

\* What a pass leaves.
LEMMA BecomesServes ==
    ASSUME exists \subseteq Rates!Attributes, exists' = exists, NEW st \in GoodDevices,
           NEW new, NEW busy, new = Rates!ApplyRates(st, rate', on', busy),
           rate' \in [1 .. SensorCount -> Nat], on' \subseteq 1 .. SensorCount,
           Rates!Becomes(new, rate', on')
    PROVE  RatesInv'
<1> DEFINE v == FittingFor(Rates!DeviceRate(rate', on'))
<1>1. new \in GoodDevices /\ \A s \in on' : Serves(new, s, v)
  BY ApplyServes
<1>2. new \in Devices /\ Remembers(new)
  BY <1>1 DEF GoodDevices
<1>3. /\ written' = new.written /\ programmed' = new.programmed
      /\ refused' = new.refused /\ stray' = new.stray
      /\ timer' = Rates!DeviceRate(rate', on')
  BY DEF Rates!Becomes
<1>4. RatesTypes'
  BY <1>2, <1>3 DEF RatesTypes, Devices
<1>5. Remembers(Rates!Device)'
  BY <1>2, <1>3 DEF Remembers, Rates!Device
<1>6. RateServesAll'
  <2>1. v = Rates!Fitting'
    BY DEF Rates!Fitting, FittingFor
  <2>2. ASSUME NEW s \in on', ~refused', Rates!Ruling(s)' \in exists' PROVE programmed'[Rates!Ruling(s)'] = v
    <3>1. Rates!Ruling(s)' = Rates!Ruling(s)
      BY DEF Rates!Ruling
    <3> QED BY <1>1, <1>3, <2>2, <3>1 DEF Serves
  <2> HIDE DEF v
  <2> QED BY <1>3, <2>1, <2>2 DEF RateServesAll, Rates!RateServesAll
<1> QED BY <1>4, <1>5, <1>6 DEF RatesInv

\* Nothing is active at first.
LEMMA RatesInvInit == Rates!Init => RatesInv
<1>. SUFFICES ASSUME Rates!Init PROVE RatesInv
  OBVIOUS
<1>1. /\ exists \in SUBSET Rates!Attributes /\ rate = [s \in 1 .. SensorCount |-> DefaultRate]
      /\ on = {} /\ path = "idle" /\ refused = FALSE /\ stray = {}
      /\ written = [a \in Rates!Attributes |-> 0]
      /\ programmed = [a \in Rates!Attributes |-> Listed[1]]
  BY DEF Rates!Init, Rates!Indices, Rates!Unwritten
<1>2. Listed[1] \in Nat
  BY RatesAssumption
<1>3. rate \in [1 .. SensorCount -> Nat]
  BY <1>1, RatesAssumption
<1>. QED
  BY <1>1, <1>2, <1>3 DEF RatesInv, RatesTypes, RateServesAll, Rates!RateServesAll

\* StartBufferLocked() may begin with any device: it forgets what it wrote.
LEMMA ForgottenIsGood ==
    RatesTypes => [Rates!Device EXCEPT !.written = Rates!Forgotten] \in GoodDevices
<1>. SUFFICES ASSUME RatesTypes PROVE [Rates!Device EXCEPT !.written = Rates!Forgotten] \in GoodDevices
  OBVIOUS
<1>. DEFINE d == [written |-> Rates!Forgotten, programmed |-> programmed, refused |-> refused, stray |-> stray]
<1>1. [Rates!Device EXCEPT !.written = Rates!Forgotten] = d
  BY DEF Rates!Device
<1>2. Rates!Forgotten = [a \in Rates!Attributes |-> 0]
  BY DEF Rates!Forgotten, Rates!Unwritten
<1>3. d \in Devices
  BY <1>2 DEF RatesTypes, Devices
<1>4. Remembers(d)
  BY <1>2 DEF Remembers
<1>. QED
  BY <1>1, <1>3, <1>4 DEF GoodDevices

\* While the buffer runs a pass may begin with what the last one left.
LEMMA DeviceIsGood == RatesInv /\ path = "buffer" => Rates!Device \in GoodDevices
  BY DeviceType DEF RatesInv, GoodDevices

\* Without the buffer nothing is promised.
LEMMA UnbufferedKeeps == RatesTypes' /\ path' # "buffer" => RatesInv'
  BY DEF RatesInv, RateServesAll, Rates!RateServesAll

\* Every call keeps the invariant.
LEMMA RatesInvStep == RatesInv /\ Rates!Next => RatesInv'
<1>. SUFFICES ASSUME RatesInv, Rates!Next PROVE RatesInv'
  OBVIOUS
<1>0. /\ RatesTypes /\ exists \subseteq Rates!Attributes
      /\ rate \in [1 .. SensorCount -> Nat] /\ on \subseteq 1 .. SensorCount
  BY DEF RatesInv, RatesTypes
<1>1. ASSUME NEW s \in 1 .. SensorCount, NEW busy, NEW later, Rates!StartBuffer(s, busy, later)
      PROVE  RatesInv'
  <2>. DEFINE from == [Rates!Device EXCEPT !.written = Rates!Forgotten]
              started == Rates!ApplyRates(from, rate, {s}, busy)
              running0 == Rates!ApplyRates(started, rate, {s}, later)
  <2>1. on' = {s} /\ rate' = rate /\ exists' = exists /\ Rates!Becomes(running0, rate, {s})
    BY <1>1 DEF Rates!StartBuffer
  <2>2. from \in GoodDevices
    BY <1>0, ForgottenIsGood
  <2>. HIDE DEF from
  <2>3. started \in GoodDevices
    BY <1>0, <2>2, ApplyServes
  <2>. HIDE DEF started
  <2>4. running0 = Rates!ApplyRates(started, rate', on', later) /\ Rates!Becomes(running0, rate', on')
    BY <2>1
  <2>. HIDE DEF running0
  <2>5. on' \subseteq 1 .. SensorCount /\ rate' \in [1 .. SensorCount -> Nat]
    BY <1>0, <2>1
  <2>. QED
    BY <1>0, <2>1, <2>3, <2>4, <2>5, BecomesServes
<1>2. ASSUME NEW s \in 1 .. SensorCount, NEW busy, Rates!StartBufferFails(s, busy)
      PROVE  RatesInv'
  <2>. DEFINE from == [Rates!Device EXCEPT !.written = Rates!Forgotten]
              tried == Rates!ApplyRates(from, rate, {s}, busy)
  <2>1. on' = {s} /\ rate' = rate /\ exists' = exists /\ Rates!Becomes(tried, rate, {s})
    BY <1>2 DEF Rates!StartBufferFails
  <2>2. from \in GoodDevices
    BY <1>0, ForgottenIsGood
  <2>. HIDE DEF from
  <2>3. tried = Rates!ApplyRates(from, rate', on', busy) /\ Rates!Becomes(tried, rate', on')
    BY <2>1
  <2>. HIDE DEF tried
  <2>4. on' \subseteq 1 .. SensorCount /\ rate' \in [1 .. SensorCount -> Nat]
    BY <1>0, <2>1
  <2>. QED
    BY <1>0, <2>1, <2>2, <2>3, <2>4, BecomesServes
<1>3. ASSUME NEW s \in 1 .. SensorCount, NEW busy, Rates!ActivateBuffered(s, busy)
      PROVE  RatesInv'
  <2>. DEFINE new == Rates!ApplyRates(Rates!Device, rate, on', busy)
  <2>1. on' = on \cup {s} /\ rate' = rate /\ exists' = exists /\ path = "buffer" /\ Rates!Becomes(new, rate, on')
    BY <1>3 DEF Rates!ActivateBuffered
  <2>2. Rates!Device \in GoodDevices
    BY <2>1, DeviceIsGood
  <2>3. new = Rates!ApplyRates(Rates!Device, rate', on', busy) /\ Rates!Becomes(new, rate', on')
    BY <2>1
  <2>. HIDE DEF new
  <2>4. on' \subseteq 1 .. SensorCount /\ rate' \in [1 .. SensorCount -> Nat]
    BY <1>0, <2>1
  <2>. QED
    BY <1>0, <2>1, <2>2, <2>3, <2>4, BecomesServes
<1>4. ASSUME NEW s \in 1 .. SensorCount, Rates!ActivatePolled(s) PROVE RatesInv'
  <2>1. RatesTypes' /\ path' # "buffer"
    BY <1>0, <1>4 DEF Rates!ActivatePolled, RatesTypes
  <2>. QED
    BY <2>1, UnbufferedKeeps
<1>5. ASSUME NEW s \in 1 .. SensorCount, NEW busy, Rates!Deactivate(s, busy) PROVE RatesInv'
  <2>. DEFINE new == Rates!ApplyRates(Rates!Device, rate, on', busy)
  <2>1. /\ on' = on \ {s} /\ rate' = rate /\ exists' = exists
        /\ path' = IF on' = {} THEN "idle" ELSE path
        /\ IF path' = "buffer" THEN Rates!Becomes(new, rate, on')
           ELSE UNCHANGED <<written, programmed, timer, refused, stray>>
    BY <1>5 DEF Rates!Deactivate
  <2>. HIDE DEF new
  <2>2. CASE path' = "buffer"
    <3>1. path = "buffer" /\ Rates!Becomes(new, rate, on')
      BY <2>1, <2>2
    <3>2. Rates!Device \in GoodDevices
      BY <3>1, DeviceIsGood
    <3>3. new = Rates!ApplyRates(Rates!Device, rate', on', busy) /\ Rates!Becomes(new, rate', on')
      BY <2>1, <3>1 DEF new
    <3>4. on' \subseteq 1 .. SensorCount /\ rate' \in [1 .. SensorCount -> Nat]
      BY <1>0, <2>1
    <3>. QED
      BY <1>0, <2>1, <3>2, <3>3, <3>4, BecomesServes
  <2>3. CASE path' # "buffer"
    <3>1. RatesTypes'
      BY <1>0, <2>1, <2>3 DEF RatesTypes
    <3>. QED
      BY <2>3, <3>1, UnbufferedKeeps
  <2>. QED
    BY <2>2, <2>3
<1>6. ASSUME NEW s \in 1 .. SensorCount, NEW busy, NEW hz \in Requests, Rates!SetPeriod(s, hz, busy)
      PROVE  RatesInv'
  <2>. DEFINE new == Rates!ApplyRates(Rates!Device, rate', on, busy)
  <2>1. /\ rate' = [rate EXCEPT ![s] = IF hz > 0 THEN hz ELSE DefaultRate]
        /\ on' = on /\ exists' = exists /\ path' = path
        /\ IF s \in on /\ path = "buffer" THEN Rates!Becomes(new, rate', on)
           ELSE UNCHANGED <<written, programmed, timer, refused, stray>>
    BY <1>6 DEF Rates!SetPeriod
  <2>2. (IF hz > 0 THEN hz ELSE DefaultRate) \in Nat
    BY RatesAssumption
  <2>3. rate' \in [1 .. SensorCount -> Nat] /\ on' \subseteq 1 .. SensorCount
    BY <1>0, <2>1, <2>2
  <2>. HIDE DEF new
  <2>4. CASE s \in on /\ path = "buffer"
    <3>1. Rates!Device \in GoodDevices
      BY <2>4, DeviceIsGood
    <3>2. new = Rates!ApplyRates(Rates!Device, rate', on', busy) /\ Rates!Becomes(new, rate', on')
      BY <2>1, <2>4 DEF new
    <3>. QED
      BY <1>0, <2>1, <2>3, <3>1, <3>2, BecomesServes
  <2>5. CASE ~ (s \in on /\ path = "buffer")
    <3>1. UNCHANGED <<written, programmed, timer, refused, stray>>
      BY <2>1, <2>5
    <3>2. RatesTypes'
      BY <1>0, <2>1, <2>3, <3>1 DEF RatesTypes
    <3>3. CASE path = "buffer"
      <4>1. \A t \in on : rate'[t] = rate[t]
        BY <1>0, <2>1, <2>5, <3>3
      <4>2. Rates!DeviceRate(rate', on') = Rates!DeviceRate(rate, on)
        <5>1. {rate'[t] : t \in on} = {rate[t] : t \in on}
          BY <4>1
        <5>. QED
          BY <5>1, <2>1 DEF Rates!DeviceRate
      <4>3. Rates!Fitting' = Rates!Fitting
        BY <4>2 DEF Rates!Fitting
      <4>4. \A t : Rates!Ruling(t)' = Rates!Ruling(t)
        BY <2>1 DEF Rates!Ruling
      <4>5. RateServesAll'
        BY <2>1, <3>1, <4>2, <4>3, <4>4 DEF RatesInv, RateServesAll, Rates!RateServesAll
      <4>6. Remembers(Rates!Device)'
        BY <3>1, <3>3 DEF RatesInv, Rates!Device, Remembers
      <4>. QED
        BY <3>2, <4>5, <4>6 DEF RatesInv
    <3>4. CASE path # "buffer"
      BY <2>1, <3>2, <3>4, UnbufferedKeeps
    <3>. QED
      BY <3>3, <3>4
  <2>. QED
    BY <2>4, <2>5
<1>7. CASE Rates!FallbackToPoll
  <2>1. RatesTypes' /\ path' # "buffer"
    BY <1>0, <1>7 DEF Rates!FallbackToPoll, RatesTypes
  <2>. QED
    BY <2>1, UnbufferedKeeps
<1>8. ASSUME NEW i \in DOMAIN Listed, Rates!Reprogrammed(Listed[i]) PROVE RatesInv'
  <2>1. Listed[i] \in Nat
    BY RatesAssumption
  <2>2. RatesTypes' /\ path' # "buffer"
    BY <1>0, <1>8, <2>1 DEF Rates!Reprogrammed, RatesTypes
  <2>. QED
    BY <2>2, UnbufferedKeeps
<1>. QED
  BY <1>1, <1>2, <1>3, <1>4, <1>5, <1>6, <1>7, <1>8 DEF Rates!Next, Rates!Indices

\* And so does every step of the backends.
LEMMA RatesInvNext == RatesInv /\ [MCNext]_all => RatesInv'
<1>. SUFFICES ASSUME RatesInv, [MCNext]_all PROVE RatesInv'
  OBVIOUS
<1>1. CASE Rates!Next
  BY <1>1, RatesInvStep
<1>2. CASE UNCHANGED rates
  <2>1. /\ RatesTypes' /\ path' = path /\ rate' = rate /\ on' = on /\ exists' = exists
        /\ written' = written /\ programmed' = programmed /\ refused' = refused /\ timer' = timer
    BY <1>2 DEF rates, RatesInv, RatesTypes
  <2>2. Remembers(Rates!Device)' <=> Remembers(Rates!Device)
    BY <2>1 DEF Remembers, Rates!Device
  <2>3. RateServesAll' <=> RateServesAll
    <3>1. Rates!Fitting' = Rates!Fitting /\ \A t : Rates!Ruling(t)' = Rates!Ruling(t)
      BY <2>1 DEF Rates!Fitting, Rates!Ruling
    <3>. QED
      BY <2>1, <3>1 DEF RateServesAll, Rates!RateServesAll
  <2>. QED
    BY <2>1, <2>2, <2>3 DEF RatesInv
<1>3. Rates!Next \/ UNCHANGED rates
  BY DEF MCNext, all, DeviceStep, RatesStep, SensorStep, ValuesStep, InputStep, MockStep,
         RegistryStep, OrientationStep, ConfigStep
<1>. QED
  BY <1>1, <1>2, <1>3

\* For any number of sensors, types, lists of frequencies and requests: while
\* the buffer runs and the last pass met no refused write, the attribute that
\* rules each active sensor, and the trigger, have the rate that the fastest
\* request needs (ApplyRatesLocked, WriteSamplingFrequency), also after earlier
\* refusals, after requests that came and went, and after someone else set the
\* rates while the buffer was off.
THEOREM RateServesAllAlways == MCSpec => []RateServesAll
<1>1. MCInit => RatesInv
  BY RatesInvInit DEF MCInit
<1>2. RatesInv => RateServesAll
  BY DEF RatesInv
<1>. QED
  BY <1>1, <1>2, RatesInvNext, PTL DEF MCSpec

===============================================================================
