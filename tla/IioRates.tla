------------------------------ MODULE IioRates ------------------------------
(***************************************************************************)
(* Sampling rates of one iio:deviceN (backends/iio/IioDevice.cpp): which   *)
(* sysfs attributes the device programs, from which requests, and what it  *)
(* remembers of it in written_frequencies_.  The life of the buffer, its   *)
(* reader and the workers is module IioDevice; here every call is atomic,  *)
(* as ApplyRatesLocked() runs under mutex_, and every sensor can be polled.*)
(*                                                                         *)
(* A period is represented by its rate in Hz.  The attribute               *)
(* in_<type>_sampling_frequency is represented by <type>, the other two    *)
(* by "device" and "fifo".                                                 *)
(***************************************************************************)
EXTENDS Integers, Sequences, SequencesExt, FiniteSetsExt

CONSTANTS
    SensorCount,    \* sensors_.size()
    TypeOf,         \* sensor -> iio_type
    OnChange,       \* the sensors that are not continuous
    Listed,         \* the numbers of a *_available file, as the driver lists them
    Requests,       \* rates the front end asks for; 0 stands for a period <= 0
    DefaultRate,    \* kDefaultPeriodNs
    OnChangeRate    \* kMinOnChangePollPeriodNs

Indices == 1 .. SensorCount     \* of sensors_
Types == {TypeOf[s] : s \in Indices}
Attributes == Types \cup {"device", "fifo"}
Unwritten == 0

VARIABLES
    exists,     \* the attributes this driver has
    period,     \* IioSensor::period_ns_
    active,     \* IioSensor::active_
    mode,       \* mode_: "idle", "buffer" or "poll"
    failed,     \* buffer_failed_
    written,    \* written_frequencies_
    programmed, \* external: the value of each attribute
    timer,      \* external: the frequency of the hrtimer trigger
    worker,     \* the period a sensor's poll worker runs at, Unwritten when stopped
    refused,    \* history: the last ApplyRatesLocked() met a refused write
    stray       \* history: attributes it wrote that are not the most specific ones

vars == <<exists, period, active, mode, failed, written, programmed, timer, worker,
          refused, stray>>

Init ==
    /\ exists \in SUBSET Attributes
    /\ period = [s \in Indices |-> DefaultRate]
    /\ active = {}
    /\ mode = "idle"
    /\ failed = FALSE
    /\ written = [a \in Attributes |-> Unwritten]
    /\ programmed = [a \in Attributes |-> Listed[1]]
    /\ timer = DefaultRate
    /\ worker = [s \in Indices |-> Unwritten]
    /\ refused = FALSE
    /\ stray = {}

-----------------------------------------------------------------------------
(* Rates *)

(* A list of numbers in a file of sysfs comes out sorted. *)
Sorting(content, order) ==
    /\ \A k \in DOMAIN content : \E i \in DOMAIN content : order[i] = k
    /\ \A i, j \in DOMAIN content : i < j => content[order[i]] <= content[order[j]]

ParseDoubleList(content) ==
    LET order == CHOOSE o \in [DOMAIN content -> DOMAIN content] : Sorting(content, o)
    IN  [i \in DOMAIN content |-> content[order[i]]]

(* The first listed frequency that is not slower, else the last one. *)
RoundFrequency(hz) ==
    LET available == ParseDoubleList(Listed)
        fast == {i \in DOMAIN available : available[i] >= hz}
    IN  IF available = << >> THEN hz
        ELSE IF fast # {} THEN available[Min(fast)] ELSE available[Len(available)]

(* The attributes for a type, the most specific one first, and which exist. *)
Places(type) == <<type, "device", "fifo">>
Candidates(type) == {i \in 1 .. 3 : Places(type)[i] \in exists}

RememberAlways(st, a, value, busy) == [st.written EXCEPT ![a] = value]

(* Only a write that succeeded is remembered. *)
Remember(st, a, value, busy) ==
    IF a \in busy THEN st.written ELSE [st.written EXCEPT ![a] = value]

(* One candidate is written: the first whose remembered value differs.  A  *)
(* FIFO gets the value too, whatever became of the first write, and is not *)
(* remembered.  busy are the attributes that refuse a write.               *)
WriteSamplingFrequency(st, type, hz, busy) ==
    LET value == RoundFrequency(hz)
        stale == {i \in Candidates(type) : st.written[Places(type)[i]] # value}
        a == Places(type)[Min(stale)]
        mirrored == {a} \cup ({"fifo"} \cap exists)
    IN  IF stale = {} THEN st
        ELSE [written |-> Remember(st, a, value, busy),
              programmed |-> [b \in Attributes |-> IF b \in mirrored \ busy
                                                   THEN value ELSE st.programmed[b]],
              refused |-> st.refused \/ a \in busy,
              stray |-> st.stray \cup ({a} \ {Places(type)[Min(Candidates(type))]})]

DeviceRate(rates, on) == Max({rates[s] : s \in on})

(* Types are written in the order of sensors_, each of them once. *)
FirstOfType(s, on) == s \in on /\ \A other \in on : TypeOf[other] = TypeOf[s] => s <= other

(* What st becomes sensor by sensor when those on ask for rates.           *)
Cleared(st) ==
    [written |-> st.written, programmed |-> st.programmed, refused |-> FALSE, stray |-> {}]

Pass(st, rates, on, busy) ==
    LET after[s \in 0 .. SensorCount] ==
            IF s = 0 THEN Cleared(st)
            ELSE IF FirstOfType(s, on)
            THEN WriteSamplingFrequency(after[s - 1], TypeOf[s], DeviceRate(rates, on), busy)
            ELSE after[s - 1]
    IN  after

ApplyRates(st, rates, on, busy) == Pass(st, rates, on, busy)[SensorCount]

Device == [written |-> written, programmed |-> programmed, refused |-> refused, stray |-> stray]

Becomes(st, rates, on) ==
    /\ written' = st.written
    /\ programmed' = st.programmed
    /\ refused' = st.refused
    /\ stray' = st.stray
    /\ timer' = DeviceRate(rates, on)

(* StartBufferLocked() begins by forgetting what it wrote last time. *)
Forgotten == [a \in Attributes |-> Unwritten]

(* IioSensor::GetPollPeriodNs() *)
PollPeriod(rates, s) == IF s \in OnChange THEN Min({rates[s], OnChangeRate}) ELSE rates[s]

-----------------------------------------------------------------------------
(* Calls, under mutex_ *)

(* Activate(true) of the first sensor: the buffer starts, for which the    *)
(* rates are applied, and once it runs they are applied once more.         *)
StartBuffer(s, busy, busyLater) ==
    LET started == ApplyRates([Device EXCEPT !.written = Forgotten], period, {s}, busy)
    IN  /\ active = {}
        /\ mode = "idle"
        /\ ~failed
        /\ active' = {s}
        /\ mode' = "buffer"
        /\ Becomes(ApplyRates(started, period, {s}, busyLater), period, {s})
        /\ UNCHANGED <<exists, period, failed, worker>>

(* The buffer cannot be enabled: the device is polled from then on. *)
StartBufferFails(s, busy) ==
    /\ active = {}
    /\ mode = "idle"
    /\ ~failed
    /\ active' = {s}
    /\ mode' = "poll"
    /\ failed' = TRUE
    /\ worker' = [worker EXCEPT ![s] = PollPeriod(period, s)]
    /\ Becomes(ApplyRates([Device EXCEPT !.written = Forgotten], period, {s}, busy), period, {s})
    /\ UNCHANGED <<exists, period>>

ActivateBuffered(s, busy) ==
    /\ s \notin active
    /\ mode = "buffer"
    /\ active' = active \cup {s}
    /\ Becomes(ApplyRates(Device, period, active', busy), period, active')
    /\ UNCHANGED <<exists, period, mode, failed, worker>>

ActivatePolled(s) ==
    /\ s \notin active
    /\ mode = "poll" \/ (mode = "idle" /\ failed)
    /\ active' = active \cup {s}
    /\ mode' = "poll"
    /\ worker' = [worker EXCEPT ![s] = PollPeriod(period, s)]
    /\ UNCHANGED <<exists, period, failed, written, programmed, timer, refused, stray>>

Deactivate(s, busy) ==
    /\ s \in active
    /\ active' = active \ {s}
    /\ worker' = [worker EXCEPT ![s] = Unwritten]
    /\ mode' = IF active' = {} THEN "idle" ELSE mode
    /\ IF mode' = "buffer"
       THEN Becomes(ApplyRates(Device, period, active', busy), period, active')
       ELSE UNCHANGED <<written, programmed, timer, refused, stray>>
    /\ UNCHANGED <<exists, period, failed>>

(* SetPeriod() stores the period and changes what runs at once. *)
SetPeriod(s, hz, busy) ==
    /\ period' = [period EXCEPT ![s] = IF hz > 0 THEN hz ELSE DefaultRate]
    /\ IF s \in active /\ mode = "buffer"
       THEN Becomes(ApplyRates(Device, period', active, busy), period', active)
       ELSE UNCHANGED <<written, programmed, timer, refused, stray>>
    /\ worker' = IF s \in active /\ mode = "poll"
                 THEN [worker EXCEPT ![s] = PollPeriod(period', s)] ELSE worker
    /\ UNCHANGED <<exists, active, mode, failed>>

(* The reader gives the buffer up (FallbackToPollFromReader). *)
FallbackToPoll ==
    /\ mode = "buffer"
    /\ mode' = "poll"
    /\ failed' = TRUE
    /\ worker' = [s \in Indices |-> IF s \in active THEN PollPeriod(period, s) ELSE worker[s]]
    /\ UNCHANGED <<exists, period, active, written, programmed, timer, refused, stray>>

(* External: while the buffer is off the device is reset or another        *)
(* process sets its rate.                                                  *)
Reprogrammed(value) ==
    /\ mode # "buffer"
    /\ programmed' = [a \in Attributes |-> value]
    /\ UNCHANGED <<exists, period, active, mode, failed, written, timer, worker, refused, stray>>

(* External: a driver refuses no write, all of them or those of one attribute. *)
Refusals == {{}, exists} \cup {{a} : a \in exists}

Next ==
    \/ \E s \in Indices, busy \in Refusals :
          \/ \E later \in Refusals : StartBuffer(s, busy, later)
          \/ StartBufferFails(s, busy)
          \/ ActivateBuffered(s, busy)
          \/ Deactivate(s, busy)
          \/ \E hz \in Requests : SetPeriod(s, hz, busy)
    \/ \E s \in Indices : ActivatePolled(s)
    \/ FallbackToPoll
    \/ \E i \in DOMAIN Listed : Reprogrammed(Listed[i])

Spec == Init /\ [][Next]_vars

-----------------------------------------------------------------------------
(* Only listed values are programmed, and workers run for active sensors   *)
(* in poll mode only.                                                      *)
TypeOK ==
    /\ exists \subseteq Attributes
    /\ period \in [Indices -> Nat \ {0}]
    /\ active \subseteq Indices
    /\ mode \in {"idle", "buffer", "poll"}
    /\ failed \in BOOLEAN
    /\ refused \in BOOLEAN
    /\ stray \subseteq exists
    /\ written \in [Attributes -> ToSet(Listed) \cup {Unwritten}]
    /\ programmed \in [Attributes -> ToSet(Listed)]
    /\ timer \in Nat \ {0}
    /\ worker \in [Indices -> Nat]

(* The rate a device should run at, stated without the algorithm: the      *)
(* slowest listed rate that serves the fastest request, or the fastest     *)
(* listed rate when none does.                                             *)
Fitting ==
    LET hz == DeviceRate(period, active)
        listed == ToSet(Listed)
        enough == {f \in listed : f >= hz}
    IN  IF enough = {} THEN Max(listed) ELSE Min(enough)

Ruling(s) == IF TypeOf[s] \in exists THEN TypeOf[s] ELSE "device"

(* While the buffer runs, the attribute that rules each active sensor and  *)
(* the trigger have the rate of the fastest request, unless the driver     *)
(* refused the last write: earlier refusals, requests of sensors that come *)
(* and go, and values changed while the buffer was off are all made good.  *)
(* The FIFO's own attribute is the subject of LastValueKnown.              *)
RateServesAll ==
    (mode = "buffer" /\ ~refused) =>
        /\ \A s \in active : Ruling(s) \in exists => programmed[Ruling(s)] = Fitting
        /\ timer = DeviceRate(period, active)

-----------------------------------------------------------------------------
(* Stated by the documentation and not kept by the code; see README.md. *)

(* While the buffer runs, written_frequencies_ holds the last value of     *)
(* every attribute in it.                                                  *)
LastValueKnown ==
    mode = "buffer" =>
        \A a \in exists : written[a] # Unwritten => written[a] = programmed[a]

(* Only the most specific attribute of each type, and the FIFO's, are      *)
(* written.                                                                *)
OnlyMostSpecific == stray \subseteq {"fifo"}

=============================================================================
