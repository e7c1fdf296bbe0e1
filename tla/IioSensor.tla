------------------------------ MODULE IioSensor ------------------------------
(***************************************************************************)
(* From the readings of one IIO sensor to its events (IioSensor.cpp): the  *)
(* readings arrive in a scan of the device's buffer or in a sysfs          *)
(* attribute, are made an event, and the event is posted or dropped.  The  *)
(* filter state belongs to the producer thread and is reset on activation. *)
(*                                                                         *)
(* Time is in units of a tenth of the shortest period.  Scale, offset and  *)
(* mount matrix multiply and turn values the same way on both paths and    *)
(* are left out.                                                           *)
(***************************************************************************)
EXTENDS Integers, Sequences, TLC

CONSTANTS
    Payload,        \* "scalar", "proximity" or "quaternion"
    Continuous,     \* the reporting mode is continuous
    Readings,       \* what the hardware may measure: a sequence of numbers
    Periods,        \* the periods the front end asks for
    Steps,          \* how long the hardware may take to the next reading
    NearLevel,      \* proximity_near_level_, in percent of which ...
    HighWaterMark,  \* ... kProximityHighWaterMark and ...
    LowWaterMark,   \* ... kProximityLowWaterMark are given
    MaxTime,        \* bound on the time
    None            \* no event

VARIABLES
    active,     \* active_
    polled,     \* the device is in poll mode, for good
    period,     \* period_ns_
    time,       \* the boot time clock
    lastEmit,   \* last_emit_ns_, 0 when there is none
    lastEvent,  \* last_event_
    near,       \* proximity_is_near_
    reading,    \* history: the last reading since the filter was reset, or None
    sampled,    \* history: when it was taken
    view,       \* history: the last event the framework got since the activation
    viewed,     \* history: when it got it
    gap         \* history: time between that event and the one before, or 0

framework == <<view, viewed, gap>>
vars == <<active, polled, period, time, lastEmit, lastEvent, near, reading, sampled, framework>>

Init ==
    /\ active = FALSE
    /\ polled = FALSE
    /\ period \in Periods
    /\ time = 1
    /\ lastEmit = 0
    /\ lastEvent = None
    /\ near = FALSE
    /\ reading = None
    /\ sampled = 0
    /\ view = None
    /\ viewed = 0
    /\ gap = 0

-----------------------------------------------------------------------------
(* Values *)

BuildEventFromScan(r) == r

(* ReadEventFromSysfs(): a quaternion is one attribute with four numbers,  *)
(* which sysfs::ParseDoubleList() sorts.                                   *)
ReadEventFromSysfs(r) == IF Payload = "quaternion" THEN SortSeq(r, <) ELSE r

(* ConvertProximity(): near above a threshold that depends on the state. *)
Threshold == NearLevel * (IF near THEN LowWaterMark ELSE HighWaterMark)
ConvertProximity(value) == NearLevel > 0 /\ value * 100 > Threshold

(* kProximityNearCm and kProximityFarCm *)
Distance(isNear) == IF isNear THEN <<0>> ELSE <<5>>

(* proximity_is_near_ after BuildEvent() *)
NearAfter(values) == IF Payload = "proximity" THEN ConvertProximity(values[1]) ELSE near

BuildEvent(values) ==
    IF Payload = "proximity" THEN Distance(ConvertProximity(values[1])) ELSE values

(* Filter(): decimation of continuous sensors, no repetition otherwise. *)
Passes(event, now) ==
    IF Continuous THEN lastEmit = 0 \/ now - lastEmit >= period - (period \div 10)
    ELSE lastEvent # event

-----------------------------------------------------------------------------
(* Operations *)

Remembers(event, passes, now) ==
    IF passes THEN lastEmit' = now /\ lastEvent' = event
    ELSE UNCHANGED <<lastEmit, lastEvent>>

ResetTime ==
    /\ lastEmit' = 0
    /\ near' = FALSE
    /\ UNCHANGED lastEvent

ResetFilterState ==
    /\ lastEmit' = 0
    /\ lastEvent' = None
    /\ near' = FALSE

(* IioDevice::Activate(true) *)
Activate ==
    /\ ~active
    /\ active' = TRUE
    /\ ResetFilterState
    /\ reading' = None
    /\ sampled' = 0
    /\ view' = None
    /\ viewed' = 0
    /\ gap' = 0
    /\ polled' \in {polled, TRUE}
    /\ UNCHANGED <<period, time>>

Deactivate ==
    /\ active
    /\ active' = FALSE
    /\ UNCHANGED <<polled, period, time, lastEmit, lastEvent, near, reading, sampled, framework>>

(* FallbackToPollFromReader() for an active sensor. *)
Fallback ==
    /\ active
    /\ ~polled
    /\ polled' = TRUE
    /\ ResetFilterState
    /\ reading' = None
    /\ UNCHANGED <<active, period, time, sampled, framework>>

SetPeriodNs(p) ==
    /\ period # p
    /\ period' = p
    /\ UNCHANGED <<active, polled, time, lastEmit, lastEvent, near, reading, sampled, framework>>

(* A reading r arrives after step, in HandleScans() or PollSensor(). *)
Produce(r, step) ==
    LET values == IF polled THEN ReadEventFromSysfs(r) ELSE BuildEventFromScan(r)
        event == BuildEvent(values)
        now == time + step
    IN  /\ active
        /\ now <= MaxTime
        /\ time' = now
        /\ near' = NearAfter(values)
        /\ reading' = r
        /\ sampled' = now
        /\ Remembers(event, Passes(event, now), now)
        /\ IF Passes(event, now)
           THEN view' = event /\ viewed' = now /\ gap' = IF view = None THEN 0 ELSE now - viewed
           ELSE UNCHANGED framework
        /\ UNCHANGED <<active, polled, period>>

Next ==
    \/ Activate
    \/ Deactivate
    \/ Fallback
    \/ \E p \in Periods : SetPeriodNs(p)
    \/ \E r \in Readings, step \in Steps : Produce(r, step)

Spec == Init /\ [][Next]_vars

-----------------------------------------------------------------------------
(* A sensor that is near has been read since its filter was reset. *)
TypeOK ==
    /\ active \in BOOLEAN
    /\ polled \in BOOLEAN
    /\ period \in Periods
    /\ time \in 1 .. MaxTime
    /\ lastEmit \in 0 .. time
    /\ lastEvent \in Readings \cup {None, Distance(TRUE), Distance(FALSE)}
    /\ view \in Readings \cup {None, Distance(TRUE), Distance(FALSE)}
    /\ near => (Payload = "proximity" /\ reading # None)
    /\ reading \in Readings \cup {None}
    /\ sampled \in 0 .. time /\ viewed \in 0 .. sampled /\ gap \in 0 .. viewed

(* What the hardware says now, given the hysteresis. *)
Meaning == IF Payload = "proximity" THEN Distance(near) ELSE reading

(* The framework's view of an on-change sensor is the current one: the     *)
(* first reading after an activation is reported even if it equals the     *)
(* last one before, and no change is suppressed with the repetitions.      *)
ViewIsCurrent == (~Continuous /\ reading # None) => view = Meaning

-----------------------------------------------------------------------------
(* Stated by the documentation and not kept by the code; see README.md. *)

(* A sensor gets at least 90% of the rate it asked for when the device     *)
(* runs faster than that.                                                  *)
RateKept == Continuous => 9 * gap <= 10 * period

(* Both paths give the numbers of a quaternion their places. *)
QuaternionKept ==
    (Payload = "quaternion" /\ view # None /\ viewed = sampled) => view = reading

=============================================================================
