------------------------------ MODULE MCBackends ------------------------------
(***************************************************************************)
(* The backends of the sensors HAL for TLC: the data path of an IIO device *)
(* (IioDevice), its sampling rates (IioRates), the events of an on-change  *)
(* sensor (IioSensor) and the channels its values come from (IioChannels), *)
(* an input device (InputDevice), a mock sensor (MockBackend), the start   *)
(* of the service with all of them (SensorRegistry), the composite made of *)
(* an accelerometer (DeviceOrientation), and the configuration of a sensor *)
(* from properties and the hardware database (SensorConfig).  They share   *)
(* no state, so a behaviour is one of `part` and leaves the others alone.  *)
(***************************************************************************)
EXTENDS IioDevice, Integers, Sequences, SequencesExt, TLC

CONSTANTS
    None, FlushesQueue,
    SensorCount, TypeOf, OnChange, Listed, Requests, DefaultRate, OnChangeRate, \* of IioRates
    Lists, BackendNodes, FallbackOnly, CompositeSensors, Awaited, MaxAttempts \* of SensorRegistry

VARIABLES
    part,
    exists, rate, on, path, gaveUp, written, programmed, timer, polling, refused, stray,
    posting, polled, period, time, lastEmit, lastEvent, near, reading, sampled, view, viewed, gap,
    driver, channels, made, buffered, scanned, reads,
    evdev, switched, last, emitted, raw, dirty, evReader, running, wake, opened, evCall,
    mutex, mockSensor, mockMode, mockWorker, mockThread, mockPeriod, mockCall, mockAttached,
    phase, list, turn, loaded, present, initialized, offered, hardware, toGlobal, next,
    handled, provided, own, used, composites, attempt,
    now, held, setting, posing, reported, candidate, since,
    machine, unreadable, hwdb, dmi, fileValues, stage, info

-----------------------------------------------------------------------------
(* IIO drivers.                                                            *)

Chan(type, index, modifier) == [type |-> type, index |-> index, modifier |-> modifier]
Attr(id, postfix, value) == [id |-> id, postfix |-> postfix, value |-> value]
Element(id, index, type) == [id |-> id, index |-> index, type |-> type]
Files(attrs, elements) ==
    [attrs |-> attrs, elements |-> elements, node |-> TRUE, mode |-> "auto", smgr |-> FALSE]

\* Scan types of one and two bytes (of two bits).
Byte == [big |-> FALSE, signed |-> TRUE, real |-> 2, storage |-> 2, shift |-> 0, repeat |-> 1]
Word == [Byte EXCEPT !.real = 3, !.storage = 4, !.shift = 1]

\* An accelerometer whose elements leave a gap in front of the timestamp.
Accel(m) == Chan("accel", -1, m)
Motion ==
    Files({Attr(Accel(m), "raw", 0) : m \in {"x", "y", "z"}}
          \cup {Attr(Chan("accel", -1, ""), "scale", 2), Attr(Accel("x"), "scale", 3),
                Attr(Accel("y"), "offset", 1)},
          {Element(Accel("z"), 0, [Word EXCEPT !.big = TRUE]), Element(Accel("x"), 2, Byte),
           Element(Accel("y"), 5, Word),
           Element(Chan("timestamp", -1, ""), 3, [Byte EXCEPT !.real = 8, !.storage = 8])})

\* Two light channels, one of them processed and without an element.
Light(i) == Chan("intensity", i, "both")
Proximity == Chan("proximity", 0, "")
LightAndProximity ==
    Files({Attr(Chan("intensity", -1, ""), "scale", 2), Attr(Light(1), "input", 0),
           Attr(Light(1), "raw", 0), Attr(Light(0), "raw", 0), Attr(Proximity, "raw", 0),
           Attr(Proximity, "scale", 3), Attr(Chan("temp", -1, ""), "raw", 0)},
          {Element(Light(0), 1, [Word EXCEPT !.signed = FALSE]), Element(Proximity, 0, Byte)})

Rotation ==
    Files({Attr(Chan("rot", -1, "quaternion"), "raw", 0), Attr(Chan("rot", -1, ""), "scale", 2)},
          {Element(Chan("rot", -1, "quaternion"), 0,
                   [Word EXCEPT !.real = 4, !.shift = 0, !.repeat = 4]),
           Element(Chan("steps", -1, ""), 1, Byte)})

Weather ==
    Files({Attr(Chan("pressure", -1, ""), "input", 0), Attr(Chan("pressure", -1, ""), "offset", 4),
           Attr(Chan("humidityrelative", -1, ""), "raw", 0),
           Attr(Chan("humidityrelative", -1, ""), "offset", 1)}, {})

MCDrivers ==
    {Motion, [Motion EXCEPT !.mode = "poll"], LightAndProximity, Rotation, Weather,
     [Weather EXCEPT !.smgr = TRUE],
     [Motion EXCEPT !.elements = {[e EXCEPT !.type.real = 5] : e \in @}]}

-----------------------------------------------------------------------------
(* What the backends find: IIO with two accelerometers of one name and a   *)
(* sensor no one can use; a touch screen, an accelerometer and a switch on *)
(* the input nodes; mock sensors of three types.                           *)

Found(type, name) == [type |-> type, name |-> name]
Driver(sensors) == [sensors |-> sensors]
Input(name) ==
    [name |-> name, xyz |-> TRUE, accelProp |-> FALSE, touch |-> FALSE, gamepad |-> FALSE,
     forced |-> FALSE, ignored |-> FALSE, proximity |-> FALSE]
MCNodes ==
    "iio" :> <<Driver(<<Found("ACCELEROMETER", "a"), Found("META_DATA", "m")>>),
               Driver(<<Found("ACCELEROMETER", "a"), Found("LIGHT", "l")>>)>>
    @@ "input" :> <<[Input("t") EXCEPT !.touch = TRUE], [Input("a") EXCEPT !.proximity = TRUE]>>
    @@ "mock" :> <<Driver(<<Found("LIGHT", "l"), Found("PROXIMITY", "p"), Found("LIGHT", "k")>>)>>
MCLists == {<<"iio", "input", "mock">>, <<"mock", "iio">>}
MCCompositeSensors == <<[type |-> "DEVICE_ORIENTATION", inputs |-> {"ACCELEROMETER"}]>>

(* A panel as it is, one turned and one mirrored and swapped.              *)
Straight == [swap |-> FALSE, invertX |-> FALSE, invertY |-> FALSE, offset |-> 0]
MCSettings == {Straight, [Straight EXCEPT !.invertX = TRUE, !.offset = 1],
               [Straight EXCEPT !.swap = TRUE, !.invertY = TRUE]}

-----------------------------------------------------------------------------
(* Machines for SensorConfig: a hardware database of two files, written in *)
(* several styles; a modalias from sysfs or from SMBIOS tables; sensors    *)
(* with and without a label; two configuration files and a property.       *)

Turned == <<<<0, 1, 0>>, <<1, 0, 0>>, <<0, 0, 1>>>>
Flipped == <<<<-1, 0, 0>>, <<0, 1, 0>>, <<0, 0, -1>>>>
NoMatrix == <<<<0, 0, 0>>, <<0, 0, 0>>, <<0, 0, 0>>>>

Modalias == <<"dmi", ":", "bvn", "B", ":", "svn", "A", "_", ":", "pn", "U2", "C", ":">>
Tables ==
    <<[length |-> 25, fields |-> "svn" :> <<"A", " ", "(">> @@ "pn" :> <<"U2", "C">> @@ "sku" :> <<"S">>],
      [length |-> 24, fields |-> "bvn" :> <<"B", ":">> @@ "br" :> <<"255", ".", "255">> @@ "bd" :> <<>>]>>

Pattern(label, modalias, machineAlias) == [label |-> label, modalias |-> modalias, dmi |-> machineAlias]
Star == <<"*">>
Record(pattern, properties) == [patterns |-> {pattern}, properties |-> properties]
GeneralRecords ==
    <<Record(Pattern(<<>>, <<"a", "_">>, Star), "ACCEL_MOUNT_MATRIX" :> Turned @@ "PROXIMITY_NEAR_LEVEL" :> 7),
      Record(Pattern(<<"l", " ">>, Star, Modalias), "PROXIMITY_NEAR_LEVEL" :> 3)>>
SpecialRecords ==
    <<[patterns |-> {Pattern(<<>>, <<"a", "_">>, Modalias), Pattern(<<>>, <<"b">>, Star)},
       properties |-> "ACCEL_MOUNT_MATRIX" :> Flipped]>>

LinesOf(record) ==
    [i \in 1 .. Cardinality(record.patterns) |-> <<"match", SetToSeq(record.patterns)[i]>>]
    \o [i \in 1 .. Cardinality(DOMAIN record.properties) |->
            LET key == SetToSeq(DOMAIN record.properties)[i] IN <<"property", key, record.properties[key]>>]
EndOfRecord == <<<<"blank">>>>
Style(style, lines) ==
    CASE style = "clean" -> lines \o EndOfRecord
      [] style = "open" -> lines
      [] style = "stray" -> <<<<"property", "ACCEL_MOUNT_MATRIX", NoMatrix>>, <<"malformed">>>> \o lines
                            \o <<<<"comment">>, <<"malformed">>>> \o EndOfRecord
      [] style = "tail" -> lines \o EndOfRecord \o <<<<"match", Pattern(<<>>, Star, Star)>>>>
HwdbFile(style, records) ==
    [records |-> records,
     lines |-> Style(style, FoldLeft(LAMBDA lines, r : lines \o LinesOf(r) \o EndOfRecord,
                                     <<>>, Front(records)) \o LinesOf(Last(records)))]

Conf ==
    <<[lines |-> <<<<"section", <<"iio", "acc">>>>, <<"value", <<"accel", "min_delay_us">>, <<"number", 7000>>>>,
                   <<"value", <<"min_delay_us">>, <<"number", 9000>>>>, <<"other">>,
                   <<"value", <<"prox", "proximity_near_level">>, <<"number", 0>>>>>>],
      [lines |-> <<<<"value", <<"iio", "acc", "accel", "min_delay_us">>, <<"text", "fast">>>>,
                   <<"value", <<"wake_up">>, <<"bool", TRUE>>>>,
                   <<"section", <<"iio", "raw">>>>, <<"value", <<"mount_matrix">>, <<"text", NoMatrix>>>>>>]>>

AccelSensor ==
    [config |-> <<"iio", "acc">>, alt |-> <<>>, type |-> "accel", payload |-> "vec3", continuous |-> TRUE,
     modalias |-> <<"a", "(">>, udevModalias |-> <<"a", "_">>, label |-> <<>>, udevLabel |-> <<>>,
     channels |-> <<[scale |-> 2, offset |-> 1, processed |-> FALSE, bits |-> 4]>>,
     rates |-> <<<<>>, <<0, 400>>, <<10>>>>, matrices |-> <<<<>>, Turned>>, nearLevels |-> <<>>, buffer |-> TRUE,
     distance |-> FALSE, quirk |-> 0,
     defaults |-> [range |-> 40, minDelay |-> 10000, maxDelay |-> 1000000, wakeUp |-> FALSE]]
SensorsOfMachines ==
    {AccelSensor, [AccelSensor EXCEPT !.label = <<"l", "tab">>, !.udevLabel = <<"l", " ">>, !.rates = <<<<100, 400>>>>, !.buffer = FALSE],
     [AccelSensor EXCEPT !.alt = <<"iio", "raw">>, !.modalias = <<>>],
     [AccelSensor EXCEPT !.type = "prox", !.payload = "proximity", !.label = <<"l", "tab">>, !.udevLabel = <<"l", " ">>,
                         !.continuous = FALSE, !.nearLevels = <<0, 5>>, !.defaults.minDelay = 0],
     [AccelSensor EXCEPT !.type = "prox", !.payload = "proximity", !.modalias = <<"c", "\\", "x">>,
                         !.udevModalias = <<"c", "\\", "x">>, !.continuous = FALSE]}
Machines ==
    {[hwdbFiles |-> files, confFiles |-> Conf, props |-> props, tables |-> Tables, dmiClass |-> class,
      modalias |-> Modalias, sensor |-> s] :
        s \in SensorsOfMachines, class \in {<<>>, [Modalias EXCEPT ![8] = "("]},
        props \in {<<>>, <<"iio", "acc", "prox", "proximity_near_level">> :> <<"number", 4>>},
        files \in {<<HwdbFile(style, GeneralRecords), HwdbFile("open", SpecialRecords)>> :
                      style \in {"clean", "open", "stray", "tail"}}
                  \cup {<<HwdbFile("open", SpecialRecords), HwdbFile("clean", GeneralRecords)>>}}

-----------------------------------------------------------------------------
\* Two sensors of different types, the second one on-change.  The default
\* rate is beyond what the driver lists.
MCTypeOf == <<"accel", "anglvel">>
MCListed == <<20, 10>>

Rates == INSTANCE IioRates WITH
    period <- rate, active <- on, mode <- path, failed <- gaveUp, worker <- polling

\* Types are named after channels, rates are positive, and what is modelled is
\* a driver that lists some.
ASSUME RatesAssumption ==
    /\ SensorCount \in Nat
    /\ DOMAIN TypeOf = 1 .. SensorCount
    /\ \A s \in 1 .. SensorCount : TypeOf[s] \notin {"device", "fifo"}
    /\ Listed \in Seq(Nat \ {0}) /\ Listed # <<>>
    /\ Requests \subseteq Nat
    /\ DefaultRate \in Nat \ {0}

\* A proximity sensor, read around the watermarks of its near level.
Sensor == INSTANCE IioSensor WITH
    Payload <- "proximity", Continuous <- FALSE, Readings <- {<<8>>, <<10>>, <<12>>},
    Periods <- {10}, Steps <- {1}, NearLevel <- 10, HighWaterMark <- 110,
    LowWaterMark <- 90, MaxTime <- 6, active <- posting

Channels == INSTANCE IioChannels WITH
    Drivers <- MCDrivers, Measures <- {-2, 1}, ByteBits <- 2, sensors <- made, enabled <- scanned
Node == INSTANCE InputDevice WITH
    MaxQueue <- 2, MaxFlips <- 2, kernel <- evdev, active <- switched, reader <- evReader,
    fd <- opened, call <- evCall
Mock == INSTANCE MockBackend WITH
    sensor <- mockSensor, mode <- mockMode, worker <- mockWorker, thread <- mockThread,
    period <- mockPeriod, call <- mockCall, attached <- mockAttached
Registry == INSTANCE SensorRegistry WITH
    Nodes <- BackendNodes, Composites <- CompositeSensors, Expected <- Awaited

\* Libraries are listed once, and a backend tells its sensors of a type apart:
\* IioBackend those of two devices, the others all of them.
ASSUME RegistryAssumption ==
    /\ \A libraries \in Lists :
         /\ libraries \in Seq(DOMAIN BackendNodes) /\ libraries # <<>>
         /\ \A i, j \in DOMAIN libraries : libraries[i] = libraries[j] => i = j
    /\ \A b \in DOMAIN BackendNodes :
         /\ DOMAIN BackendNodes[b] \subseteq Nat
         /\ \A i, j \in DOMAIN BackendNodes[b] :
              LET mine == Registry!GetSensorsList(b, i)
                  others == Registry!GetSensorsList(b, j)
              IN  /\ DOMAIN mine \subseteq Nat
                  /\ \A k \in DOMAIN mine, m \in DOMAIN others :
                       mine[k].type = others[m].type /\ mine[k].name = others[m].name =>
                           (i = j /\ k = m) \/ (b = "iio" /\ i # j)

Orientation == INSTANCE DeviceOrientation WITH
    Angles <- {-1, 0, 2, 4, 6, 17, 22}, Settings <- MCSettings, MaxTime <- 7, active <- posing
Config == INSTANCE SensorConfig

rates == <<exists, rate, on, path, gaveUp, written, programmed, timer, polling, refused, stray>>
sensor == <<posting, polled, period, time, lastEmit, lastEvent, near, reading, sampled, view,
            viewed, gap>>
values == <<driver, channels, made, buffered, scanned, reads>>
input == <<evdev, switched, last, emitted, raw, dirty, evReader, running, wake, opened, evCall>>
mock == <<mutex, mockSensor, mockMode, mockWorker, mockThread, mockPeriod, mockCall, mockAttached>>
registry == <<phase, list, turn, loaded, present, initialized, offered, hardware, toGlobal, next,
              handled, provided, own, used, composites, attempt>>
orientation == <<now, held, setting, posing, reported, candidate, since>>
config == <<machine, unreadable, hwdb, dmi, fileValues, stage, info>>
all == <<part, vars, rates, sensor, values, input, mock, registry, orientation, config>>

-----------------------------------------------------------------------------
\* The configuration in the other parts.
NoConfig ==
    /\ machine = <<>> /\ unreadable = {} /\ hwdb = <<>> /\ dmi = <<>> /\ fileValues = <<>>
    /\ stage = "settings" /\ info = <<>>

MCInit ==
    /\ part \in {"device", "rates", "sensor", "values", "input", "mock", "registry", "orientation",
             "config"}
    /\ part # "values" => driver = Motion
    /\ part # "input" => evdev = [sw |-> FALSE, flips |-> 0, queue |-> <<>>, gone |-> FALSE]
    /\ part # "orientation" => setting = Straight
    /\ part # "device" => attached = "none" /\ silent = FALSE
    /\ part # "rates" => exists = {}
    /\ part # "registry" => list = CHOOSE l \in Lists : TRUE
    /\ Init /\ Rates!Init /\ Sensor!Init /\ Channels!Init
    /\ Node!Init /\ Mock!Init /\ Registry!Init /\ Orientation!Init
    /\ IF part = "config" THEN Config!Init ELSE NoConfig

(* A step of one part. *)
DeviceStep(A) ==
    part = "device" /\ A
    /\ UNCHANGED <<part, rates, sensor, values, input, mock, registry, orientation, config>>
RatesStep(A) ==
    part = "rates" /\ A
    /\ UNCHANGED <<part, vars, sensor, values, input, mock, registry, orientation, config>>
SensorStep(A) ==
    part = "sensor" /\ A
    /\ UNCHANGED <<part, vars, rates, values, input, mock, registry, orientation, config>>
ValuesStep(A) ==
    part = "values" /\ A
    /\ UNCHANGED <<part, vars, rates, sensor, input, mock, registry, orientation, config>>
InputStep(A) ==
    part = "input" /\ A
    /\ UNCHANGED <<part, vars, rates, sensor, values, mock, registry, orientation, config>>
MockStep(A) ==
    part = "mock" /\ A
    /\ UNCHANGED <<part, vars, rates, sensor, values, input, registry, orientation, config>>
RegistryStep(A) ==
    part = "registry" /\ A
    /\ UNCHANGED <<part, vars, rates, sensor, values, input, mock, orientation, config>>
OrientationStep(A) ==
    part = "orientation" /\ A
    /\ UNCHANGED <<part, vars, rates, sensor, values, input, mock, registry, config>>
ConfigStep(A) ==
    part = "config" /\ A
    /\ UNCHANGED <<part, vars, rates, sensor, values, input, mock, registry, orientation>>

MCNext ==
    \/ DeviceStep(Next)
    \/ RatesStep(Rates!Next)
    \/ SensorStep(Sensor!Next)
    \/ ValuesStep(Channels!Next)
    \/ InputStep(Node!Next)
    \/ MockStep(Mock!Next)
    \/ RegistryStep(Registry!Next)
    \/ OrientationStep(Orientation!Next)
    \/ ConfigStep(Config!Next)

\* The fairness of each part, for the behaviours of that part.
MCFairness ==
    /\ WF_all(DeviceStep(ControlStep))
    /\ WF_all(DeviceStep(Reader))
    /\ \A s \in Sensors : WF_all(DeviceStep(Worker(s)))
    /\ WF_all(InputStep(Node!Reader))
    /\ WF_all(InputStep(Node!CallStep))
    /\ WF_all(MockStep(Mock!Worker))
    /\ WF_all(MockStep(Mock!CallStep))

MCSpec == MCInit /\ [][MCNext]_all /\ MCFairness

-----------------------------------------------------------------------------
\* Active sensors have a live source, also after fallbacks, and no kernel
\* trigger is left behind (IioDevice).
DataPathSound == DataPath /\ NoStaleTrigger

\* While the buffer runs and no write was refused, every active sensor's
\* attribute has the rate the fastest request needs (IioRates).
RateServesAll == Rates!RateServesAll

\* A sensor reads what its channels measured, by either way, and the
\* framework's view of an on-change sensor is what the hardware says now; and
\* it works with what files and properties say of it (IioChannels, IioSensor,
\* SensorConfig).
ReadingsTrue == Channels!ReadsMeasured /\ Sensor!ViewIsCurrent /\ Config!AsConfigured

\* The last event of an active switch tells its position (InputDevice).
SwitchIsCurrent == Node!SwitchIsCurrent

\* The list of sensors is sound whenever the service starts (SensorRegistry).
ListIsSound == Registry!ListIsSound

\* Rotations are reported when the device was held in them (DeviceOrientation).
ReportsWhenHeld == Orientation!ReportsWhenHeld

\* Deactivations and shutdowns end the threads that read a node or a device,
\* or make the samples of a mock sensor, wherever they are (IioDevice,
\* InputDevice, MockBackend).
CallsReturn == CallReturns /\ Node!CloseReturns /\ Mock!StopReturns
=============================================================================
