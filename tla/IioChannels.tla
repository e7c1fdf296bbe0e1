------------------------------ MODULE IioChannels ------------------------------
(***************************************************************************)
(* From the sysfs directory of an IIO device to its channels, the sensors  *)
(* made of them and their values (IioDevice::Discover, IioChannel.cpp,     *)
(* IioTypes.cpp, IioSensor's constructor): attributes give scales and      *)
(* values, scan elements give the place and form of a value in the scans   *)
(* of the buffer, and both paths must come to what was measured.           *)
(*                                                                         *)
(* Names of files are the parsed channel and postfix.  A byte has ByteBits *)
(* bits here.  Factors between IIO's and Android's units are in            *)
(* thousandths.                                                            *)
(***************************************************************************)
EXTENDS Integers, Sequences, SequencesExt, FiniteSets

CONSTANTS
    Drivers,        \* what devices may have in sysfs, see Init
    Measures,       \* raw values a channel may measure
    ByteBits        \* bits of a byte

VARIABLES
    driver,     \* attrs [id, postfix, value], elements [id, index, type], node, mode, smgr
    channels,   \* channels_: id |-> poll attribute, scale, offset, scan element
    sensors,    \* sensors_, as the specs they were made from
    buffered,   \* buffer_capable
    enabled,    \* the channels the kernel scans, in the order of the scan
    reads       \* what the sensors read last: expected, from the scan, from sysfs

vars == <<driver, channels, sensors, buffered, enabled, reads>>

Init ==
    /\ driver \in Drivers
    /\ channels = <<>>
    /\ sensors = <<>>
    /\ buffered = FALSE
    /\ enabled = <<>>
    /\ reads = {}

-----------------------------------------------------------------------------
(* Channels: ProbeChannels().                                              *)

Id(type, index, modifier) == [type |-> type, index |-> index, modifier |-> modifier]
IsTimestamp(id) == id.type = "timestamp"
PerChannel(id) == id.modifier # "" \/ id.index >= 0

Attrs(postfix) == {a \in driver.attrs : a.postfix = postfix}

\* IioScanType::Parse() refuses a type that does not fit its storage.
Usable(type) ==
    /\ type.storage > 0 /\ type.real > 0 /\ type.shift >= 0
    /\ type.real + type.shift <= type.storage
Elements == {e \in driver.elements : e.index >= 0 /\ Usable(e.type)}

\* An attribute of the channel itself, otherwise the one its type shares.
Resolved(id, postfix, default) ==
    LET own == {a \in Attrs(postfix) : a.id = id /\ PerChannel(a.id)}
        shared == {a \in Attrs(postfix) : a.id.type = id.type /\ ~PerChannel(a.id)}
        values == {a.value : a \in IF own # {} THEN own ELSE shared}
    IN  IF values = {} THEN default ELSE CHOOSE v \in values : TRUE

Channel(id) ==
    [id |-> id,
     poll |-> IF \E a \in Attrs("input") : a.id = id THEN "input"
              ELSE IF \E a \in Attrs("raw") : a.id = id THEN "raw" ELSE "",
     scale |-> Resolved(id, "scale", 1),
     offset |-> Resolved(id, "offset", 0),
     element |-> {e \in Elements : e.id = id}]

ChannelIds ==
    {a.id : a \in Attrs("raw") \cup Attrs("input")} \cup {e.id : e \in driver.elements}
    \cup {a.id : a \in {b \in Attrs("scale") \cup Attrs("offset") : PerChannel(b.id)}}

-----------------------------------------------------------------------------
(* Sensors: MatchIioSensorSpecs() and CreateSensors().                     *)

Readable(table) == {id \in DOMAIN table : table[id].poll # "" \/ table[id].element # {}}

SensorSpec(kind, type, modifiers, index, factor) ==
    <<[kind |-> kind, factor |-> factor, ids |-> [m \in DOMAIN modifiers |-> Id(type, index, modifiers[m])]]>>

Vec3(ids, type, kind, factor) ==
    IF {Id(type, -1, m) : m \in {"x", "y", "z"}} \subseteq ids
    THEN SensorSpec(kind, type, <<"x", "y", "z">>, -1, factor) ELSE <<>>

\* The channel without an index, otherwise the one with the lowest.
Scalar(ids, type, modifier, kind, factor) ==
    LET found == {id \in ids : id.type = type /\ id.modifier = modifier}
    IN  IF found = {} THEN <<>>
        ELSE SensorSpec(kind, type, <<modifier>>,
                  (CHOOSE id \in found : \A o \in found : id.index <= o.index).index, factor)

FirstOf(specs) ==
    IF \E i \in DOMAIN specs : specs[i] # <<>>
    THEN specs[CHOOSE i \in DOMAIN specs : specs[i] # <<>> /\ \A j \in 1 .. i - 1 : specs[j] = <<>>]
    ELSE <<>>

Temperature(ids) ==
    IF \E id \in ids : id.type # "temp" /\ ~IsTimestamp(id) THEN <<>>
    ELSE FirstOf(<<Scalar(ids, "temp", "ambient", "AMBIENT_TEMPERATURE", 1),
                   Scalar(ids, "temp", "", "AMBIENT_TEMPERATURE", 1)>>)

MatchIioSensorSpecs(ids) ==
    Vec3(ids, "accel", "ACCELEROMETER", 1000) \o Vec3(ids, "anglvel", "GYROSCOPE", 1000)
    \o Vec3(ids, "magn", "MAGNETIC_FIELD", 100000) \o Vec3(ids, "gravity", "GRAVITY", 1000)
    \o FirstOf(<<Scalar(ids, "illuminance", "", "LIGHT", 1000),
                 Scalar(ids, "intensity", "both", "LIGHT", 1000),
                 Scalar(ids, "intensity", "clear", "LIGHT", 1000)>>)
    \o Scalar(ids, "proximity", "", "PROXIMITY", 1000)
    \o Scalar(ids, "pressure", "", "PRESSURE", IF driver.smgr THEN 1000 ELSE 10000)
    \o Scalar(ids, "humidityrelative", "", "RELATIVE_HUMIDITY", 1)
    \o Temperature(ids)
    \o Scalar(ids, "rot", "quaternion", "ROTATION_VECTOR", 1000)
    \o Scalar(ids, "angl", "", "HINGE_ANGLE", 57296)
    \o Scalar(ids, "steps", "", "STEP_COUNTER", 1000)

\* The buffer is used for all sensors of a device or for none.
BufferPolicy(table, specs) ==
    /\ driver.node /\ driver.mode # "poll"
    /\ \E id \in DOMAIN table : table[id].element # {} /\ ~IsTimestamp(id)
    /\ \A i \in DOMAIN specs : \A id \in ToSet(specs[i].ids) : table[id].element # {}

CanBuffer(table, buffer, spec) == buffer /\ \A id \in ToSet(spec.ids) : table[id].element # {}
CanPoll(table, spec) == \A id \in ToSet(spec.ids) : table[id].poll # ""

Discover ==
    /\ channels = <<>> /\ driver.attrs # {}
    /\ \E table \in {[id \in ChannelIds |-> Channel(id)]} :
       \E specs \in {MatchIioSensorSpecs(Readable(table))} :
       \E buffer \in {BufferPolicy(table, specs)} :
         /\ channels' = table
         /\ buffered' = buffer
         /\ sensors' = SelectSeq(specs,
                LAMBDA s : CanBuffer(table, buffer, s) \/ CanPoll(table, s))
    /\ UNCHANGED <<driver, enabled, reads>>

-----------------------------------------------------------------------------
(* Scans                                                                   *)

Width(type) == type.storage \div ByteBits
Length(id) == LET t == (CHOOSE e \in channels[id].element : TRUE).type IN Width(t) * t.repeat
Index(id) == (CHOOSE e \in channels[id].element : TRUE).index

\* The order of a scan: by index, the timestamp last.
Before(a, b) == IF IsTimestamp(a) # IsTimestamp(b) THEN ~IsTimestamp(a) ELSE Index(a) < Index(b)

\* The channels of the sensors the kernel agreed to scan.
Enable ==
    /\ buffered /\ channels # <<>> /\ enabled = <<>>
    /\ \E some \in SUBSET {id \in DOMAIN channels : channels[id].element # {}} :
         enabled' = SetToSortSeq(some, Before)
    /\ UNCHANGED <<driver, channels, sensors, buffered, reads>>

Aligned(offset, length) ==
    IF offset % length = 0 THEN offset ELSE offset + length - (offset % length)

\* A mutant: elements follow each other without a gap.
PlacePacked(layout, id) ==
    [at |-> Append(layout.at, layout.bytes), bytes |-> layout.bytes + Length(id)]

\* Every element starts at a multiple of its own length.
Place(layout, id) ==
    LET start == Aligned(layout.bytes, Length(id))
    IN  [at |-> Append(layout.at, start), bytes |-> start + Length(id)]

ComputeScanLayout == FoldLeft(Place, [at |-> <<>>, bytes |-> 0], enabled).at

\* DecodeRaw(): bytes in the order of the type, shifted, cut and signed.
DecodeRaw(scan, location, type, element) ==
    LET n == Width(type)
        start == location + element * n
        bytes == [i \in 1 .. n |-> scan[start + (IF type.big THEN i - 1 ELSE n - i)]]
        word == FoldLeft(LAMBDA value, byte : value * 2^ByteBits + byte, 0, bytes)
        value == (word \div 2^type.shift) % 2^type.real
    IN  IF type.signed /\ value >= 2^(type.real - 1) THEN value - 2^type.real ELSE value

\* The Qualcomm pressure sensor reports hPa, and an offset of no meaning.
Offset(id) == IF driver.smgr THEN 0 ELSE channels[id].offset

\* ConvertChannelValue(); near levels are compared with raw counts.
Convert(spec, id, raw) ==
    IF spec.kind = "PROXIMITY" THEN raw
    ELSE (raw + Offset(id)) * channels[id].scale * spec.factor

FromScan(spec, scan) ==
    [m \in DOMAIN spec.ids |->
        LET id == spec.ids[m]
            type == (CHOOSE e \in channels[id].element : TRUE).type
            at == ComputeScanLayout[CHOOSE i \in DOMAIN enabled : enabled[i] = id]
        IN  IF spec.kind = "ROTATION_VECTOR"
            THEN [e \in 1 .. type.repeat |-> Convert(spec, id, DecodeRaw(scan, at, type, e - 1))]
            ELSE <<Convert(spec, id, DecodeRaw(scan, at, type, 0))>>]

FromSysfs(spec, file) ==
    [m \in DOMAIN spec.ids |->
        LET id == spec.ids[m]
        IN  IF channels[id].poll = "input"
            THEN <<IF spec.kind = "PROXIMITY" THEN file[id].input ELSE file[id].input * spec.factor>>
            ELSE <<Convert(spec, id, file[id].raw)>>]

-----------------------------------------------------------------------------
(* The kernel: what its driver puts in a scan and in the attributes.       *)

TypeOfElement(id) == (CHOOSE e \in channels[id].element : TRUE).type

\* A value in its storage; bits beside it may be anything.
Stored(type, value, noise) ==
    LET bits == (value % 2^type.real) * 2^type.shift + (IF type.shift > 0 THEN noise ELSE 0)
        above == type.storage - type.real - type.shift
    IN  bits + (IF above > 0 THEN noise * 2^(type.real + type.shift) ELSE 0)

ByteOf(type, word, i) ==
    LET place == IF type.big THEN Width(type) - 1 - i ELSE i
    IN  (word \div 2^(ByteBits * place)) % 2^ByteBits

KernelOffset ==
    LET at[i \in DOMAIN enabled] ==
          IF i = 1 THEN 0
          ELSE LET end == at[i - 1] + Length(enabled[i - 1])
               IN  CHOOSE n \in end .. end + Length(enabled[i]) - 1 : n % Length(enabled[i]) = 0
    IN  at

\* The scan when every channel measures its part of `measure`.
PushedScan(measure, noise) ==
    LET at == KernelOffset
        size == IF enabled = <<>> THEN 0 ELSE at[Len(enabled)] + Length(Last(enabled))
    IN  [b \in 0 .. size - 1 |->
            LET here == {i \in DOMAIN enabled : at[i] <= b /\ b < at[i] + Length(enabled[i])}
            IN  IF here = {} THEN noise
                ELSE LET i == CHOOSE k \in here : TRUE
                         t == TypeOfElement(enabled[i])
                         element == (b - at[i]) \div Width(t)
                     IN  ByteOf(t, Stored(t, measure[enabled[i]] + element, noise),
                                (b - at[i]) % Width(t))]

Expected(spec, measure) ==
    [m \in DOMAIN spec.ids |-> <<Convert(spec, spec.ids[m], measure[spec.ids[m]])>>]

\* A quaternion has an element per number, each one more than the one before.
ExpectedScan(spec, measure) ==
    IF spec.kind # "ROTATION_VECTOR" THEN Expected(spec, measure)
    ELSE [m \in DOMAIN spec.ids |->
            [e \in 1 .. TypeOfElement(spec.ids[m]).repeat |->
                Convert(spec, spec.ids[m], measure[spec.ids[m]] + e - 1)]]

\* What the attributes hold: "raw" the count, "input" the value in IIO units.
Files(measure) ==
    [id \in DOMAIN measure |->
        [raw |-> measure[id], input |-> (measure[id] + Offset(id)) * channels[id].scale]]

Scanned(spec) == buffered /\ ToSet(spec.ids) \subseteq ToSet(enabled)

Sample ==
    /\ channels # <<>> /\ sensors # <<>>
    /\ \E measure \in [UNION {ToSet(sensors[s].ids) : s \in DOMAIN sensors} \cup ToSet(enabled) -> Measures],
          noise \in {0, 1} :
         /\ \A id \in ToSet(enabled) : measure[id] >= 0 \/ TypeOfElement(id).signed
         /\ \E scan \in {PushedScan(measure, noise)} :
           reads' = UNION {
             (IF Scanned(sensors[s])
              THEN {[path |-> "scan", got |-> FromScan(sensors[s], scan),
                     meant |-> ExpectedScan(sensors[s], measure)]} ELSE {})
             \cup
             (IF CanPoll(channels, sensors[s]) /\ sensors[s].kind # "ROTATION_VECTOR"
              THEN {[path |-> "sysfs", got |-> FromSysfs(sensors[s], Files(measure)),
                     meant |-> Expected(sensors[s], measure)]} ELSE {})
             : s \in DOMAIN sensors}
    /\ UNCHANGED <<driver, channels, sensors, buffered, enabled>>

Next == Discover \/ Enable \/ Sample

Spec == Init /\ [][Next]_vars

-----------------------------------------------------------------------------
\* Whatever the kernel put beside it in a scan, and whichever elements it
\* agreed to scan, a sensor reads what its channels measured, and it reads
\* the same from sysfs: the layout, the decoding and the two ways of scaling
\* agree (ComputeScanLayout, DecodeRaw, ConvertChannelValue, ProbeChannels).
ReadsMeasured == \A r \in reads : r.got = r.meant
=============================================================================
