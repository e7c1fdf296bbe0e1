------------------------------ MODULE SensorConfig ------------------------------
(***************************************************************************)
(* What the sensors HAL knows of a sensor beside what its driver tells:    *)
(* the configuration files and properties (Settings.cpp), the hardware     *)
(* database with its file format and its keys (Hwdb.cpp, UdevSanitize.cpp, *)
(* SensorHwdb.cpp, DmiModalias.cpp), and how an IIO sensor puts them       *)
(* together when it is made (the constructor of IioSensor).                *)
(*                                                                         *)
(* Text is a sequence of characters, of which the special ones have names: *)
(* "tab", "U2" to "U4" for the first and "C" for the other bytes of a      *)
(* character in UTF-8.  Lines are parsed, see ParseLine and LoadLine.      *)
(* Patterns of the database are literal in each of their three parts, or   *)
(* Wildcard.  Delays are in microseconds, rates in Hz.                     *)
(***************************************************************************)
EXTENDS Integers, Sequences, SequencesExt, FiniteSets, TLC

CONSTANTS Machines      \* the machines, see Init

VARIABLES
    machine,    \* hwdbFiles, confFiles, props, tables, dmiClass, sensor; see below
    unreadable, \* files that cannot be read, as <<"hwdb" or "conf", index>>
    hwdb,       \* entries_ of the database
    dmi,        \* dmi_modalias_
    fileValues, \* file_values_: key |-> value; a key is a sequence of words
    stage,      \* what comes next: "settings", "hwdb", "sensor", "made"
    info        \* the sensor made, <<>> before

vars == <<machine, unreadable, hwdb, dmi, fileValues, stage, info>>

Empty == <<>>
Wildcard == <<"*">>
Blank == <<"blank">>

Init ==
    /\ machine \in Machines
    /\ unreadable = {}
    /\ hwdb = <<>>
    /\ dmi = Empty
    /\ fileValues = Empty
    /\ stage = "settings"
    /\ info = <<>>

\* The value of the first of some sources that has one, as a set.
FirstOf(sources) ==
    LET has == {i \in DOMAIN sources : sources[i] # {}}
    IN  IF has = {} THEN {} ELSE sources[CHOOSE i \in has : \A j \in has : i <= j]

-----------------------------------------------------------------------------
(* The file format of the database: import_file() of systemd, quirks       *)
(* included.  A line is <<"match", pattern>>, <<"property", key, value>>,  *)
(* <<"malformed">> (indented, without a key), Blank or <<"comment">>.      *)

NotInRecord == [state |-> "none", patterns |-> {}, properties |-> Empty]

FinishRecord(p) ==
    NotInRecord @@
    [entries |-> IF p.patterns # {} /\ DOMAIN p.properties # {}
                 THEN Append(p.entries, [patterns |-> p.patterns, properties |-> p.properties])
                 ELSE p.entries]

InsertProperty(p, line) ==
    [p EXCEPT !.state = "data",
              !.properties = IF line[1] = "property" THEN (line[2] :> line[3]) @@ @ ELSE @]

ParseLine(p, line) ==
    CASE line[1] = "comment" -> p
      [] p.state = "none" /\ line[1] # "match" -> p
      [] p.state # "data" /\ line[1] = "match" ->
            [p EXCEPT !.state = "match", !.patterns = @ \cup {line[2]}]
      [] p.state # "none" /\ (line = Blank \/ line[1] = "match") -> FinishRecord(p)
      [] OTHER -> InsertProperty(p, line)

Parse(lines) ==
    FinishRecord(FoldLeft(ParseLine, NotInRecord @@ [entries |-> <<>>], lines)).entries

\* A mutant: files are joined as they are.
JoinedBare(all, file) == all \o file

\* A file that ends within a record does not swallow the start of the next.
Joined(all, file) == all \o file \o <<Blank>>

Matches(pattern, query) ==
    /\ pattern.label = query.label
    /\ pattern.modalias \in {Wildcard, query.modalias}
    /\ pattern.dmi \in {Wildcard, query.dmi}

\* Later entries override earlier ones.
GetProperties(query) ==
    FoldLeft(LAMBDA result, entry :
                IF \E p \in entry.patterns : Matches(p, query)
                THEN entry.properties @@ result ELSE result,
             Empty, hwdb)

-----------------------------------------------------------------------------
(* The keys of the database.                                               *)

Lead == "U2" :> 2 @@ "U3" :> 3 @@ "U4" :> 4
Allowed(c) == c \notin DOMAIN Lead \cup {"C", "(", ")", "tab", "\\"}

Utf8SequenceLength(text, i) ==
    IF /\ text[i] \in DOMAIN Lead /\ i + Lead[text[i]] - 1 <= Len(text)
       /\ \A k \in i + 1 .. i + Lead[text[i]] - 1 : text[k] = "C"
    THEN Lead[text[i]] ELSE 0

Kept(text, i) ==
    \/ Allowed(text[i])
    \/ text[i] = "\\" /\ i < Len(text) /\ text[i + 1] = "x"
    \/ \E k \in 0 .. 3 : k < i /\ Utf8SequenceLength(text, i - k) > k

UdevSanitize(text) ==
    [i \in DOMAIN text |->
        IF Kept(text, i) THEN text[i] ELSE IF text[i] = "tab" THEN " " ELSE "_"]

\* The modalias of the machine from its SMBIOS tables: fields are by their
\* prefix in it, and those the structure is too short for are left out.
Needs == "br" :> 21 @@ "efr" :> 23 @@ "sku" :> 26 @@ "pfa" :> 27
NoRelease == <<"255", ".", "255">>
Reported(structure, prefix) ==
    /\ prefix \in DOMAIN structure.fields
    /\ structure.fields[prefix] \notin {Empty, NoRelease}
    /\ prefix \in DOMAIN Needs => structure.length >= Needs[prefix]

\* A mutant: whatever the structure holds.
ReportedAlways(structure, prefix) == prefix \in DOMAIN structure.fields

AppendFiltered(out, prefix, value) ==
    out \o <<prefix>> \o SelectSeq(value, LAMBDA c : c \notin {" ", ":"}) \o <<":">>

BuildDmiModaliasFromSmbios ==
    FoldLeft(LAMBDA out, prefix :
                LET with == SelectSeq(machine.tables, LAMBDA s : Reported(s, prefix))
                    \* One type of chassis, but every other field of every structure.
                    used == IF prefix = "ct" /\ with # <<>> THEN <<Last(with)>> ELSE with
                IN  FoldLeft(LAMBDA o, s : AppendFiltered(o, prefix, s.fields[prefix]), out, used),
             IF machine.tables = <<>> THEN Empty ELSE <<"dmi", ":">>,
             <<"bvn", "bvr", "bd", "br", "efr", "svn", "pn", "pvr", "rvn", "rn", "rvr",
               "cvn", "ct", "cvr", "sku", "pfa">>)

ReadDmiModalias ==
    IF machine.dmiClass # Empty THEN machine.dmiClass ELSE BuildDmiModaliasFromSmbios

Query(label) ==
    [label |-> label, modalias |-> UdevSanitize(machine.sensor.modalias), dmi |-> dmi]

\* With the label first: the more specific key wins.
BuildMatchStrings ==
    IF machine.sensor.label = Empty THEN <<Query(Empty)>>
    ELSE <<Query(UdevSanitize(machine.sensor.label)), Query(Empty)>>

Lookup == FoldLeft(LAMBDA result, q : result @@ GetProperties(q), Empty, BuildMatchStrings)

\* A value of the database for the sensor, as a set.
FromHwdb(key) ==
    IF machine.sensor.modalias = Empty \/ key \notin DOMAIN Lookup THEN {}
    ELSE {Lookup[key]}

-----------------------------------------------------------------------------
(* Settings: a line is <<"section", words>>, <<"value", words, value>> or  *)
(* <<"other">>; a value is <<its form, what it says>>.                     *)

LoadLine(file, line) ==
    CASE line[1] = "section" -> [file EXCEPT !.section = line[2]]
      [] line[1] = "value" -> [file EXCEPT !.values = (file.section \o line[2] :> line[3]) @@ @]
      [] OTHER -> file

LoadFile(values, file) ==
    FoldLeft(LoadLine, [section |-> <<>>, values |-> values], file).values

\* A property overrides the files.
GetString(key) ==
    IF key \in DOMAIN machine.props THEN {machine.props[key]}
    ELSE IF key \in DOMAIN fileValues THEN {fileValues[key]} ELSE {}

ParsedAs(form, value) == form = "text" \/ value[1] = form

\* Most specific first, by the two names of the device.
SettingKeys(key) ==
    LET s == machine.sensor
        of(name) == <<name \o <<s.type, key>>, name \o <<key>>>>
    IN  of(s.config) \o (IF s.alt = <<>> THEN <<>> ELSE of(s.alt))

\* GetFirstString() and the like: a value of another form is passed over.
GetFirst(form, key) ==
    LET keys == SettingKeys(key)
    IN  FirstOf([i \in DOMAIN keys |-> {v[2] : v \in {w \in GetString(keys[i]) : ParsedAs(form, w)}}])

-----------------------------------------------------------------------------
(* Loading: files that cannot be read are passed over.                     *)

Readable(kind, files) ==
    LET all == [i \in DOMAIN files |-> [name |-> <<kind, i>>, lines |-> files[i].lines]]
        some == SelectSeq(all, LAMBDA f : f.name \notin unreadable')
    IN  [i \in DOMAIN some |-> some[i].lines]

\* Files are in the order of their directories: /odm overrides /vendor.
LoadSettings ==
    /\ stage = "settings"
    /\ stage' = "hwdb"
    /\ \E bad \in SUBSET {<<"conf", i>> : i \in DOMAIN machine.confFiles} :
         unreadable' = unreadable \cup bad
    /\ fileValues' = FoldLeft(LoadFile, Empty, Readable("conf", machine.confFiles))
    /\ UNCHANGED <<machine, hwdb, dmi, info>>

LoadHwdb ==
    /\ stage = "hwdb"
    /\ stage' = "sensor"
    /\ \E bad \in SUBSET {<<"hwdb", i>> : i \in DOMAIN machine.hwdbFiles} :
         unreadable' = unreadable \cup bad
    /\ hwdb' = Parse(FoldLeft(Joined, <<>>, Readable("hwdb", machine.hwdbFiles)))
    /\ dmi' = UdevSanitize(ReadDmiModalias)
    /\ UNCHANGED <<machine, fileValues, info>>

-----------------------------------------------------------------------------
(* The sensor: `sensor` of the machine has its names (config, alt), type,  *)
(* payload, modalias, label, channels [scale, offset, processed, bits],    *)
(* rates and matrices (the contents of the files that are tried, in their  *)
(* order), nearLevels (likewise), buffer, distance, quirk and defaults.    *)

MaxOf(a, b) == IF a >= b THEN a ELSE b
MinOf(a, b) == IF a <= b THEN a ELSE b
OneSecond == 1000000

\* bits: of a scan element, 0 when there is none; scale 0 when there is none.
MaxRawValue(c) == 2^c.bits - 1

Ranged(c) == c.bits > 0 /\ c.bits < 31 /\ ~(c.scale = 0 /\ c.processed)
UnitScale(c) == IF c.scale = 0 THEN 1 ELSE c.scale

DeriveRange(s) ==
    LET ranges == {(MaxRawValue(c) + c.offset) * UnitScale(c) : c \in {d \in ToSet(s.channels) : Ranged(d)}}
        found == {r \in ranges : r > 0}
    IN  IF s.payload = "proximity" \/ found = {} THEN s.defaults.range
        ELSE CHOOSE r \in found : \A o \in found : r >= o

\* The rates of the first file that lists some, slowest first.
DeriveDelays(s) ==
    LET files == SelectSeq(s.rates, LAMBDA r : r # <<>>)
        listed == files # <<>> /\ Last(files[1]) > 0
        least == IF listed THEN OneSecond \div Last(files[1]) ELSE s.defaults.minDelay
        most == IF listed /\ Head(files[1]) > 0 THEN OneSecond \div Head(files[1])
                ELSE s.defaults.maxDelay
        low == MaxOf(least, IF s.buffer THEN 5000 ELSE 20000)
    IN  IF s.continuous THEN [min |-> low, max |-> MaxOf(MinOf(most, OneSecond), low)]
        ELSE [min |-> s.defaults.minDelay, max |-> s.defaults.maxDelay]

Identity == <<<<1, 0, 0>>, <<0, 1, 0>>, <<0, 0, 1>>>>

\* MountMatrix::Parse(): three rows of three numbers, not all zero.
ParseMatrix(text) ==
    IF /\ Len(text) = 3 /\ \A r \in DOMAIN text : Len(text[r]) = 3
       /\ \E r, c \in 1 .. 3 : text[r][c] # 0
    THEN text ELSE Identity

\* The first source that has a matrix counts, even if it is not one.
ResolveMountMatrix(s) ==
    LET files == SelectSeq(s.matrices, LAMBDA m : m # <<>>)
        text == FirstOf(<<GetFirst("text", "mount_matrix"), FromHwdb("ACCEL_MOUNT_MATRIX"),
                          {m \in ToSet(files) : m = Head(files)}>>)
    IN  IF text = {} THEN Identity ELSE ParseMatrix(CHOOSE m \in text : TRUE)

\* A mutant: a level that is not positive hides the sources below.
PositiveNot(levels) == levels

\* A level must be positive; half of the scale when nothing tells one.
Positive(levels) == {l \in levels : l > 0}

ResolveProximityNearLevel(s) ==
    LET near == SelectSeq(s.nearLevels, LAMBDA l : l # 0)
        file == {l \in ToSet(near) : l = Head(near)}
        level == FirstOf(<<Positive(GetFirst("number", "proximity_near_level")),
                           Positive(FromHwdb("PROXIMITY_NEAR_LEVEL")), Positive(file),
                           Positive({s.quirk}),
                           IF s.channels # <<>> /\ s.channels[1].bits > 0
                           THEN {MaxRawValue(s.channels[1]) \div 2} ELSE {}>>)
    IN  IF s.distance \/ level = {} THEN 0 ELSE CHOOSE l \in level : TRUE

\* Nothing checks that the delays that are configured fit each other.
Override(form, key, derived, usable) ==
    LET set == GetFirst(form, key) IN IF set \cap usable = {} THEN derived ELSE CHOOSE v \in set : TRUE

MakeSensor ==
    /\ stage = "sensor"
    /\ stage' = "made"
    /\ LET s == machine.sensor IN
       \E derived \in {DeriveDelays(s)}, range \in {DeriveRange(s)} :
         info' = [matrix |-> IF s.payload = "vec3" THEN ResolveMountMatrix(s) ELSE Identity,
                  near |-> IF s.payload = "proximity" THEN ResolveProximityNearLevel(s) ELSE 0,
                  minDelay |-> Override("number", "min_delay_us", derived.min, Int),
                  maxDelay |-> Override("number", "max_delay_us", derived.max, Int),
                  range |-> Override("number", "max_range", range, Nat \ {0}),
                  wakeUp |-> Override("bool", "wake_up", s.defaults.wakeUp, BOOLEAN)]
    /\ UNCHANGED <<machine, unreadable, hwdb, dmi, fileValues>>

Next == LoadSettings \/ LoadHwdb \/ MakeSensor

Spec == Init /\ [][Next]_vars

-----------------------------------------------------------------------------
(* What the authors of the files meant: `records` of a file of the         *)
(* database, the machine's `modalias` as the kernel forms it, and the last *)
(* value under a key, in the section it stands in.                         *)

Written ==
    LET files == [i \in DOMAIN machine.hwdbFiles |->
                    IF <<"hwdb", i>> \in unreadable THEN <<>> ELSE machine.hwdbFiles[i].records]
    IN  FlattenSeq(files)

\* The last record that applies, of those with the label when there is one.
Meant(key) ==
    LET for(l) == {i \in DOMAIN Written :
                     /\ key \in DOMAIN Written[i].properties
                     /\ \E p \in Written[i].patterns :
                          /\ p.label = l
                          /\ p.modalias \in {Wildcard, machine.sensor.udevModalias}
                          /\ p.dmi \in {Wildcard, machine.modalias}}
        last(set) == IF set = {} THEN {}
                     ELSE {Written[CHOOSE i \in set : \A j \in set : i >= j].properties[key]}
        labelled == IF machine.sensor.label = Empty THEN {} ELSE for(machine.sensor.udevLabel)
    IN  IF labelled # {} THEN last(labelled) ELSE last(for(Empty))

SectionOf(lines, i) ==
    LET before == {j \in 1 .. i - 1 : lines[j][1] = "section"}
    IN  IF before = {} THEN <<>> ELSE lines[CHOOSE j \in before : \A k \in before : j >= k][2]

Places(key) ==
    {p \in (DOMAIN machine.confFiles) \X (1 .. 9) :
        /\ <<"conf", p[1]>> \notin unreadable
        /\ LET lines == machine.confFiles[p[1]].lines
               i == p[2]
           IN  i \in DOMAIN lines /\ lines[i][1] = "value" /\ SectionOf(lines, i) \o lines[i][2] = key}

Configured(key) ==
    IF key \in DOMAIN machine.props THEN {machine.props[key]}
    ELSE {machine.confFiles[p[1]].lines[p[2]][3] : p \in
            {q \in Places(key) : \A o \in Places(key) : o[1] < q[1] \/ (o[1] = q[1] /\ o[2] <= q[2])}}

\* A record of the database reaches the sensor it was written for, whatever
\* the other files contain and however the names are spelled by udev and by
\* SMBIOS; a setting counts in the section it stands in, the later file and
\* the property over it; and a sensor works with what it was given: a near
\* level when any source has one, and delays in order unless they were
\* configured (LoadFiles, Lookup, LoadFile, IioSensor's constructor).
AsConfigured ==
    /\ stage # "settings" => \A k \in 1 .. Len(SettingKeys("mount_matrix")), name \in
            {"mount_matrix", "proximity_near_level", "min_delay_us", "wake_up"} :
         GetString(SettingKeys(name)[k]) = Configured(SettingKeys(name)[k])
    /\ (stage \in {"sensor", "made"} /\ machine.sensor.modalias # Empty) =>
         \A key \in {"ACCEL_MOUNT_MATRIX", "PROXIMITY_NEAR_LEVEL"} : FromHwdb(key) = Meant(key)
    /\ stage = "made" => LET s == machine.sensor IN
         /\ (s.payload = "proximity" /\ ~s.distance /\ s.channels[1].bits > 1) => info.near > 0
         /\ \A l \in Meant("PROXIMITY_NEAR_LEVEL") :
              (s.payload = "proximity" /\ ~s.distance /\ l > 0
               /\ GetFirst("number", "proximity_near_level") = {}) => info.near = l
         /\ (GetFirst("number", "min_delay_us") = {} /\ GetFirst("number", "max_delay_us") = {}) =>
              info.minDelay <= info.maxDelay /\ info.maxDelay <= MaxOf(OneSecond, s.defaults.maxDelay)
=============================================================================
