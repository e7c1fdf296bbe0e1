--------------------------- MODULE CameraDiscovery ---------------------------
(***************************************************************************)
(* What a scan of /dev makes of its nodes (camera provider/Discovery.cpp   *)
(* and MediaPipeline.cpp): plain capture nodes, and the sensors of a media *)
(* device with the path of links their frames take; and how a session sets *)
(* that path up (session/PipelineController.cpp).                          *)
(*                                                                         *)
(* Nodes appear and get their permissions while scans run.  There is one   *)
(* media device, which stays.  A camera's key is a number; for a sensor it *)
(* is its entity, and entities are the numbers of their nodes.             *)
(***************************************************************************)
EXTENDS Integers, Sequences, SequencesExt, FiniteSets, FiniteSetsExt, Functions

CONSTANTS
    MediaNode,          \* /dev/media0
    Function,           \* entity -> "sensor", "stage", "converter" or "video"
    Links,              \* set of [id, source, sink, immutable]; source and sink are <<entity, pad>>
    Codes,              \* sensor or converter -> media bus codes of its source pad
    Bayer,              \* IsBayerMbusCode()
    NodeFormats,        \* video entity -> code -> pixel formats
    KnownFormats,       \* PixelFormatsForMbusCode(), empty when not known
    Processed, Isp,     \* IsProcessedPixelFormat(), IsIspPixelFormat()
    SoftwareIsp,        \* properties.software_isp
    MaxDepth,           \* kMaxDepth
    Plain,              \* capture node -> [key, caps, infrared, formats]
    Facts,              \* key -> what properties, firmware, hwdb and sysfs say
    Properties,         \* [include_ir, default_internal, facing_by_resolution]
    LinkedFlash,        \* sensor -> flash sub-devices linked to it
    LedClass,           \* ListFlashLeds()
    Light,              \* the light behind a flash sub-device or LED class device
    Late,               \* nodes that may come, or get their permissions, after the start
    MaxUnplugs          \* bound: removals of plain nodes

VARIABLES
    node,       \* node -> "absent", "created" or "open", as open() sees it
    unplugs,
    due,        \* a scan is due: an inotify event, or a retry
    cameras,    \* cameras_: key -> candidate
    enabled,    \* ids of the links the kernel has enabled
    session     \* the last Configure() of a session, or NoSession

vars == <<node, unplugs, due, cameras, enabled, session>>

Entities == DOMAIN Function
Nodes == {MediaNode} \cup Entities \cup DOMAIN Plain
NoSession == [camera |-> 0, ok |-> FALSE, code |-> 0]

Init ==
    /\ node \in {f \in [Nodes -> {"absent", "created", "open"}] :
                    \A n \in Nodes \ Late : f[n] = "open"}
    /\ unplugs = 0 /\ due = TRUE /\ cameras = <<>>
    /\ enabled \in {e \in SUBSET {l.id : l \in Links} :
                        \A l \in Links : l.immutable => l.id \in e}
    /\ session = NoSession

-----------------------------------------------------------------------------
(* MediaPipeline.cpp.                                                      *)

\* ReadTopology() finds the device node of an entity.
HasDevnode(e) == node[e] # "absent"
SinkOf(p) == Last(p).sink[1]
Visited(p, sensor) == {sensor} \cup {p[i].sink[1] : i \in DOMAIN p}

\* FindPaths() goes on from the path p of a sensor with the link l.
Continues(sensor, p, l) ==
    /\ l.source[1] = IF p = <<>> THEN sensor ELSE SinkOf(p)
    /\ p # <<>> => Function[SinkOf(p)] # "video"
    /\ l.sink[1] \notin Visited(p, sensor)
    /\ Function[l.sink[1]] # "sensor"
    /\ HasDevnode(l.sink[1])
    /\ l.id \in enabled \/ ~l.immutable              \* IsUsable()

\* Every path of usable links to a video node, of MaxDepth links at most.
FindPaths(sensor) ==
    LET grown[n \in 0..MaxDepth] ==
            IF n = 0 THEN {<<>>}
            ELSE grown[n - 1] \cup
                 {Append(x[1], x[2]) : x \in {y \in grown[n - 1] \X Links : Continues(sensor, y[1], y[2])}}
    IN {p \in grown[MaxDepth] : p # <<>> /\ Function[SinkOf(p)] = "video"}

Converters(p) == {p[i].sink[1] : i \in {j \in DOMAIN p : Function[p[j].sink[1]] = "converter"}}
FirstConverter(p) == p[Min({i \in DOMAIN p : Function[p[i].sink[1]] = "converter"})].sink[1]

\* (sensor code, output code of the converters, code at the video node).
FormatCodes(sensor, p, raw) ==
    IF Converters(p) = {}
    THEN {<<c, 0, c>> : c \in {d \in Codes[sensor] : (d \in Bayer) = raw}}
    ELSE IF raw \/ node[FirstConverter(p)] # "open" THEN {}
    ELSE {<<c, o, o>> : c \in Codes[sensor], o \in Codes[FirstConverter(p)] \ Bayer}

\* The formats of a path: pixel format -> [sensor_code, output_code].
EvaluateFormats(sensor, p, raw) ==
    LET video == SinkOf(p)
        Delivers(codes, f) ==
            /\ f \in NodeFormats[video][codes[3]] /\ f \in (IF raw THEN Isp ELSE Processed)
            /\ KnownFormats[codes[3]] = {} \/ f \in KnownFormats[codes[3]]
        codes == FormatCodes(sensor, p, raw)
        First(f) == CHOOSE c \in codes :
            /\ Delivers(c, f)
            /\ \A d \in codes : Delivers(d, f) => (c[2] < d[2] \/ (c[2] = d[2] /\ c[1] <= d[1]))
    IN IF node[video] # "open" THEN <<>>
       ELSE [f \in {g \in Processed \cup Isp : \E c \in codes : Delivers(c, g)} |->
                [sensor_code |-> First(f)[1], output_code |-> First(f)[2]]]

EnabledLinks(p) == Cardinality({i \in DOMAIN p : p[i].id \in enabled})
Ids(p) == [i \in DOMAIN p |-> p[i].id]

\* "Most formats, then the shortest path, then the one closest to being set up
\* already", then the one found first.
Before(a, b) == \E i \in DOMAIN a : i \in DOMAIN b /\ a[i] < b[i] /\ \A j \in 1..(i-1) : a[j] = b[j]
Better(a, b) ==
    LET fa == Cardinality(DOMAIN a.formats)   fb == Cardinality(DOMAIN b.formats)
        la == Len(a.path)   lb == Len(b.path)
        ea == EnabledLinks(a.path)   eb == EnabledLinks(b.path)
    IN \/ fa > fb
       \/ fa = fb /\ la < lb
       \/ fa = fb /\ la = lb /\ ea > eb
       \/ fa = fb /\ la = lb /\ ea = eb /\ Before(Ids(a.path), Ids(b.path))

\* pick(): the best path, or {}.
Pick(sensor, raw) ==
    UNION {{b \in usable : \A c \in usable \ {b} : Better(b, c)} :
        usable \in {{b \in {[path |-> p, formats |-> EvaluateFormats(sensor, p, raw)] : p \in FindPaths(sensor)} :
                        DOMAIN b.formats # {}}}}

RawOnly(sensor) == FindPaths(sensor) # {} /\ Codes[sensor] \subseteq Bayer

\* DiscoverMediaCameras() for one sensor: the pipeline, or {}.
SensorPipeline(sensor) ==
    IF node[sensor] # "open" THEN {}
    ELSE UNION {IF best # {} THEN best
                ELSE IF RawOnly(sensor) /\ SoftwareIsp THEN Pick(sensor, TRUE) ELSE {} :
                best \in {Pick(sensor, FALSE)}}

-----------------------------------------------------------------------------
(* Discovery.cpp.                                                          *)

\* ResolvePlacement(): from the most to the least authoritative source.  "" is
\* what nobody says.
IsInternal(k, sensor) ==
    LET f == Facts[k] IN
    CASE f.internal # "" -> f.internal = "yes"
      [] f.internal = "" /\ f.orientation # "" -> f.orientation # "external"
      [] f.internal = "" /\ f.orientation = "" /\ sensor -> TRUE
      [] f.internal = "" /\ f.orientation = "" /\ ~sensor /\ f.removable # "" -> f.removable = "no"
      [] OTHER -> Properties.default_internal

FacingOf(k) ==
    LET f == Facts[k]
        said == SelectSeq(<<f.facing, IF f.orientation = "external" THEN "" ELSE f.orientation,
                            f.hwdb, IF f.removable = "no" THEN "front" ELSE "">>,
                          LAMBDA s : s # "")
    IN IF said = <<>> THEN "" ELSE Head(said)

\* V4L2 gives the counter-clockwise correction, Android the clockwise one.
RotationOf(k) == IF Facts[k].rotation % 90 = 0 THEN (360 - (Facts[k].rotation % 360)) % 360 ELSE 0

Candidate(k, path, sensor, pipeline) ==
    [key |-> k, path |-> path, internal |-> IsInternal(k, sensor),
     facing |-> IF FacingOf(k) = "" THEN "back" ELSE FacingOf(k), facing_known |-> FacingOf(k) # "",
     rotation |-> RotationOf(k), pipeline |-> pipeline, leds |-> {}]

\* ProbeMediaDevice().
ProbeMediaDevice ==
    {Candidate(p[1], SinkOf(p[2].path), TRUE, p[2]) : p \in
        UNION {{s} \X SensorPipeline(s) :
                 s \in {e \in Entities : Function[e] = "sensor" /\ Facts[e].enabled # "no"}}}

\* ProbeCaptureNode() accepts the node.
IsCaptureNode(n) ==
    LET p == Plain[n]   f == Facts[p.key] IN
    /\ "capture" \in p.caps /\ "streaming" \in p.caps
    /\ "m2m" \notin p.caps /\ "io_mc" \notin p.caps
    /\ f.enabled # "no"
    /\ p.infrared => (Properties.include_ir \/ f.enabled = "yes")
    /\ \/ p.formats \cap Processed # {}
       \/ SoftwareIsp /\ p.formats \cap Isp # {}

\* Of the internal cameras whose facing is not known the one with the smallest
\* resolution faces front.
ApplyFacingByResolution(found) ==
    LET unknown == {c \in found : c.internal /\ ~c.facing_known}
        Smaller(a, b) == \/ Facts[a.key].area < Facts[b.key].area
                         \/ Facts[a.key].area = Facts[b.key].area /\ a.key <= b.key
    IN IF ~Properties.facing_by_resolution \/ Cardinality(unknown) < 2 THEN found
       ELSE (found \ unknown) \cup
            {[c EXCEPT !.facing = IF \A d \in unknown : Smaller(c, d) THEN "front" ELSE "back"] :
                c \in unknown}

\* The LEDs named by a property, otherwise the flashes linked to the sensor.
OwnFlash(c) ==
    IF Facts[c.key].flash_led # {} THEN Facts[c.key].flash_led
    ELSE IF c.pipeline # <<>> THEN LinkedFlash[c.key] ELSE {}

\* AssignFlashLeds(): when no camera has its own, the LED class goes to the first
\* internal back camera.
AssignFlashLeds(found) ==
    LET backs == {c.key : c \in {d \in found : d.internal /\ d.facing = "back"}}
        configured == \E c \in found : OwnFlash(c) # {}
    IN {[c EXCEPT !.leds = IF ~configured /\ backs # {} /\ c.key = Min(backs)
                           THEN LedClass ELSE OwnFlash(c)] : c \in found}

Known == Range(cameras)
KnownMedia == {c \in Known : c.pipeline # <<>>}
KnownAt(n) == {c \in Known : c.pipeline = <<>> /\ c.path = n}

\* The media device is probed unless a camera of it is known.
MediaCameras ==
    IF node[MediaNode] = "absent" THEN {}
    ELSE IF KnownMedia # {} THEN KnownMedia
    ELSE IF node[MediaNode] = "open" THEN ProbeMediaDevice ELSE {}

\* A known node is not opened; a node that can not be opened is no camera.
PlainCamera(n) ==
    IF node[n] = "absent" THEN {}
    ELSE IF KnownAt(n) # {} THEN KnownAt(n)
    ELSE IF node[n] = "open" /\ IsCaptureNode(n) THEN {Candidate(Plain[n].key, n, FALSE, <<>>)} ELSE {}

\* Of several nodes with the same key the first is used.
PlainCameras ==
    LET all == UNION {PlainCamera(n) : n \in DOMAIN Plain}
    IN {c \in all : \A d \in all : d.key = c.key => c.path <= d.path}

\* Permissions that are not applied yet; what ProbeMediaDevice() can not open
\* does not count.
WantsRetry ==
    \/ node[MediaNode] = "created" /\ KnownMedia = {}
    \/ \E n \in DOMAIN Plain : node[n] = "created" /\ KnownAt(n) = {}

DiscoverCameras ==
    UNION {AssignFlashLeds(ApplyFacingByResolution(found)) : found \in {MediaCameras \cup PlainCameras}}

\* Rescan(): a camera whose node did not change keeps what it was published with.
Kept(found) == {c \in Known : \E d \in found : d.key = c.key /\ d.path = c.path}
Scan ==
    /\ due /\ due' = FALSE
    /\ \E found \in {DiscoverCameras} :
       LET kept == Kept(found)
           all == kept \cup {d \in found : \A c \in kept : c.key # d.key}
       IN cameras' = [k \in {c.key : c \in all} |-> CHOOSE c \in all : c.key = k]
    /\ UNCHANGED <<node, unplugs, enabled, session>>

\* The monitor's retry.  The node it waits for may have been opened meanwhile.
Retry ==
    /\ ~due /\ WantsRetry /\ due' = TRUE
    /\ UNCHANGED <<node, unplugs, cameras, enabled, session>>

-----------------------------------------------------------------------------
(* /dev.                                                                   *)

Appear(n) ==
    /\ node[n] # "open"
    /\ node' = [node EXCEPT ![n] = IF @ = "absent" THEN "created" ELSE "open"]
    /\ due' = TRUE
    /\ UNCHANGED <<unplugs, cameras, enabled, session>>

Unplug(n) ==
    /\ node[n] # "absent" /\ unplugs < MaxUnplugs
    /\ unplugs' = unplugs + 1
    /\ node' = [node EXCEPT ![n] = "absent"] /\ due' = TRUE
    /\ UNCHANGED <<cameras, enabled, session>>

-----------------------------------------------------------------------------
(* PipelineController, for one session at a time.                          *)

LinksIn(sink) == {l \in Links : l.sink = sink}

\* What is switched on for a hop.
LinkOf(l) == IF l.id \in enabled \/ l.immutable THEN {} ELSE {l.id}
\* Only the links of the path are enabled.
HopOpsKeep(l) == [off |-> {}, on |-> LinkOf(l)]
\* "A sink pad takes one stream: disable whatever else feeds it", one by one, then
\* enable the link.
HopOps(l) ==
    [off |-> {o.id : o \in {m \in LinksIn(l.sink) \ {l} : m.id \in enabled /\ ~m.immutable}},
     on |-> LinkOf(l)]

\* EnableLinks() from the links as they were when the media device was opened, up
\* to some hops and in the next one up to some link.  The hops of a path end at
\* different pads, so none undoes what another did.
SwitchedOff(p, hops) == UNION {HopOps(p[i]).off : i \in hops}
SwitchedOn(p, hops) == UNION {HopOps(p[i]).on : i \in hops}
EnableLinks(p, hops, upto) ==
    LET off == SwitchedOff(p, 1..hops)
               \cup {id \in SwitchedOff(p, DOMAIN p \cap {hops + 1}) : id <= upto}
    IN (enabled \ off) \cup SwitchedOn(p, 1..hops)

\* Every stage takes what the one before sends and passes it on, converted in
\* converting stages.
PassOn(p, f) ==
    IF Converters(p) # {} /\ f.output_code # 0 THEN f.output_code ELSE f.sensor_code

\* Configure(): each of its ioctls may fail, what was done before stays done.
Configure(k) ==
    /\ cameras[k].pipeline # <<>>
    /\ \E format \in DOMAIN cameras[k].pipeline.formats :
       LET p == cameras[k].pipeline.path
       IN \E hops \in 0..Len(p), ok \in BOOLEAN :
          \E upto \in {0} \cup SwitchedOff(p, DOMAIN p \cap {hops + 1}) :
            /\ ok => hops = Len(p)
            /\ enabled' = EnableLinks(p, hops, upto)
            /\ session' = [camera |-> k, ok |-> ok,
                           code |-> PassOn(p, cameras[k].pipeline.formats[format])]
    /\ UNCHANGED <<node, unplugs, due, cameras>>

-----------------------------------------------------------------------------
Next ==
    \/ Scan \/ Retry
    \/ \E n \in Nodes : Appear(n)
    \/ \E n \in DOMAIN Plain : Unplug(n)
    \/ \E k \in DOMAIN cameras : Configure(k)

Spec == Init /\ [][Next]_vars

-----------------------------------------------------------------------------
\* What a scan would find that starts afresh.
WouldFind ==
    (IF node[MediaNode] = "open" THEN {c.key : c \in ProbeMediaDevice} ELSE {})
    \cup {Plain[n].key : n \in {m \in DOMAIN Plain : node[m] = "open" /\ IsCaptureNode(m)}}

\* "Finds all cameras: camera sensors behind /dev/media* nodes and plain capture
\* nodes": when every node that is there can be opened and no scan is due, the
\* published cameras are those a scan finds that starts afresh, each plain one from
\* the first node that has it.
FindsAll ==
    (~due /\ \A n \in Nodes : node[n] # "created") =>
        /\ DOMAIN cameras = WouldFind
        /\ \A k \in DOMAIN cameras : cameras[k].pipeline = <<>> =>
              cameras[k].path = Min({n \in DOMAIN Plain :
                                          Plain[n].key = k /\ node[n] = "open" /\ IsCaptureNode(n)})

\* After a session configured its pipeline the stream of its sensor, and of no
\* other, reaches its video node, in a format the node can capture, whatever
\* links other sessions and failed attempts left behind.
StreamReaches ==
    session.ok =>
        LET p == cameras[session.camera].pipeline.path IN
        /\ p[1].source[1] = session.camera
        /\ \A i \in DOMAIN p :
              {l.id : l \in {m \in LinksIn(p[i].sink) : m.id \in enabled /\ ~m.immutable}}
                = IF p[i].immutable THEN {} ELSE {p[i].id}
        /\ NodeFormats[SinkOf(p)][session.code] \cap (Processed \cup Isp) # {}

\* A light is never in the hands of two published cameras, also when one is named
\* by its sub-device and the other by its LED class device.
LightsUnshared ==
    \A j, k \in DOMAIN cameras : j # k =>
        {Light[l] : l \in cameras[j].leds} \cap {Light[l] : l \in cameras[k].leds} = {}
=============================================================================
