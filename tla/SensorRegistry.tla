---------------------------- MODULE SensorRegistry ----------------------------
(***************************************************************************)
(* What happens before the sensors service is registered: the backends are *)
(* loaded (BackendLoader.cpp), initialized, and their sensors put into one *)
(* list with handles, over and over until enough sensors are there or the  *)
(* time is over, and composites are added (SensorManager::Initialize).     *)
(* Nodes of the kernel appear late and in any order.                       *)
(***************************************************************************)
EXTENDS Naturals, Sequences, SequencesExt

CONSTANTS
    Lists,          \* the lists of backends that may be resolved, sequences of names
    Nodes,          \* per backend: the nodes it looks for, in the order it does
    FallbackOnly,   \* backends with kSensorBackendFlagFallbackOnly
    Composites,     \* [type, inputs] of the composite sensors registered
    Expected,       \* wait_for_sensors
    MaxAttempts     \* bound: attempts before the time is over

Backends == DOMAIN Nodes

VARIABLES
    phase,          \* "load", "initialize", "register", "decide", "composites", "done"
    list,           \* the libraries that are loaded
    turn,           \* where the loop under way is in its list
    loaded,         \* backends_, in order
    present,        \* the nodes that are there, as <<backend, index>>
    initialized,    \* the backends that are
    offered,        \* per backend: local handle |-> sensor of GetSensorsList()
    hardware,       \* hardware_: handle |-> sensor
    toGlobal,       \* per backend: local_to_global
    next,           \* next_handle_
    handled,        \* the local handles of the backend whose turn it is, so far
    provided,       \* provided_types
    own,            \* backend_types
    used,           \* used_names
    composites,     \* composites_
    attempt

found == <<hardware, toGlobal, next>>
books == <<handled, provided, own, used>>
vars == <<phase, list, turn, loaded, present, initialized, offered, found, books, composites, attempt>>

AllNodes == UNION {{<<b, i>> : i \in DOMAIN Nodes[b]} : b \in Backends}
Nothing == [b \in Backends |-> <<>>]

Init ==
    /\ phase = "load"
    /\ list \in Lists /\ turn = 1
    /\ loaded = <<>>
    /\ present = {}
    /\ initialized = {}
    /\ offered = Nothing
    /\ hardware = <<>> /\ toGlobal = Nothing /\ next = 1
    /\ handled = {} /\ provided = {} /\ own = {} /\ used = {}
    /\ composites = <<>>
    /\ attempt = 1

-----------------------------------------------------------------------------
(* What a backend makes of its nodes.                                      *)

\* A name is what it is made of: the node's and what tells it from others.
Accelerometer(node) == <<[type |-> "ACCELEROMETER", name |-> node.name]>>
ProximitySwitch(node) == <<[type |-> "PROXIMITY", name |-> node.name]>>

\* InputDevice::Probe(): a device with three axes is an accelerometer unless
\* it looks like a touch screen or a gamepad and nothing says otherwise.
IsAccelerometer(node) ==
    /\ node.xyz
    /\ node.forced \/ node.accelProp \/ ~(node.touch \/ node.gamepad)

Probe(node) ==
    IF node.ignored THEN <<>>
    ELSE (IF IsAccelerometer(node) THEN Accelerometer(node) ELSE <<>>)
         \o (IF node.proximity THEN ProximitySwitch(node) ELSE <<>>)

GetSensorsList(b, i) ==
    LET mine == IF b = "input" THEN Probe(Nodes[b][i]) ELSE Nodes[b][i].sensors
    IN  [s \in DOMAIN mine |-> [type |-> mine[s].type, name |-> <<mine[s].name>>, node |-> i]]

\* A local handle is the place of a sensor: the node's and that on the node.
LocalHandles(b) ==
    UNION {{i} \X DOMAIN GetSensorsList(b, i) : i \in {n \in DOMAIN Nodes[b] : <<b, n>> \in present}}

DiscoverDevices(b) == [l \in LocalHandles(b) |-> GetSensorsList(b, l[1])[l[2]]]

\* IIO devices of one model tell their sensors apart by their numbers.
MakeSensorNamesUnique(sensors) ==
    [s \in DOMAIN sensors |->
        IF \E o \in DOMAIN sensors \ {s} :
              sensors[o].type = sensors[s].type /\ sensors[o].name = sensors[s].name
        THEN [sensors[s] EXCEPT !.name = @ \o <<"device", sensors[s].node>>] ELSE sensors[s]]

Discovered(b) ==
    IF b = "iio" THEN MakeSensorNamesUnique(DiscoverDevices(b)) ELSE DiscoverDevices(b)

-----------------------------------------------------------------------------
(* Loading: a library that is not found, was built against another version *)
(* or makes no instance is left out.                                       *)

LoadBackends ==
    /\ phase = "load"
    /\ loaded' \in {loaded, Append(loaded, list[turn])}
    /\ turn' = turn + 1
    /\ phase' = IF turn = Len(list) THEN "initialize" ELSE "load"
    /\ UNCHANGED <<list, present, initialized, offered, found, books, composites, attempt>>

NoHardware == hardware' = <<>> /\ toGlobal' = Nothing /\ next' = 1

\* A backend that fails is deinitialized and left for the next attempt.
InitializeBackends ==
    /\ phase = "initialize"
    /\ \E failing \in SUBSET (ToSet(loaded) \ initialized) :
         initialized' = ToSet(loaded) \ failing
    /\ offered' = [b \in Backends |-> IF b \in initialized' THEN Discovered(b) ELSE <<>>]
    /\ NoHardware
    /\ turn' = 1
    /\ phase' = "register"
    /\ UNCHANGED <<list, loaded, present, books, composites, attempt>>

-----------------------------------------------------------------------------
(* RegisterHardwareSensors()                                               *)

Named(sensor, b) ==
    IF <<sensor.type, sensor.name>> \in used THEN Append(sensor.name, b) ELSE sensor.name

\* Sensors no one can use.
Invalid(sensor) == sensor.type = "META_DATA" \/ sensor.name = <<"">>

\* A mutant: a fallback gives way to its own sensors only.
SkippedFallbackOfLast(b, type) == b \in FallbackOnly /\ type \in own

\* A fallback gives way to whatever earlier backends provide.
SkippedFallback(b, type) == b \in FallbackOnly /\ type \in provided

RegisterOne(b, local) ==
    LET sensor == offered[b][local]
        name == Named(sensor, b)
    IN  /\ handled' = handled \cup {local}
        /\ IF SkippedFallback(b, sensor.type) \/ Invalid(sensor) THEN UNCHANGED <<found, own, used>>
           ELSE /\ hardware' = Append(hardware, [backend |-> b, local |-> local, type |-> sensor.type,
                                                 name |-> name, handle |-> next])
                /\ toGlobal' = [toGlobal EXCEPT ![b] =
                       [l \in DOMAIN @ \cup {local} |-> IF l = local THEN next ELSE @[l]]]
                /\ next' = next + 1
                /\ own' = own \cup {sensor.type}
                /\ used' = used \cup {<<sensor.type, name>>}
        /\ UNCHANGED <<turn, provided>>

\* The types a backend provides count once all its sensors are registered.
RegisterBackend ==
    /\ provided' = provided \cup own /\ own' = {} /\ handled' = {}
    /\ turn' = turn + 1
    /\ UNCHANGED <<found, used>>

Before(l, o) == l[1] < o[1] \/ (l[1] = o[1] /\ l[2] < o[2])

RegisterHardwareSensors ==
    /\ phase = "register"
    /\ \/ /\ turn <= Len(loaded)
          /\ LET b == loaded[turn]
                 left == DOMAIN offered[b] \ handled
             IN  \/ \E local \in left : /\ \A o \in left \ {local} : Before(local, o)
                                        /\ RegisterOne(b, local)
                 \/ left = {} /\ RegisterBackend
          /\ phase' = "register"
       \/ /\ turn > Len(loaded)
          /\ provided' = {} /\ used' = {}
          /\ phase' = "decide"
          /\ UNCHANGED <<turn, found, handled, own>>
    /\ UNCHANGED <<list, loaded, present, initialized, offered, composites, attempt>>

-----------------------------------------------------------------------------
\* Enough sensors, or the time is over.
Complete == Expected = 0 \/ Len(hardware) >= Expected \/ attempt = MaxAttempts

Settle ==
    /\ phase = "decide" /\ Complete
    /\ turn' = 1
    /\ phase' = "composites"
    /\ UNCHANGED <<list, loaded, present, initialized, offered, found, books, composites, attempt>>

\* ShutdownBackends(): discovery is repeated from scratch.
Retry ==
    /\ phase = "decide" /\ ~Complete
    /\ initialized' = {}
    /\ offered' = Nothing
    /\ NoHardware
    /\ attempt' = attempt + 1
    /\ phase' = "initialize"
    /\ UNCHANGED <<list, turn, loaded, present, books, composites>>

TypesOf == {hardware[h].type : h \in DOMAIN hardware}
FirstOfType(type) ==
    CHOOSE h \in DOMAIN hardware :
        /\ hardware[h].type = type
        /\ \A o \in 1 .. h - 1 : hardware[o].type # type

\* RegisterComposites(): hardware comes before a composite of its type, and
\* a composite needs a sensor for each of its inputs.
RegisterComposites ==
    /\ phase = "composites"
    /\ \/ /\ turn <= Len(Composites)
          /\ LET c == Composites[turn]
             IN  IF c.type \notin TypesOf /\ c.inputs \subseteq TypesOf
                 THEN /\ composites' = Append(composites,
                             [type |-> c.type, handle |-> next,
                              inputs |-> {FirstOfType(t) : t \in c.inputs}])
                      /\ next' = next + 1
                 ELSE UNCHANGED <<composites, next>>
          /\ turn' = turn + 1
          /\ phase' = "composites"
       \/ /\ turn > Len(Composites)
          /\ phase' = "done"
          /\ UNCHANGED <<turn, composites, next>>
    /\ UNCHANGED <<list, loaded, present, initialized, offered, hardware, toGlobal, books, attempt>>

Appear ==
    /\ phase # "done"
    /\ \E node \in AllNodes \ present : present' = present \cup {node}
    /\ UNCHANGED <<phase, list, turn, loaded, initialized, offered, found, books, composites, attempt>>

Next ==
    \/ LoadBackends \/ InitializeBackends \/ RegisterHardwareSensors
    \/ Settle \/ Retry \/ RegisterComposites \/ Appear

Spec == Init /\ [][Next]_vars

-----------------------------------------------------------------------------
TypeOK ==
    /\ phase \in {"load", "initialize", "register", "decide", "composites", "done"}
    /\ ToSet(loaded) \subseteq Backends
    /\ present \subseteq AllNodes
    /\ initialized \subseteq Backends
    /\ attempt \in 1 .. MaxAttempts

\* The sensors of hardware_ are those of the backends: consecutive handles,
\* each of which leads to the sensor it names and back.
HandlesLead ==
    /\ \A h \in DOMAIN hardware : LET s == hardware[h] IN
         /\ s.handle = h
         /\ s.local \in DOMAIN toGlobal[s.backend] /\ toGlobal[s.backend][s.local] = h
         /\ s.local \in DOMAIN offered[s.backend] /\ offered[s.backend][s.local].type = s.type
    /\ \A b \in Backends : \A l \in DOMAIN toGlobal[b] :
         /\ toGlobal[b][l] \in DOMAIN hardware
         /\ hardware[toGlobal[b][l]].backend = b /\ hardware[toGlobal[b][l]].local = l

\* In the order of the backends, and of the sensors within a backend.
InOrderOfBackends ==
    \A h \in DOMAIN hardware : \A o \in 1 .. h - 1 :
        \/ /\ hardware[o].backend = hardware[h].backend
           /\ Before(hardware[o].local, hardware[h].local)
        \/ \E i, j \in DOMAIN loaded :
              i < j /\ loaded[i] = hardware[o].backend /\ loaded[j] = hardware[h].backend

NamesDiffer ==
    \A h \in DOMAIN hardware : \A o \in 1 .. h - 1 :
        hardware[o].type = hardware[h].type => hardware[o].name # hardware[h].name

\* A fallback is there only where no backend before it serves the type, and
\* nothing else that can be used is left out.
FallbacksFill ==
    /\ \A h \in DOMAIN hardware : hardware[h].backend \in FallbackOnly =>
         \A o \in 1 .. h - 1 :
            hardware[o].type = hardware[h].type => hardware[o].backend = hardware[h].backend
    /\ \A b \in initialized : \A l \in DOMAIN offered[b] \ DOMAIN toGlobal[b] :
         \/ Invalid(offered[b][l])
         \/ /\ b \in FallbackOnly
            /\ \E h \in DOMAIN hardware :
                  hardware[h].type = offered[b][l].type /\ hardware[h].backend # b

CompositesFollow ==
    \A i \in DOMAIN composites :
        /\ composites[i].handle = Len(hardware) + i
        /\ composites[i].inputs \subseteq DOMAIN hardware
        /\ \A h \in DOMAIN hardware : hardware[h].type # composites[i].type

\* What the framework is given when the service appears: consecutive
\* handles in the order of the backends, each of which leads to the sensor it
\* names and back; no two sensors of a type and name; a fallback only where
\* nobody else serves the type, and every other sensor; and what the nodes
\* found by the last attempt give, as if there had been no other
\* (RegisterHardwareSensors, ShutdownBackends).
ListIsSound ==
    phase = "done" =>
        HandlesLead /\ InOrderOfBackends /\ NamesDiffer /\ FallbacksFill /\ CompositesFollow
=============================================================================
