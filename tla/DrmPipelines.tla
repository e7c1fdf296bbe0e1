---------------------------- MODULE DrmPipelines ----------------------------
(***************************************************************************)
(* Which CRTC and plane drive which display (DrmDevice): the choice of a   *)
(* card, the scan of its connectors with stable IDs, the pipelines given   *)
(* out in the order of the scan, the retry with legacy KMS, what is taken  *)
(* over from the boot loader or from before a rescan, and the commits that *)
(* route a connector to its CRTC.                                          *)
(*                                                                         *)
(* DrmComposer has the commands of one display, here are the displays of a *)
(* card next to each other.  A card is a record: the number of `ports`     *)
(* (`internal` ones, `hub` ones that come and go with a hub), the CRTCs of *)
(* each encoder of a port, the CRTCs of each primary plane, `atomic` and   *)
(* the ports that lack atomic properties (`partial`), a driver without a   *)
(* detect callback (`fixed`) or of the firmware's framebuffer, and the     *)
(* number of backlights.  A mode is an index of Timings, which stands for  *)
(* its stable ID too, 0 is no mode.                                        *)
(***************************************************************************)
EXTENDS Naturals, Sequences, FiniteSets, FiniteSetsExt, Functions

CONSTANTS
    Machines,       \* sequences of cards, in the order of their paths
    Timings,        \* a sequence of modes
    Lists,          \* the mode lists of monitors, as sequences
    MaxChanges      \* bound on the changes of monitors

VARIABLES
    machine,    \* the cards
    tried,      \* the cards InitPath() gave up
    device,     \* fields of DrmDevice, and `card`, the one it opened or 0
    monitors,   \* for each card its listed connectors and their mode lists
    crtcs,      \* for each card the kernel: route of each connector, mode of each CRTC
    stage,      \* "init", "run" or "failed"
    told,       \* the displays the framework was told are connected
    exchanged     \* number of changes of monitors

vars == <<machine, tried, device, monitors, crtcs, stage, told, exchanged>>

NoCard == [card |-> 0, atomic |-> FALSE, displays |-> << >>, ids |-> << >>, searched |-> FALSE]

Card == machine[device.card]

-----------------------------------------------------------------------------
(* The modes of a monitor *)

VsyncPeriod(mode) ==
    LET t == Timings[mode]
        fields == IF t.interlaced THEN (t.htotal * t.vtotal) \div 2 ELSE t.htotal * t.vtotal
    IN  IF t.clock = 0 THEN 16666666 ELSE (fields * 1000000) \div t.clock

Duplicate(a, b) ==
    /\ Timings[a].hdisplay = Timings[b].hdisplay
    /\ Timings[a].vdisplay = Timings[b].vdisplay
    /\ VsyncPeriod(a) = VsyncPeriod(b)

(* The positions of the modes that become configurations, the first of     *)
(* each kind, and the configurations.                                      *)
Kept(list) == {i \in DOMAIN list : \A j \in 1 .. i - 1 : ~Duplicate(list[j], list[i])}
ConfigsOf(list) == {list[i] : i \in Kept(list)}

(* The last preferred configuration, or the first. *)
Preferred(list) == list[Max({1} \cup {i \in Kept(list) : Timings[list[i]].preferred})]

-----------------------------------------------------------------------------
(* The kernel *)

(* The rule of the atomic core: a CRTC has a mode exactly when a connector *)
(* is routed to it.                                                        *)
Consistent(k) == \A r \in DOMAIN k.mode : k.mode[r] # 0 <=> \E c \in DOMAIN k.route : k.route[c] = r

(* The legacy call takes a CRTC from its connectors, and switches off the  *)
(* one its connector leaves.                                               *)
SetCrtc(k, crtc, ports, mode) ==
    LET route == [c \in DOMAIN k.route |->
                      IF c \in ports THEN crtc ELSE IF k.route[c] = crtc THEN 0 ELSE k.route[c]]
    IN  [route |-> route,
         mode |-> [r \in DOMAIN k.mode |->
                       IF r = crtc THEN mode
                       ELSE IF \E c \in DOMAIN route : route[c] = r THEN k.mode[r] ELSE 0]]

TurnedOff(d, k, atomic) ==
    IF atomic
    THEN [route |-> [k.route EXCEPT ![d.connector] = 0], mode |-> [k.mode EXCEPT ![d.crtc] = 0]]
    ELSE SetCrtc(k, d.crtc, {}, 0)

Modeset(d, k, atomic) ==
    IF atomic
    THEN [route |-> [k.route EXCEPT ![d.connector] = d.crtc],
          mode |-> [k.mode EXCEPT ![d.crtc] = d.config]]
    ELSE SetCrtc(k, d.crtc, {d.connector}, d.config)

-----------------------------------------------------------------------------
(* The scan *)

Plugged(listed) == {port \in DOMAIN listed : listed[port] # << >>}

(* Internal connectors have their turn first, then it goes by ID. *)
Turn(card, port) == IF port \in card.internal THEN port ELSE card.ports + port
Earlier(card, listed, port) == {p \in DOMAIN listed : Turn(card, p) < Turn(card, port)}

(* The IDs of connectors, given in the order of the scan and never again:  *)
(* the next one is the number of those given.                              *)
DisplayIds(card, listed, ids) ==
    [port \in DOMAIN ids \cup DOMAIN listed |->
        IF port \in DOMAIN ids THEN ids[port]
        ELSE Cardinality(DOMAIN ids \cup Earlier(card, listed, port))]

(* A pipeline is an encoder of the connector, a CRTC and a plane. *)
NoPipeline == <<0, 0, 0>>

PlanesShared(card, atomic, port, used) ==
    {p \in (DOMAIN card.encoders[port]) \X (1 .. card.crtcs)
              \X (IF atomic THEN DOMAIN card.planes ELSE {0}) :
        /\ p[2] \in card.encoders[port][p[1]]
        /\ \A u \in used : u[2] # p[2]
        /\ atomic => p[2] \in card.planes[p[3]]}

(* Those a connector can have beside those in use. *)
Pipelines(card, atomic, port, used) ==
    {p \in (DOMAIN card.encoders[port]) \X (1 .. card.crtcs)
              \X (IF atomic THEN DOMAIN card.planes ELSE {0}) :
        /\ p[2] \in card.encoders[port][p[1]]
        /\ \A u \in used : u[2] # p[2] /\ (atomic => u[3] # p[3])
        /\ atomic => p[2] \in card.planes[p[3]]}

(* They are tried by encoder, CRTC and plane. *)
First(pipelines) ==
    CHOOSE p \in pipelines : \A q \in pipelines :
        \/ p[1] < q[1]
        \/ p[1] = q[1] /\ p[2] < q[2]
        \/ p[1] = q[1] /\ p[2] = q[2] /\ p[3] <= q[3]

(* The pipelines of the listed connectors: each that is plugged takes the  *)
(* first that those before it left, unless it lacks atomic properties.     *)
FindPipeline(card, atomic, listed) ==
    LET found[port \in DOMAIN listed] ==
            LET free == Pipelines(card, atomic, port,
                                  {found[p] : p \in Earlier(card, listed, port)})
            IN  IF port \in Plugged(listed) /\ free # {} /\ (atomic => port \notin card.partial)
                THEN First(free) ELSE NoPipeline
    IN  found

DiscoverConnector(card, port, list, pipeline) ==
    [connector |-> port, crtc |-> pipeline[2], plane |-> pipeline[3], connected |-> TRUE,
     native |-> port \in card.internal \/ card.firmware,
     internal |-> port \in card.internal \/ card.firmware,
     configs |-> ConfigsOf(list), config |-> Preferred(list),
     powered |-> FALSE, modeset |-> TRUE, light |-> FALSE]

(* What the CRTC is doing is taken over: its mode when it is one of the    *)
(* display's, and power.  Atomic KMS tells whose CRTC it is.               *)
DiscoverProperties(d, k, atomic) ==
    LET mode == k.mode[d.crtc]
        known == mode \in d.configs
        own == known /\ (atomic => k.route[d.connector] = d.crtc)
    IN  [d EXCEPT !.config = IF known THEN mode ELSE @,
                  !.powered = IF atomic THEN mode # 0 ELSE own,
                  !.modeset = ~own]

(* What a display that stays connected keeps. *)
StaysConnected(d, old) ==
    LET kept == old.config \in d.configs
    IN  [d EXCEPT !.powered = old.powered,
                  !.modeset = \/ old.modeset
                              \/ d.crtc # old.crtc \/ d.plane # old.plane
                              \/ d.config # old.config
                              \/ ~kept,
                  !.config = IF kept THEN old.config ELSE @]

(* The CRTCs a connector can have. *)
Reach(card, port) == UNION Range(card.encoders[port])

ConnectedOf(displays) == {id \in DOMAIN displays : displays[id].connected}

(* The display of a connector that has a pipeline, and its ID. *)
ScanConnector(card, listed, k, dev, port, id, pipeline) ==
    LET found == DiscoverProperties(DiscoverConnector(card, port, listed[port], pipeline),
                                    k, dev.atomic)
        old == dev.displays[id]
        lit == IF id \in DOMAIN dev.displays THEN [found EXCEPT !.light = old.light] ELSE found
    IN  IF id \in ConnectedOf(dev.displays) THEN StaysConnected(lit, old) ELSE lit

(* Without a connected internal display the first connected one counts as  *)
(* internal.                                                               *)
Promoted(displays) ==
    LET connected == ConnectedOf(displays)
    IN  IF connected = {} \/ \E id \in connected : displays[id].internal THEN displays
        ELSE [displays EXCEPT ![Min(connected)] = [@ EXCEPT !.internal = TRUE]]

(* The one backlight belongs to the one internal display, as of the first scan. *)
DiscoverBacklight(card, displays) ==
    LET native == {id \in ConnectedOf(displays) : displays[id].native}
    IN  [id \in DOMAIN displays |->
            [displays[id] EXCEPT !.light = @ \/ (native = {id} /\ card.backlights = 1)]]

(* What a scan finds: the IDs, the pipelines, the connectors that have one, *)
(* and the displays, also those that have no pipeline or port any more.     *)
Scan(card, listed, k, dev) ==
    LET ids == DisplayIds(card, listed, dev.ids)
        pipelines == FindPipeline(card, dev.atomic, listed)
        served == {port \in DOMAIN listed : pipelines[port] # NoPipeline}
    IN  [ids |-> ids, served |-> served,
         displays |-> [id \in DOMAIN dev.displays \cup {ids[port] : port \in served} |->
             IF \E port \in served : ids[port] = id
             THEN LET port == CHOOSE p \in served : ids[p] = id
                  IN  ScanConnector(card, listed, k, dev, port, id, pipelines[port])
             ELSE [dev.displays[id] EXCEPT !.connected = FALSE]]]

(* Rescan(): the device afterwards, the displays that came and those that  *)
(* went: they lost their pipeline, or their connector is gone.             *)
Rescan(card, listed, k, dev) ==
    LET scan == Scan(card, listed, k, dev)
        was == ConnectedOf(dev.displays)
        displays == Promoted(scan.displays)
    IN  [device |-> [card |-> dev.card, atomic |-> dev.atomic, ids |-> scan.ids, searched |-> TRUE,
                     displays |-> IF dev.searched THEN displays
                                  ELSE DiscoverBacklight(card, displays)],
         came |-> {scan.ids[port] : port \in scan.served} \ was,
         went |-> was \cap ({scan.ids[port] : port \in DOMAIN listed \ scan.served}
                           \cup {id \in was : \A port \in DOMAIN listed : scan.ids[port] # id})]

-----------------------------------------------------------------------------
(* Start-up *)

(* A card is as good as the best display it shows, then as their number;   *)
(* the path decides between equals.  Cards without connectors do not count. *)
ScoreCard(i) ==
    LET plugged == Plugged(monitors[i])
    IN  Cardinality(plugged)
        + (IF plugged \cap machine[i].internal # {} \/ (plugged # {} /\ machine[i].firmware)
           THEN 10000 ELSE IF plugged # {} THEN 5000 ELSE 100)

Candidates == {i \in DOMAIN machine : DOMAIN monitors[i] # {} /\ i \notin tried}

Best ==
    CHOOSE i \in Candidates : \A j \in Candidates :
        ScoreCard(i) > ScoreCard(j) \/ (ScoreCard(i) = ScoreCard(j) /\ i <= j)

(* Connectors without a detect callback do not count as connected here. *)
CountConnectedConnectors(card, listed) == IF card.fixed THEN 0 ELSE Cardinality(Plugged(listed))

(* What a scan found on a card that was just opened; a card whose atomic   *)
(* pipelines do not reach all displays is scanned again with legacy KMS.   *)
Opened(i) ==
    LET card == machine[i]
        first == Rescan(card, monitors[i], crtcs[i],
                        [NoCard EXCEPT !.card = i, !.atomic = card.atomic]).device
        short == Cardinality(ConnectedOf(first.displays))
                     < CountConnectedConnectors(card, monitors[i])
    IN  IF card.atomic /\ short
        THEN Rescan(card, monitors[i], crtcs[i],
                    [first EXCEPT !.atomic = FALSE, !.displays = << >>]).device
        ELSE first

Usable(card, listed, dev) ==
    CountConnectedConnectors(card, listed) = 0 \/ ConnectedOf(dev.displays) # {}

(* SetPower(off) of a display the kernel shows: the commit may be refused. *)
SwitchOff(s, id, refused) ==
    LET d == s.displays[id]
        k == TurnedOff(d, s.crtcs, s.atomic)
    IN  IF ~d.powered THEN s
        ELSE IF refused \/ (s.atomic /\ ~Consistent(k))
        THEN [displays |-> s.displays, crtcs |-> s.crtcs, atomic |-> s.atomic, failed |-> TRUE]
        ELSE [displays |-> [s.displays EXCEPT ![id] = [@ EXCEPT !.powered = FALSE, !.modeset = TRUE]],
              crtcs |-> k, atomic |-> s.atomic, failed |-> s.failed]

AsIs(dev) == [displays |-> dev.displays, crtcs |-> crtcs[dev.card], atomic |-> dev.atomic,
              failed |-> FALSE]

(* Displays are switched off one after the other; in which order makes no  *)
(* difference to what is left.                                             *)
SwitchedOff(dev, ids, refused) ==
    LET off[n \in 0 .. Cardinality(DOMAIN dev.ids)] ==
            IF n = 0 THEN AsIs(dev)
            ELSE IF n - 1 \in ids THEN SwitchOff(off[n - 1], n - 1, refused)
            ELSE off[n - 1]
    IN  off[Cardinality(DOMAIN dev.ids)]

(* Init() tries the best card left and ComposerClient::Init() switches off *)
(* what the boot loader shows.                                             *)
InitPath(refused) ==
    /\ stage = "init" /\ Candidates # {}
    /\ \E dev \in {Opened(Best)} :
        \E off \in {SwitchedOff(dev, ConnectedOf(dev.displays), refused)} :
          IF Usable(machine[Best], monitors[Best], dev)
          THEN /\ device' = [dev EXCEPT !.displays = off.displays]
               /\ crtcs' = [crtcs EXCEPT ![Best] = off.crtcs]
               /\ stage' = IF off.failed THEN "failed" ELSE "run"
               /\ told' = ConnectedOf(dev.displays)
               /\ UNCHANGED tried
          ELSE tried' = tried \cup {Best} /\ UNCHANGED <<device, crtcs, stage, told>>
    /\ UNCHANGED <<machine, monitors, exchanged>>

NoCardLeft ==
    /\ stage = "init" /\ Candidates = {}
    /\ stage' = "failed"
    /\ UNCHANGED <<machine, tried, device, monitors, crtcs, told, exchanged>>

-----------------------------------------------------------------------------
(* Hotplug and the calls of the framework *)

(* External: a monitor comes, goes or is exchanged, or a hub with its port. *)
Change(port, list) ==
    LET listed == monitors[device.card]
    IN  /\ stage = "run" /\ exchanged < MaxChanges
        /\ port \in DOMAIN listed => listed[port] # list
        /\ exchanged' = exchanged + 1
        /\ monitors' = [monitors EXCEPT ![device.card] =
                           [p \in DOMAIN listed \cup {port} |-> IF p = port THEN list ELSE listed[p]]]
        /\ UNCHANGED <<machine, tried, device, crtcs, stage, told>>

Vanish(port) ==
    /\ stage = "run" /\ exchanged < MaxChanges
    /\ port \in Card.hub \cap DOMAIN monitors[device.card]
    /\ exchanged' = exchanged + 1
    /\ monitors' = [monitors EXCEPT ![device.card] = Restrict(@, DOMAIN @ \ {port})]
    /\ UNCHANGED <<machine, tried, device, crtcs, stage, told>>

(* A rescan of HotplugLoop(): displays that came are switched off, all     *)
(* changes are told, one for each display (their order is DrmHotplug's).   *)
(* The legacy call is not refused.                                         *)
HotplugLoop(refused) ==
    /\ stage = "run" /\ (device.atomic \/ ~refused)
    /\ \E scan \in {Rescan(Card, monitors[device.card], crtcs[device.card], device)} :
        \E off \in {SwitchedOff(scan.device, scan.came, refused)} :
          /\ device' = [scan.device EXCEPT !.displays = off.displays]
          /\ crtcs' = [crtcs EXCEPT ![device.card] = off.crtcs]
          /\ told' = (told \cup scan.came) \ scan.went
    /\ UNCHANGED <<machine, tried, monitors, stage, exchanged>>

SetPowerOn(id) ==
    /\ stage = "run" /\ id \in told
    /\ ~device.displays[id].powered
    /\ device' = [device EXCEPT !.displays =
                     [device.displays EXCEPT ![id] = [@ EXCEPT !.powered = TRUE, !.modeset = TRUE]]]
    /\ UNCHANGED <<machine, tried, monitors, crtcs, stage, told, exchanged>>

SetPowerOff(id, refused) ==
    /\ stage = "run" /\ id \in told
    /\ \E off \in {SwitchOff(AsIs(device), id, refused)} :
          /\ device' = [device EXCEPT !.displays = off.displays]
          /\ crtcs' = [crtcs EXCEPT ![device.card] = off.crtcs]
    /\ UNCHANGED <<machine, tried, monitors, stage, told, exchanged>>

(* Whether the kernel can take a frame: with a modeset when the HAL thinks *)
(* one is needed, else on a CRTC that runs.                                *)
CanPresent(d) ==
    LET k == crtcs[device.card]
    IN  IF d.modeset \/ ~d.powered
        THEN device.atomic => Consistent(Modeset(d, k, TRUE))
        ELSE k.mode[d.crtc] # 0

(* A frame of a display that is on; the kernel may refuse any. *)
Present(id) ==
    /\ stage = "run" /\ id \in told
    /\ \E d \in {device.displays[id]} :
          /\ d.powered /\ d.modeset /\ CanPresent(d)
          /\ device' = [device EXCEPT !.displays =
                           [device.displays EXCEPT ![id] = [d EXCEPT !.modeset = FALSE]]]
          /\ crtcs' = [crtcs EXCEPT ![device.card] = Modeset(d, @, device.atomic)]
    /\ UNCHANGED <<machine, tried, monitors, stage, told, exchanged>>

(* A mode change switches off and defers what comes on to the next frame. *)
SetActiveConfig(id, mode, refused) ==
    /\ stage = "run" /\ id \in told
    /\ mode \in device.displays[id].configs /\ mode # device.displays[id].config
    /\ \E off \in {SwitchOff(AsIs(device), id, refused)} :
          /\ ~off.failed
          /\ device' = [device EXCEPT !.displays =
                           [off.displays EXCEPT ![id] =
                               [@ EXCEPT !.config = mode, !.powered = device.displays[id].powered]]]
          /\ crtcs' = [crtcs EXCEPT ![device.card] = off.crtcs]
    /\ UNCHANGED <<machine, tried, monitors, stage, told, exchanged>>

(* At boot the firmware may show its picture on the first display. *)
BootStates(card, listed) ==
    LET dark == [route |-> [c \in 1 .. card.ports |-> 0], mode |-> [r \in 1 .. card.crtcs |-> 0]]
    IN  {dark} \cup UNION {{SetCrtc(dark, r, {p}, Head(listed[p])) : r \in Reach(card, p)} :
                            p \in Plugged(listed)}

Monitors(card) ==
    UNION {[listed -> Lists \cup {<< >>}] :
              listed \in {l \in SUBSET (1 .. card.ports) : (1 .. card.ports) \ card.hub \subseteq l}}

Init ==
    /\ machine \in Machines
    /\ \E m \in [DOMAIN machine -> UNION {Monitors(machine[i]) : i \in DOMAIN machine}] :
          /\ \A i \in DOMAIN machine : m[i] \in Monitors(machine[i])
          /\ monitors = m
    /\ \E k \in [DOMAIN machine -> UNION {BootStates(machine[i], monitors[i]) : i \in DOMAIN machine}] :
          /\ \A i \in DOMAIN machine : k[i] \in BootStates(machine[i], monitors[i])
          /\ crtcs = k
    /\ tried = {} /\ device = NoCard /\ stage = "init" /\ told = {} /\ exchanged = 0

Next ==
    \/ \E refused \in BOOLEAN : InitPath(refused) \/ HotplugLoop(refused)
    \/ NoCardLeft
    \/ \E port \in 1 .. (IF device.card = 0 THEN 0 ELSE Card.ports) :
          \/ \E list \in Lists \cup {<< >>} : Change(port, list)
          \/ Vanish(port)
    \/ \E id \in told :
          \/ SetPowerOn(id) \/ Present(id)
          \/ \E refused \in BOOLEAN :
                \/ SetPowerOff(id, refused)
                \/ \E mode \in DOMAIN Timings : SetActiveConfig(id, mode, refused)

Spec == Init /\ [][Next]_vars

-----------------------------------------------------------------------------
AllDisplays == device.displays
Connected == ConnectedOf(AllDisplays)

TypeOK ==
    /\ tried \subseteq DOMAIN machine
    /\ device.card \in 0 .. Len(machine)
    /\ stage \in {"init", "run", "failed"}
    /\ told \subseteq DOMAIN AllDisplays
    /\ exchanged \in 0 .. MaxChanges

\* No two displays share a CRTC or a plane, each has one its connector and the
\* plane can be routed to, and a mode it offers, whatever order connectors come and go in.
PipelinesApart ==
    \A i \in Connected :
        /\ AllDisplays[i].config \in AllDisplays[i].configs
        /\ AllDisplays[i].crtc \in Reach(Card, AllDisplays[i].connector)
        /\ device.atomic => AllDisplays[i].crtc \in Card.planes[AllDisplays[i].plane]
        /\ \A j \in Connected \ {i} :
              /\ AllDisplays[i].crtc # AllDisplays[j].crtc
              /\ device.atomic => AllDisplays[i].plane # AllDisplays[j].plane

\* The changes a rescan reports are all there are: the framework knows the
\* connected displays, those too that lost their pipeline to another one, and
\* a connector that came back has the ID it had.
FrameworkKnows ==
    stage = "run" => /\ told = Connected
                     /\ \A i \in Connected : device.ids[AllDisplays[i].connector] = i

\* What need not be programmed is what the kernel shows: no frame is flipped on
\* a CRTC that shows another mode, another connector or nothing (Rescan,
\* DiscoverProperties).
LitAsBelieved ==
    stage = "run" => \A i \in Connected :
        (AllDisplays[i].powered /\ ~AllDisplays[i].modeset) =>
            /\ crtcs[device.card].route[AllDisplays[i].connector] = AllDisplays[i].crtc
            /\ crtcs[device.card].mode[AllDisplays[i].crtc] = AllDisplays[i].config

\* There is an internal display for Android whenever there is a display, and it
\* is the panel when that is connected.
PanelComesFirst ==
    stage = "run" =>
        /\ \A i, j \in Connected : AllDisplays[i].internal /\ AllDisplays[j].native => AllDisplays[i].native
        /\ Connected # {} => \E i \in Connected : AllDisplays[i].internal

\* An external display never takes the pipeline of a plugged panel: the next scan
\* connects the panel, whoever has its CRTC now (the order of the scan).
PanelServed ==
    stage = "run" => \A port \in Plugged(monitors[device.card]) :
        LET dev == Rescan(Card, monitors[device.card], crtcs[device.card], device).device
        IN  (/\ Card.internal = {port}
             /\ device.atomic => port \notin Card.partial
             /\ Pipelines(Card, device.atomic, port, {}) # {}) =>
                \E i \in ConnectedOf(dev.displays) : dev.displays[i].connector = port

\* On cards whose connectors have one CRTC each, of their own, every display that
\* is on can be given a frame.  (Not kept on other cards: README.md.)
Dedicated ==
    \A a, b \in DOMAIN Card.encoders :
        \A r \in Reach(Card, a), q \in Reach(Card, b) : a = b <=> r = q

LightsUp ==
    (stage = "run" /\ (Dedicated \/ ~device.atomic)) =>
        \A i \in Connected : AllDisplays[i].powered => CanPresent(AllDisplays[i])

\* Not kept by the code, see README.md: the same on every card.
AlwaysPresentable ==
    stage = "run" => \A i \in Connected : AllDisplays[i].powered => CanPresent(AllDisplays[i])

\* The card that was opened is the best one that can show anything it is asked
\* to: one with a panel, else one with a display, else any (ScoreCard, InitPath).
Shows(i) == \/ machine[i].fixed \/ Plugged(monitors[i]) = {}
            \/ \E p \in Plugged(monitors[i]) : Reach(machine[i], p) # {}

Rank(i) ==
    LET plugged == Plugged(monitors[i])
    IN  IF plugged = {} THEN 0
        ELSE IF plugged \cap machine[i].internal = {} /\ ~machine[i].firmware THEN 1 ELSE 2

CardPreferred ==
    (device.card # 0 /\ exchanged = 0) =>
        \A i \in DOMAIN machine :
            (DOMAIN monitors[i] # {} /\ Shows(i)) =>
                Rank(device.card) >= Rank(i) /\ Shows(device.card)

\* At start every monitor is found, through legacy KMS when the atomic pipelines
\* do not reach it, unless all CRTCs it could have are in use (InitPath).
MonitorsFound ==
    (stage = "run" /\ exchanged = 0 /\ ~Card.fixed) =>
        \A p \in Plugged(monitors[device.card]) :
            \/ \E i \in Connected : AllDisplays[i].connector = p
            \/ ~device.atomic /\ \A r \in Reach(Card, p) : \E i \in Connected : AllDisplays[i].crtc = r

\* The only panel of a card with one backlight can be dimmed, and only it.  (Not
\* kept after the retry with legacy KMS: README.md.)
PanelDims ==
    (stage = "run" /\ exchanged = 0 /\ device.atomic = Card.atomic) =>
        LET native == {i \in Connected : AllDisplays[i].native}
        IN  \A i \in Connected : AllDisplays[i].light <=> (native = {i} /\ Card.backlights = 1)

\* Not kept by the code, see README.md: after the retry too.
PanelAlwaysDims ==
    (stage = "run" /\ exchanged = 0 /\ Card.backlights = 1) =>
        \A i \in Connected : {j \in Connected : AllDisplays[j].native} = {i} => AllDisplays[i].light

\* The pipelines of a card are sound through all scans and commits.
PipelinesSound ==
    PipelinesApart /\ FrameworkKnows /\ LitAsBelieved /\ PanelComesFirst /\ PanelServed /\ LightsUp
    /\ CardPreferred /\ MonitorsFound /\ PanelDims
=============================================================================
