------------------------------- MODULE MCDrm -------------------------------
(***************************************************************************)
(* The DRM composer for TLC: the command path of a display (DrmComposer),  *)
(* the vblank worker (DrmVsync), hotplug (DrmHotplug) and the displays of  *)
(* a card (DrmPipelines) side by side.  They share no state below, so a    *)
(* behaviour is one of `part` and leaves the others' variables alone.      *)
(*                                                                         *)
(* The commands are each part of a display command on its own and the      *)
(* combinations the framework sends, with one layer command and one target *)
(* at a time.                                                              *)
(***************************************************************************)
EXTENDS DrmComposer

CONSTANTS Displays, MaxPhases, MaxChanges, Never, Machines, Timings, Lists, MaxMoves

\* A card has its ports and CRTCs numbered, and modes are told by their number.
Cards ==
    [ports : Nat, internal : SUBSET Nat, hub : SUBSET Nat, crtcs : Nat,
     encoders : Seq(Seq(SUBSET Nat)), planes : Seq(SUBSET Nat), atomic : BOOLEAN,
     partial : SUBSET Nat, fixed : BOOLEAN, firmware : BOOLEAN, backlights : Nat]
IsCard(card) ==
    /\ card \in Cards
    /\ Len(card.encoders) = card.ports /\ card.ports <= 5000
    /\ \A port \in DOMAIN card.encoders : \A e \in DOMAIN card.encoders[port] :
          card.encoders[port][e] \subseteq 1 .. card.crtcs

ASSUME PipelinesAssumption ==
    /\ \A m \in Machines : m \in Seq(Cards) /\ \A i \in DOMAIN m : IsCard(m[i])
    /\ Timings \in Seq([hdisplay : Nat, vdisplay : Nat, htotal : Nat, vtotal : Nat,
                        interlaced : BOOLEAN, clock : Nat, preferred : BOOLEAN])
    /\ Lists \subseteq Seq(DOMAIN Timings) \ {<< >>}

VARIABLES
    part,           \* "composer", "vsync", "hotplug" or "pipelines"
    states, enabled, phase, sample, pc, previous, hardware, stamp, stopping, destroyer,
    calling,
    plugged, uevents, changed, known, loop, changes, binder, initial, callback, sending,
    framework,
    machine, tried, device, monitors, crtcs, stage, told, exchanged

Vsync == INSTANCE DrmVsync WITH plugged <- states
Hotplug == INSTANCE DrmHotplug WITH connected <- known
Pipes == INSTANCE DrmPipelines WITH MaxChanges <- MaxMoves

vsync == <<states, enabled, phase, sample, pc, previous, hardware, stamp, stopping,
           destroyer, calling>>
hotplug == <<plugged, uevents, changed, known, loop, changes, binder, initial, callback,
             sending, framework>>
pipes == <<machine, tried, device, monitors, crtcs, stage, told, exchanged>>
all == <<part, vars, vsync, hotplug, pipes>>

-----------------------------------------------------------------------------
MCLayerCommands ==
    {[op |-> o, layer |-> l, composition |-> c, bad |-> b] :
        o \in {"CREATE", "MODIFY"}, l \in {2}, c \in {None, "DEVICE"}, b \in BOOLEAN}
    \cup {[op |-> "DESTROY", layer |-> 1, composition |-> None, bad |-> FALSE]}

MCTargets ==
    {[slot |-> 0, handle |-> TRUE, fence |-> TRUE],
     [slot |-> 0, handle |-> FALSE, fence |-> FALSE]}

MCFlags ==
    {[color |-> k, validate |-> v, accept |-> a, bright |-> b, present |-> p] :
        k, v, a, b, p \in BOOLEAN}

Command(c, l, t, f) ==
    [config |-> c, layer |-> l, target |-> t, color |-> f.color, validate |-> f.validate,
     accept |-> f.accept, bright |-> f.bright, present |-> f.present]

MCCommands ==
    {Command(None, l, None, f) : l \in MCLayerCommands,
        f \in {g \in MCFlags : ~g.color /\ ~g.bright /\ g.validate = g.accept}}
    \cup {Command(None, None, t, f) : t \in MCTargets,
        f \in {g \in MCFlags : ~g.color /\ ~g.bright}}
    \cup {Command(c, None, t, f) : c \in Configs, t \in MCTargets,
        f \in {g \in MCFlags : ~g.color /\ ~g.bright /\ g.validate = g.accept /\ g.accept = g.present}}
    \cup {Command(None, None, None, f) : f \in MCFlags}

-----------------------------------------------------------------------------
(* Cards.  Three outputs share two CRTCs, one of them a panel; two have one *)
(* each and one comes and goes with a hub; one lacks atomic properties;    *)
(* one has no atomic KMS; and pairs of cards of different worth.           *)
Output ==
    [ports |-> 1, internal |-> {}, hub |-> {}, encoders |-> <<<<{1}>>>>, crtcs |-> 1,
     planes |-> <<{1}>>, atomic |-> TRUE, partial |-> {}, fixed |-> FALSE, firmware |-> FALSE,
     backlights |-> 0]
SharedCrtcs ==
    [Output EXCEPT !.ports = 3, !.internal = {3}, !.encoders = [c \in 1 .. 3 |-> <<{1, 2}>>],
                   !.crtcs = 2, !.planes = <<{1}, {1, 2}>>, !.backlights = 1]
OwnCrtcs ==
    [Output EXCEPT !.ports = 2, !.hub = {2}, !.encoders = <<<<{1}>>, <<{2}>>>>, !.crtcs = 2,
                   !.planes = <<{1, 2}, {1, 2}>>]
PartialPlanes ==
    [Output EXCEPT !.ports = 2, !.internal = {1}, !.encoders = <<<<{1}, {2}>>, <<{2}>>>>,
                   !.crtcs = 2, !.planes = <<{1, 2}>>, !.partial = {2}, !.backlights = 1]
LegacyCrtcs ==
    [Output EXCEPT !.ports = 2, !.encoders = [c \in 1 .. 2 |-> <<{1, 2}>>], !.crtcs = 2,
                   !.planes = << >>, !.atomic = FALSE]
Panel == [Output EXCEPT !.internal = {1}, !.backlights = 1]
Unrouted == [Panel EXCEPT !.encoders = <<<<{}>>>>]
Fixed == [Output EXCEPT !.fixed = TRUE]
Firmware == [Output EXCEPT !.firmware = TRUE]

MCMachines ==
    {<<SharedCrtcs>>, <<OwnCrtcs>>, <<PartialPlanes>>, <<LegacyCrtcs>>, <<Fixed, Output>>,
     <<Output, Panel>>, <<Output, Firmware>>, <<Unrouted, Firmware>>, <<Unrouted>>}

(* The second mode has the size and rate of the first, the third half its  *)
(* rate.                                                                   *)
Mode1 == [hdisplay |-> 1, vdisplay |-> 1, htotal |-> 2, vtotal |-> 2, interlaced |-> FALSE,
          clock |-> 1, preferred |-> FALSE]
MCTimings ==
    <<Mode1, [Mode1 EXCEPT !.vtotal = 4, !.clock = 2, !.preferred = TRUE],
      [Mode1 EXCEPT !.interlaced = TRUE, !.preferred = TRUE]>>
MCLists == {<<1, 2, 3>>, <<1>>}

MCInit ==
    /\ part \in {"composer", "vsync", "hotplug", "pipelines"}
    /\ IF part = "pipelines" THEN Pipes!Init
       ELSE /\ machine = << >> /\ monitors = << >> /\ crtcs = << >>
            /\ tried = {} /\ device = Pipes!NoCard /\ stage = "init" /\ told = {}
            /\ exchanged = 0
    /\ Init /\ Vsync!Init /\ Hotplug!Init
    /\ part # "hotplug" => plugged = {}
    /\ part # "composer" => \A c \in Configs : d.config <= c

ComposerNext == part = "composer" /\ Next /\ UNCHANGED <<part, vsync, hotplug, pipes>>
VsyncNext == part = "vsync" /\ Vsync!Next /\ UNCHANGED <<part, vars, hotplug, pipes>>
HotplugNext == part = "hotplug" /\ Hotplug!Next /\ UNCHANGED <<part, vars, vsync, pipes>>
PipelinesNext == part = "pipelines" /\ Pipes!Next /\ UNCHANGED <<part, vars, vsync, hotplug>>

MCNext == ComposerNext \/ VsyncNext \/ HotplugNext \/ PipelinesNext

\* Vsync!Fairness and Hotplug!Fairness for the behaviours of that part.
MCFairness ==
    /\ WF_all(VsyncNext /\ Vsync!WorkerStep)
    /\ WF_all(VsyncNext /\ Vsync!NotifyVsync)
    /\ WF_all(VsyncNext /\ Vsync!NotifyAll)
    /\ WF_all(VsyncNext /\ Vsync!Join)
    /\ WF_all(HotplugNext /\ Hotplug!HotplugStep)
    /\ WF_all(HotplugNext /\ Hotplug!BinderStep)

MCSpec == MCInit /\ [][MCNext]_all /\ MCFairness

-----------------------------------------------------------------------------
\* What is on screen is what the HAL believes, after failures at every stage:
\* rollback, power and mode changes, and fences (DrmComposer).
DisplaySound ==
    ValidatedIsClient /\ OffIsDark /\ KernelAgrees /\ TargetOfActiveMode /\ FenceRespected

\* The same for the displays of a card next to each other (DrmPipelines).
PipelinesSound == part = "pipelines" => Pipes!PipelinesSound

\* Every display whose vsync stays enabled gets callbacks for ever: the worker
\* neither starves one display nor sleeps through setVsyncEnabled().
VsyncServed == part = "vsync" => Vsync!VsyncServed

\* The framework's view is the HAL's once a registration is over and nothing is
\* being sent, however hotplug events and registerCallback() met.
HotplugInSync == Hotplug!FrameworkInSync

\* Every change of the connectors reaches the framework in the end.
HotplugConverges == part = "hotplug" => Hotplug!Converges

\* Nobody waits for ever: displays for their vsync, the framework for the
\* connectors (DrmVsync, DrmHotplug).
DrmServes == VsyncServed /\ HotplugConverges
=============================================================================
