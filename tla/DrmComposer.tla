---------------------------- MODULE DrmComposer ----------------------------
(***************************************************************************)
(* The command path of the DRM composer for one display                    *)
(* (graphics/composer/drmfb: ComposerClient.cpp over DrmDevice.cpp): layer *)
(* commands, client targets, validate / accept / present with the rollback *)
(* of a failed command, power, mode changes, hotplug, and what they do to  *)
(* the CRTC.  Every entry point holds mutex_ from its first read to its    *)
(* last write, so each call is one step; what may go wrong inside it is    *)
(* the stage it fails at.                                                  *)
(*                                                                         *)
(* The display is one record `d`:                                          *)
(*   layers, next, validation        DisplayState: layers, next_layer      *)
(*   slots, target, scanout, fence   DisplayState: framebuffers, fence     *)
(*   powered, modeset, config        DrmDisplay                            *)
(*   mode, fb                        the CRTC of the kernel                *)
(*   err                             the error of the call, "" if none     *)
(* A framebuffer is a record [n, mode]: an identity and the mode whose     *)
(* size it has.  It exists while slots, target or scanout refer to it (the *)
(* shared_ptrs), and is removed with drmModeRmFB when none does.  Damage,  *)
(* pixel formats and layer geometry are left out.                          *)
(***************************************************************************)
EXTENDS Naturals, Sequences, FiniteSets

CONSTANTS
    None, Off,          \* no value; the mode of a CRTC that is off
    Configs,            \* configuration IDs of the modes
    MaxLayer,           \* bound on layer IDs
    MaxSlots,           \* bound on the client target slots
    Commands,           \* the display commands the framework sends
    EmptyTargets,       \* the framework presents without a client target
    PresentsWhileOff,   \* the framework presents on a display it switched off
    ModeListChanges     \* the modes of a connected display may change

VARIABLES
    connected,  \* DrmDisplay::connected
    modes,      \* DrmDisplay::configs
    d,          \* the display, see above
    asked,      \* the last power mode the framework was granted
    early       \* a target went on screen before its acquire fence

vars == <<connected, modes, d, asked, early>>

Compositions == {"INVALID", "CLIENT", "DEVICE"}
Framebuffers == [n : 1 .. MaxSlots + 3, mode : Configs]
MaybeFb == Framebuffers \cup {None}

(***************************************************************************)
(* What a command may carry, and the stages it may fail at: the import of  *)
(* a buffer, the TEST_ONLY commit, the backlight, the acquire fence or the *)
(* commit of a present, and the power transitions of a mode change ("both" *)
(* is a failed ON whose repetition fails as well).                         *)
(***************************************************************************)
LayerCommands ==
    [op : {"CREATE", "DESTROY", "MODIFY"}, layer : 1 .. MaxLayer,
     composition : {None, "CLIENT", "DEVICE"}, bad : BOOLEAN]
Targets == [slot : 0 .. MaxSlots - 1, handle : BOOLEAN, fence : BOOLEAN]
AllCommands ==
    [config : {None} \cup Configs, layer : {None} \cup LayerCommands,
     target : {None} \cup Targets, color : BOOLEAN, validate : BOOLEAN,
     accept : BOOLEAN, bright : BOOLEAN, present : BOOLEAN]

\* Where a command may fail because the kernel refuses something.
Stages(cmd) ==
    {None}
    \cup (IF cmd.config # None THEN {"off", "on", "both"} ELSE {})
    \cup (IF cmd.target # None THEN {"import"} ELSE {})
    \cup (IF cmd.validate THEN {"test"} ELSE {})
    \cup (IF cmd.bright THEN {"bright"} ELSE {})
    \cup (IF cmd.present THEN {"commit"} ELSE {})

ASSUME CommandsAssumption == Commands \subseteq AllCommands
ASSUME DisplayAssumption == Off \notin Configs

-----------------------------------------------------------------------------
(* Framebuffers *)

References(x) ==
    (({x.slots[i] : i \in DOMAIN x.slots} \cup {x.target, x.scanout}) \ {None})

(* The identity of a framebuffer that is imported while x and y are live. *)
NewFb(x, y) ==
    [n |-> CHOOSE n \in 1 .. MaxSlots + 3 :
               \A f \in References(x) \cup References(y) : f.n # n,
     mode |-> x.config]

(* drmModeRmFB: the kernel switches off a CRTC whose framebuffer is removed. *)
RmFB(x) ==
    IF x.fb # None /\ x.fb \notin References(x)
    THEN [x EXCEPT !.mode = Off, !.fb = None] ELSE x

-----------------------------------------------------------------------------
(* Power and modes *)

SetPower(x, on, fail) ==
    IF x.powered = on THEN x
    ELSE IF on
    THEN IF fail THEN [x EXCEPT !.modeset = TRUE, !.err = "EX_NO_RESOURCES"]
                 ELSE [x EXCEPT !.modeset = TRUE, !.powered = TRUE]
    ELSE IF fail THEN [x EXCEPT !.err = "EX_NO_RESOURCES"]
                 ELSE [x EXCEPT !.modeset = TRUE, !.powered = FALSE,
                                !.mode = Off, !.fb = None]

SwitchModeNoModeset(x, c, stage) ==
    IF x.powered /\ stage = None
    THEN [x EXCEPT !.config = c, !.mode = Off, !.fb = None] ELSE x

(* DrmDevice::SetActiveConfig: the display is switched off and on again. *)
SwitchMode(x, c, stage) ==
    LET down == IF x.powered THEN SetPower(x, FALSE, stage = "off") ELSE x
        up == SetPower([down EXCEPT !.config = c], TRUE, stage \in {"on", "both"})
        back == SetPower([up EXCEPT !.config = x.config], TRUE, stage = "both")
    IN  IF down.err # "" THEN down
        ELSE IF ~x.powered THEN [down EXCEPT !.config = c]
        ELSE IF up.err = "" THEN up
        ELSE back

SetActiveConfigLocked(x, c, stage) ==
    LET s == SwitchMode(x, c, stage) IN
    IF c \notin modes THEN [x EXCEPT !.err = "EX_BAD_CONFIG"]
    ELSE IF x.config = c THEN x
    ELSE IF s.err # "" THEN [s EXCEPT !.err = "EX_CONFIG_FAILED"]
    ELSE [s EXCEPT !.slots = [i \in DOMAIN x.slots |-> None],
                   !.target = None, !.scanout = None, !.validation = "kDirty"]

-----------------------------------------------------------------------------
(* The parts of a display command; an operation on an x that failed is x. *)

DirtyOnlyOnModify(x, l) ==
    IF l.op = "MODIFY" /\ l.composition # None THEN "kDirty" ELSE x.validation

DirtyOf(x, l) ==
    IF l.op = "MODIFY" /\ l.composition = None THEN x.validation ELSE "kDirty"

(* A CREATE moves the IDs createLayer() hands out past its own. *)
NextAfter(x, id) == IF id >= x.next THEN id + 1 ELSE x.next

ApplyLayerLocked(x, l) ==
    LET exists == l.layer \in DOMAIN x.layers
        kept == DOMAIN x.layers \ {l.layer}
        old == IF exists THEN x.layers[l.layer] ELSE "INVALID"
        new == IF l.composition = None THEN old ELSE l.composition
    IN  IF x.err # "" THEN x
        ELSE IF exists = (l.op = "CREATE") THEN [x EXCEPT !.err = "EX_BAD_LAYER"]
        ELSE IF l.op = "DESTROY"
        THEN [x EXCEPT !.layers = [i \in kept |-> x.layers[i]],
                       !.validation = DirtyOf(x, l)]
        ELSE [x EXCEPT !.layers = [i \in kept \cup {l.layer} |->
                                       IF i = l.layer THEN new ELSE x.layers[i]],
                       !.next = IF l.op = "CREATE" THEN NextAfter(x, l.layer) ELSE @,
                       !.validation = DirtyOf(x, l),
                       !.err = IF l.bad THEN "EX_BAD_PARAMETER" ELSE ""]

SetClientTargetLocked(x, t, stage) ==
    LET i == t.slot + 1
        imported == IF t.handle THEN [x.slots EXCEPT ![i] = NewFb(x, d)] ELSE x.slots
    IN  IF x.err # "" THEN x
        ELSE IF i \notin DOMAIN x.slots \/ (t.handle /\ stage = "import")
        THEN [x EXCEPT !.err = "EX_BAD_PARAMETER"]
        ELSE [x EXCEPT !.slots = imported, !.target = imported[i],
                       !.fence = t.fence, !.pending = t.fence]

ValidateLocked(x, stage) ==
    IF x.err # "" THEN x
    ELSE [x EXCEPT
            !.validation = IF \A i \in DOMAIN x.layers : x.layers[i] = "CLIENT"
                           THEN "kValidated" ELSE "kAwaitingAccept",
            !.err = IF x.target # None /\ stage = "test" THEN "EX_NO_RESOURCES" ELSE ""]

AcceptDisplayChanges(x) ==
    IF x.err # "" THEN x
    ELSE IF x.validation = "kDirty" THEN [x EXCEPT !.err = "EX_NOT_VALIDATED"]
    ELSE [x EXCEPT !.layers = [i \in DOMAIN x.layers |-> "CLIENT"],
                   !.validation = "kValidated"]

SetBrightness(x, stage) ==
    IF x.err = "" /\ stage = "bright" THEN [x EXCEPT !.err = "EX_NO_RESOURCES"] ELSE x

(* The commit of a present: a modeset when one is due, a flip otherwise,   *)
(* which the kernel refuses on a CRTC that is off.                         *)
NeedsModeset(x) == x.modeset \/ ~x.powered

CanCommit(x) == NeedsModeset(x) \/ x.mode # Off

PresentLocked(x, stage) ==
    IF x.err # "" THEN x
    ELSE IF x.validation # "kValidated" THEN [x EXCEPT !.err = "EX_NOT_VALIDATED"]
    ELSE IF x.target = None THEN [x EXCEPT !.fence = FALSE, !.scanout = None]
    ELSE IF stage = "commit" \/ ~CanCommit(x)
    THEN [x EXCEPT !.fence = FALSE, !.err = "EX_NO_RESOURCES"]
    ELSE [x EXCEPT !.powered = TRUE, !.modeset = FALSE,
                   !.mode = IF NeedsModeset(x) THEN x.config ELSE @,
                   !.fb = x.target, !.scanout = x.target,
                   !.fence = FALSE, !.pending = FALSE]

RestoreStateNoFence(x, s) ==
    [x EXCEPT !.layers = s.layers, !.next = s.next, !.slots = s.slots,
              !.target = s.target, !.pending = s.pending, !.validation = s.validation]

(* restore_state: what the command saved (s) goes back into what it left (x). *)
RestoreState(x, s) ==
    [x EXCEPT !.layers = s.layers, !.next = s.next, !.slots = s.slots,
              !.target = s.target, !.fence = s.fence, !.pending = s.pending,
              !.validation = s.validation]

SnapshotFirst(before, moded) == before

(* The state a failed command returns to is the one after its mode change. *)
Snapshot(before, moded) == moded

-----------------------------------------------------------------------------
(* The operations *)

Fresh(c, on) ==
    [layers |-> << >>, next |-> 1, validation |-> "kDirty", slots |-> << >>,
     target |-> None, scanout |-> None, fence |-> FALSE, pending |-> FALSE,
     powered |-> on, modeset |-> TRUE, config |-> c, mode |-> Off, fb |-> None,
     err |-> ""]

(* ComposerClient::Init switches a display off that the firmware lit. *)
Init ==
    /\ connected = TRUE
    /\ modes = Configs
    /\ \E c \in Configs : d = Fresh(c, FALSE)
    /\ asked = "OFF"
    /\ early = FALSE

Finish(x) == d' = RmFB([x EXCEPT !.err = ""])

CreateLayer ==
    /\ connected
    /\ d.next <= MaxLayer
    /\ Finish([d EXCEPT !.layers = [i \in DOMAIN d.layers \cup {d.next} |->
                                      IF i \in DOMAIN d.layers THEN d.layers[i] ELSE "INVALID"],
                        !.next = @ + 1, !.validation = "kDirty"])
    /\ UNCHANGED <<connected, modes, asked, early>>

DestroyLayer ==
    /\ connected
    /\ \E l \in DOMAIN d.layers :
         Finish([d EXCEPT !.layers = [i \in DOMAIN d.layers \ {l} |-> d.layers[i]],
                          !.validation = "kDirty"])
    /\ UNCHANGED <<connected, modes, asked, early>>

(* The parts of a display command before its layers, and between them and  *)
(* presentDisplay.                                                         *)
Moded(cmd, stage) ==
    IF cmd.config = None THEN d ELSE SetActiveConfigLocked(d, cmd.config, stage)

Layered(x, cmd) ==
    LET color == IF cmd.color THEN [x EXCEPT !.validation = "kDirty"] ELSE x
    IN  IF cmd.layer = None THEN color ELSE ApplyLayerLocked(color, cmd.layer)

Targeted(x, cmd, stage) ==
    IF cmd.target = None THEN x ELSE SetClientTargetLocked(x, cmd.target, stage)

Accepted(x, cmd, stage) ==
    LET valid == IF cmd.validate THEN ValidateLocked(x, stage) ELSE x
    IN  IF cmd.accept THEN AcceptDisplayChanges(valid) ELSE valid

(* One display command of a batch.  `ready` is the display when the        *)
(* command reaches its presentDisplay part, `done` when it leaves it.      *)
ExecuteCommand(cmd, stage) ==
    /\ connected
    /\ (cmd.present => (asked = "ON" \/ PresentsWhileOff))
    /\ \E moded \in {Moded(cmd, stage)} :
       \E layered \in {Layered(moded, cmd)} :
       \E targeted \in {Targeted(layered, cmd, stage)} :
       \E accepted \in {Accepted(targeted, cmd, stage)} :
       \E ready \in {IF cmd.bright THEN SetBrightness(accepted, stage) ELSE accepted} :
       \E done \in {IF cmd.present THEN PresentLocked(ready, stage) ELSE ready} :
          LET shown == cmd.present /\ done.err = "" /\ ready.target # None IN
          /\ ((cmd.present /\ ready.err = "") => (ready.target # None \/ EmptyTargets))
          /\ Finish(IF moded.err # "" THEN moded
                    ELSE IF done.err # "" THEN RestoreState(done, Snapshot(d, moded))
                    ELSE done)
          /\ early' = (early \/ (shown /\ ready.pending /\ ~ready.fence))
    /\ UNCHANGED <<connected, modes, asked>>

SetActiveConfig(c, stage) ==
    /\ connected
    /\ Finish(SetActiveConfigLocked(d, c, stage))
    /\ UNCHANGED <<connected, modes, asked, early>>

SetClientTargetSlotCount(count) ==
    /\ connected
    /\ Finish([d EXCEPT !.slots = [i \in 1 .. count |-> None], !.target = None])
    /\ UNCHANGED <<connected, modes, asked, early>>

SetPowerModeAlwaysOk(on, fail) ==
    /\ connected
    /\ Finish(SetPower(d, on, fail))
    /\ asked' = IF on THEN "ON" ELSE "OFF"
    /\ UNCHANGED <<connected, modes, early>>

SetPowerMode(on, fail) ==
    LET x == SetPower(d, on, fail) IN
    /\ connected
    /\ Finish(IF x.err = "" /\ ~on THEN [x EXCEPT !.scanout = None] ELSE x)
    /\ asked' = IF x.err # "" THEN asked ELSE IF on THEN "ON" ELSE "OFF"
    /\ UNCHANGED <<connected, modes, early>>

(* The configuration a scan finds active: the mode of the CRTC, else the   *)
(* preferred one.                                                          *)
Discovered(list, preferred) == IF d.mode \in list THEN d.mode ELSE preferred

(* DrmDevice::Rescan of a display that stays connected. *)
Rescan(list, preferred) ==
    /\ connected
    /\ (ModeListChanges \/ list = modes)
    /\ modes' = list
    /\ Finish([d EXCEPT !.config = IF @ \in list THEN @ ELSE Discovered(list, preferred),
                        !.modeset = @ \/ Discovered(list, preferred) # d.config])
    /\ UNCHANGED <<connected, asked, early>>

(* HotplugLoop: the state of a display that went away is erased ... *)
Disconnect ==
    /\ connected
    /\ connected' = FALSE
    /\ Finish([d EXCEPT !.layers = << >>, !.slots = << >>, !.target = None, !.scanout = None])
    /\ asked' = "OFF"
    /\ UNCHANGED <<modes, early>>

(* ... and one that comes back starts afresh, switched off. *)
Connect(list, preferred, fail) ==
    LET c == Discovered(list, preferred)
        x == [Fresh(c, d.mode # Off) EXCEPT !.modeset = d.mode # c, !.mode = d.mode, !.fb = d.fb]
    IN  /\ ~connected
        /\ connected' = TRUE
        /\ modes' = list
        /\ Finish(SetPower(x, FALSE, fail))
        /\ UNCHANGED <<asked, early>>

Next ==
    \/ CreateLayer
    \/ DestroyLayer
    \/ \E cmd \in Commands : \E stage \in Stages(cmd) : ExecuteCommand(cmd, stage)
    \/ \E c \in Configs, stage \in {None, "off", "on", "both"} : SetActiveConfig(c, stage)
    \/ \E count \in 0 .. MaxSlots : SetClientTargetSlotCount(count)
    \/ \E on, fail \in BOOLEAN : SetPowerMode(on, fail)
    \/ \E list \in SUBSET Configs : \E preferred \in list : Rescan(list, preferred)
    \/ Disconnect
    \/ \E list \in SUBSET Configs, fail \in BOOLEAN :
          \E preferred \in list : Connect(list, preferred, fail)

Spec == Init /\ [][Next]_vars

-----------------------------------------------------------------------------
(* The display record is well formed and every call leaves it without a    *)
(* pending error.                                                          *)
TypeOK ==
    /\ connected \in BOOLEAN
    /\ modes \in SUBSET Configs \ {{}}
    /\ DOMAIN d.layers \subseteq 1 .. MaxLayer
    /\ \A l \in DOMAIN d.layers : d.layers[l] \in Compositions
    /\ d.next \in 1 .. MaxLayer + 1
    /\ d.validation \in {"kDirty", "kAwaitingAccept", "kValidated"}
    /\ DOMAIN d.slots = 1 .. Len(d.slots)
    /\ \A i \in DOMAIN d.slots : d.slots[i] \in MaybeFb
    /\ d.target \in MaybeFb
    /\ d.scanout \in MaybeFb
    /\ d.fb \in MaybeFb
    /\ d.mode \in Configs \cup {Off}
    /\ d.config \in modes
    /\ d.err = ""
    /\ asked \in {"ON", "OFF"}
    /\ early \in BOOLEAN

(* What may be presented has been agreed: a validated display has only     *)
(* CLIENT layers, whichever commands created, changed, failed or were      *)
(* rolled back since the validation.                                       *)
ValidatedIsClient ==
    d.validation = "kValidated" => \A l \in DOMAIN d.layers : d.layers[l] = "CLIENT"

(* The HAL and the kernel agree: when the HAL believes that no modeset is  *)
(* due, the CRTC runs the active configuration (otherwise every flip fails *)
(* until the next mode or power change), and a CRTC that is on is known to *)
(* be on (otherwise SetPower(OFF) returns early and the screen stays lit). *)
KernelAgrees ==
    connected => /\ (d.powered /\ ~d.modeset) => d.mode = d.config
                 /\ d.mode # Off => d.powered

(* A display the framework switched off, or has not switched on yet, is    *)
(* dark.                                                                   *)
OffIsDark == (connected /\ asked = "OFF") => d.mode = Off

(* A mode change drops the client target of the old mode, also when the    *)
(* rest of its command fails and is rolled back.                           *)
TargetOfActiveMode ==
    (connected /\ d.target # None) => d.target.mode = d.config

(* No target is put on screen before its acquire fence, also when an       *)
(* earlier present of it failed after consuming the fence.                 *)
FenceRespected == ~early

=============================================================================
