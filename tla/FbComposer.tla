----------------------------- MODULE FbComposer -----------------------------
(***************************************************************************)
(* One display of the framebuffer composer (graphics/allocator/fb): the    *)
(* commands of ComposerClient over FbdevDevice, which copies the client    *)
(* target into a page of the framebuffer and pans to it.  Every entry      *)
(* point holds mutex_ throughout, so each call is one step that may fail   *)
(* at a stage.                                                             *)
(*                                                                         *)
(* A picture is a function from the regions of the screen to colours; a    *)
(* target damages some regions.  The display is one record `d`:            *)
(*   layers, next, validation           DisplayState                       *)
(*   slots, target, damage, fence       DisplayState                       *)
(*   pages, current, pan                the mapping, current_page_,        *)
(*                                      pan_supported_                     *)
(*   last, powered, down                last_frame_, powered_,             *)
(*                                      backlight_power_down_              *)
(*   blanked, lamp                      the screen and bl_power            *)
(*   err                                the error of the call, "" if none  *)
(***************************************************************************)
EXTENDS Naturals, Sequences, FiniteSets

CONSTANTS
    None,           \* no value
    Regions,        \* parts of the screen
    Pictures,       \* what a target may show
    Black,          \* clear_pixel_
    MaxPages,       \* complete pages of the framebuffer
    MaxLayer,       \* bound on layer IDs
    MaxSlots,       \* bound on the client target slots
    FlushFails,     \* the device may refuse a write or msync in mid-frame
    LampFails       \* bl_power may refuse the write of a power-on

VARIABLES
    d,          \* the display, see above
    hardware,   \* [blank, pans, lamp]: what the device supports
    asked,      \* the power mode the framework was granted last
    shown       \* the picture of the last present that succeeded

vars == <<d, hardware, asked, shown>>

Clear == [r \in Regions |-> Black]
Colors == {p[r] : p \in Pictures, r \in Regions} \cup {Black}
Screen == [Regions -> Colors]

ASSUME PicturesAssumption ==
    /\ \A p \in Pictures : p \in [Regions -> {p[r] : r \in Regions} \ {Black}]
    /\ None \notin Screen \cup {"flush", "lamp"}
    /\ MaxPages \in Nat \ {0}

(* The damage of a new target is relative to the last frame on screen: at  *)
(* least the regions where it differs.                                     *)
DamageOf(p) ==
    {x \in SUBSET Regions : \A r \in Regions : p[r] # shown[r] => r \in x}

-----------------------------------------------------------------------------
(* FbdevDevice *)

Failed(x, e) == [x EXCEPT !.err = e]

(* RestoreCurrentFrame: last_frame_ goes back into the visible page. *)
RestoreNothing(x) == x

RestoreCurrentFrame(x) ==
    IF x.last = None THEN x ELSE [x EXCEPT !.pages[x.current] = x.last]

(* SetBrightness: negative values power the backlight down. *)
SetBrightness(x, negative, fail) ==
    IF x.err # "" THEN x
    ELSE IF fail THEN Failed(x, "EX_NO_RESOURCES")
    ELSE IF negative THEN [x EXCEPT !.lamp = FALSE, !.down = TRUE]
    ELSE [x EXCEPT !.lamp = IF x.powered THEN TRUE ELSE @, !.down = FALSE]

PowerOnUnlit(x, fail) ==
    [RestoreCurrentFrame([x EXCEPT !.blanked = FALSE]) EXCEPT !.powered = TRUE]

(* SetPower(true): unblank, redraw the last frame, light the backlight. *)
PowerOn(x, fail) ==
    LET lit == RestoreCurrentFrame([x EXCEPT !.blanked = FALSE])
    IN  IF fail = "blank" /\ hardware.blank THEN Failed(x, "EX_NO_RESOURCES")
        ELSE IF fail = "flush" /\ x.last # None THEN Failed(lit, "EX_NO_RESOURCES")
        ELSE IF fail = "lamp" /\ hardware.lamp /\ ~x.down THEN Failed(lit, "EX_NO_RESOURCES")
        ELSE [lit EXCEPT !.powered = TRUE,
                         !.lamp = IF hardware.lamp /\ ~x.down THEN TRUE ELSE @]

(* SetPower(false): blank, or a black framebuffer where that fails. *)
PowerOff(x, fail) ==
    LET cleared == [x EXCEPT !.pages = [p \in 1 .. MaxPages |-> Clear]]
    IN  IF hardware.blank
        THEN IF fail = "blank" THEN Failed(x, "EX_NO_RESOURCES")
             ELSE [x EXCEPT !.powered = FALSE, !.blanked = TRUE]
        ELSE IF fail = "flush" THEN Failed(cleared, "EX_NO_RESOURCES")
             ELSE [cleared EXCEPT !.powered = FALSE]

SetPower(x, on, fail) ==
    IF x.powered # on THEN IF on THEN PowerOn(x, fail) ELSE PowerOff(x, fail)
    ELSE IF ~on THEN x
    ELSE IF x.down /\ hardware.lamp
    THEN IF fail = "lamp" THEN Failed(x, "EX_NO_RESOURCES")
         ELSE [x EXCEPT !.lamp = TRUE, !.down = FALSE]
    ELSE [x EXCEPT !.down = FALSE]

(* The page a frame is copied to, and what is copied: a page that was not  *)
(* on screen holds an old frame and gets all of the new one.               *)
TargetPage(x) ==
    IF x.pan /\ x.damage # {} THEN (x.current % MaxPages) + 1 ELSE x.current

CopyDamageOnly(x) == x.damage

CopyDamage(x) == IF TargetPage(x) = x.current THEN x.damage ELSE Regions

Copied(x, page, damage) ==
    [x EXCEPT !.pages[page] =
        [r \in Regions |-> IF r \in damage THEN x.target[r] ELSE @[r]]]

(* The saved copy is of the page on screen. *)
SaveCurrentFrame(x) == [x EXCEPT !.last = x.pages[x.current]]

Cleared(x) == SaveCurrentFrame([x EXCEPT !.pages = [p \in 1 .. MaxPages |-> Clear]])

(* FbdevDevice::Present of a target; `fail` is the acquire fence, a write  *)
(* or the pan ("pan" fails once, "nopan" for good).                        *)
PresentDevice(x, fail) ==
    LET page == TargetPage(x)
        copied == Copied(x, page, CopyDamage(x))
        visible == Copied(copied, x.current, Regions)
    IN  IF (fail = "fence" /\ x.fence) \/ ~x.powered THEN Failed(x, "EX_NO_RESOURCES")
        ELSE IF x.target = None
        THEN IF fail = "flush"
             THEN Failed([x EXCEPT !.pages = [p \in 1 .. MaxPages |-> Clear]], "EX_NO_RESOURCES")
             ELSE Cleared(x)
        ELSE IF fail = "flush" /\ x.damage # {} THEN Failed(copied, "EX_NO_RESOURCES")
        ELSE IF x.pan /\ fail \in {"pan", "nopan"}
        THEN SaveCurrentFrame([visible EXCEPT !.pan = fail = "pan"])
        ELSE SaveCurrentFrame([copied EXCEPT !.current = page])

-----------------------------------------------------------------------------
(* ComposerClient: the parts of a display command; an operation on an x    *)
(* that failed is x.                                                       *)

(* A display whose last layer goes has no target any more. *)
Emptied(x) ==
    IF x.layers = << >> THEN [x EXCEPT !.target = None, !.fence = FALSE] ELSE x

ApplyLayerLocked(x, l) ==
    LET exists == l.layer \in DOMAIN x.layers
        kept == DOMAIN x.layers \ {l.layer}
        old == IF exists THEN x.layers[l.layer] ELSE "INVALID"
        new == IF l.composition = None THEN old ELSE l.composition
    IN  IF x.err # "" THEN x
        ELSE IF exists = (l.op = "CREATE") THEN Failed(x, "EX_BAD_LAYER")
        ELSE IF l.op = "DESTROY"
        THEN Emptied([x EXCEPT !.layers = [i \in kept |-> x.layers[i]], !.validation = "kDirty"])
        ELSE [x EXCEPT
                !.layers = [i \in kept \cup {l.layer} |-> IF i = l.layer THEN new ELSE x.layers[i]],
                !.next = IF l.op = "CREATE" /\ l.layer >= @ THEN l.layer + 1 ELSE @,
                !.validation = IF l.op = "MODIFY" /\ l.composition = None THEN @ ELSE "kDirty"]

SetClientTargetLocked(x, t, fail) ==
    LET i == t.slot + 1
        imported == IF t.picture = None THEN x.slots ELSE [x.slots EXCEPT ![i] = t.picture]
    IN  IF x.err # "" THEN x
        ELSE IF i \notin DOMAIN x.slots \/ (t.picture # None /\ fail = "import")
        THEN Failed(x, "EX_BAD_PARAMETER")
        ELSE [x EXCEPT !.slots = imported, !.target = imported[i], !.damage = t.damage,
                       !.fence = t.fence]

ValidateLocked(x) ==
    IF x.err # "" THEN x
    ELSE [x EXCEPT !.validation =
            IF \A i \in DOMAIN x.layers : x.layers[i] = "CLIENT"
            THEN "kValidated" ELSE "kAwaitingAccept"]

AcceptDisplayChanges(x) ==
    IF x.err # "" THEN x
    ELSE IF x.validation = "kDirty" THEN Failed(x, "EX_NOT_VALIDATED")
    ELSE [x EXCEPT !.layers = [i \in DOMAIN x.layers |-> "CLIENT"],
                   !.validation = "kValidated"]

PresentLocked(x, fail) ==
    LET done == PresentDevice(x, fail)
    IN  IF x.err # "" THEN x
        ELSE IF x.validation # "kValidated" THEN Failed(x, "EX_NOT_VALIDATED")
        ELSE IF x.layers # << >> /\ x.target = None THEN Failed(x, "EX_BAD_PARAMETER")
        ELSE [done EXCEPT !.fence = FALSE]

(* restore: what the command saved (s) goes back into what it left (x). *)
RestoreKeepsDamage(x, s) ==
    [x EXCEPT !.layers = s.layers, !.next = s.next, !.slots = s.slots, !.target = s.target,
              !.fence = s.fence, !.validation = s.validation]

Restore(x, s) ==
    [x EXCEPT !.layers = s.layers, !.next = s.next, !.slots = s.slots, !.target = s.target,
              !.damage = s.damage, !.fence = s.fence, !.validation = s.validation]

-----------------------------------------------------------------------------
(* FbdevDevice::InitPath leaves the display dark. *)
Init ==
    /\ hardware \in [blank : BOOLEAN, pans : BOOLEAN, lamp : BOOLEAN]
    /\ d = [layers |-> << >>, next |-> 1, validation |-> "kDirty", slots |-> << >>,
            target |-> None, damage |-> {}, fence |-> FALSE,
            pages |-> [p \in 1 .. MaxPages |-> Clear], current |-> 1, pan |-> hardware.pans,
            last |-> None, powered |-> FALSE, down |-> FALSE, blanked |-> hardware.blank,
            lamp |-> TRUE, err |-> ""]
    /\ asked = "OFF"
    /\ shown = Clear

Finish(x) == d' = [x EXCEPT !.err = ""]

CreateLayer ==
    /\ d.next <= MaxLayer
    /\ Finish([d EXCEPT !.layers = [i \in DOMAIN d.layers \cup {d.next} |->
                                      IF i \in DOMAIN d.layers THEN d.layers[i] ELSE "INVALID"],
                        !.next = @ + 1, !.validation = "kDirty"])
    /\ UNCHANGED <<hardware, asked, shown>>

DestroyLayer ==
    /\ \E l \in DOMAIN d.layers :
         Finish(Emptied([d EXCEPT !.layers = [i \in DOMAIN d.layers \ {l} |-> d.layers[i]],
                                  !.validation = "kDirty"]))
    /\ UNCHANGED <<hardware, asked, shown>>

SetClientTargetSlotCount(count) ==
    /\ Finish([d EXCEPT !.target = None, !.damage = {}, !.slots = [i \in 1 .. count |-> None],
                        !.fence = FALSE])
    /\ UNCHANGED <<hardware, asked, shown>>

(* A command with at most a layer, a target and a brightness, and the      *)
(* picture on screen once it is over.                                      *)
ExecuteCommand(cmd, fail) ==
    \E layered \in {IF cmd.layer = None THEN d ELSE ApplyLayerLocked(d, cmd.layer)} :
    \E targeted \in {IF cmd.target = None THEN layered
                     ELSE SetClientTargetLocked(layered, cmd.target, fail)} :
    \E validated \in {IF cmd.validate THEN ValidateLocked(targeted) ELSE targeted} :
    \E accepted \in {IF cmd.accept THEN AcceptDisplayChanges(validated) ELSE validated} :
    \E ready \in {IF cmd.bright = None THEN accepted
                  ELSE SetBrightness(accepted, cmd.bright = "down", fail = "bright")} :
    \E done \in {IF cmd.present THEN PresentLocked(ready, fail) ELSE ready} :
       /\ (cmd.bright # None => hardware.lamp)
       /\ Finish(IF done.err = "" THEN done ELSE Restore(done, d))
       /\ shown' = IF ~cmd.present \/ done.err # "" THEN shown
                   ELSE IF ready.target = None THEN Clear ELSE ready.target
       /\ UNCHANGED <<hardware, asked>>

SetPowerMode(on, fail) ==
    \E x \in {SetPower(d, on, fail)} :
       /\ Finish(x)
       /\ asked' = IF x.err # "" THEN asked ELSE IF on THEN "ON" ELSE "OFF"
       /\ UNCHANGED <<hardware, shown>>

Layer(o, l, c) == [op |-> o, layer |-> l, composition |-> c]

Plain == [layer |-> None, target |-> None, validate |-> FALSE, accept |-> FALSE,
          bright |-> None, present |-> FALSE]

(* The stages at which the device or a driver may refuse. *)
Stages ==
    {None, "import", "bright", "fence", "pan", "nopan"}
    \cup (IF FlushFails THEN {"flush"} ELSE {})

Next ==
    \/ CreateLayer
    \/ DestroyLayer
    \/ \E count \in 0 .. MaxSlots : SetClientTargetSlotCount(count)
    \/ \E o \in {"CREATE", "DESTROY", "MODIFY"}, l \in 1 .. MaxLayer, c \in {None, "DEVICE"} :
          ExecuteCommand([Plain EXCEPT !.layer = Layer(o, l, c)], None)
    \/ \E p \in Pictures, s \in 0 .. MaxSlots - 1, present \in BOOLEAN, fail \in Stages :
       \E x \in DamageOf(p) :
          ExecuteCommand([Plain EXCEPT
                            !.target = [slot |-> s, picture |-> p, damage |-> x, fence |-> TRUE],
                            !.validate = TRUE, !.accept = TRUE, !.present = present], fail)
    \/ \E i \in DOMAIN d.slots, fail \in Stages :
          /\ d.slots[i] # None
          /\ \E x \in DamageOf(d.slots[i]) :
               ExecuteCommand([Plain EXCEPT
                                 !.target = [slot |-> i - 1, picture |-> None, damage |-> x,
                                             fence |-> FALSE],
                                 !.present = TRUE], fail)
    \/ \E v, a, present \in BOOLEAN, fail \in Stages :
          ExecuteCommand([Plain EXCEPT !.validate = v, !.accept = a, !.present = present], fail)
    \/ \E b \in {"up", "down"}, present \in BOOLEAN, fail \in {None, "bright"} :
          ExecuteCommand([Plain EXCEPT !.bright = b, !.present = present], fail)
    \/ \E on \in BOOLEAN, fail \in {None, "blank"} \cup (IF FlushFails THEN {"flush"} ELSE {})
                                   \cup (IF LampFails THEN {"lamp"} ELSE {}) :
          SetPowerMode(on, fail)

Spec == Init /\ [][Next]_vars

-----------------------------------------------------------------------------
TypeOK ==
    /\ d.pages \in [1 .. MaxPages -> Screen]
    /\ d.current \in 1 .. MaxPages
    /\ d.last \in Screen \cup {None}
    /\ d.damage \subseteq Regions
    /\ d.err = ""
    /\ shown \in Screen

(* What a display that is on shows is the last frame whose present         *)
(* succeeded, all of it: page flips, pans that fail, damage that covers a  *)
(* part of the screen, commands rolled back, blank and unblank in between. *)
ScreenShowsFrame == d.powered => d.pages[d.current] = shown

(* A display the framework switched off is dark, and one it switched on is *)
(* lit unless a brightness command put the backlight out.                  *)
LitAsAsked ==
    /\ asked = "OFF" => d.blanked \/ d.pages[d.current] = Clear
    /\ asked = "ON" => ~d.blanked /\ (hardware.lamp => d.lamp = ~d.down)

=============================================================================
