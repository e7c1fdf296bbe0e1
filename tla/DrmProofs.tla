----------------------------- MODULE DrmProofs -----------------------------
(***************************************************************************)
(* Theorems about the DRM composer: the commands of a display, the         *)
(* agreement of the framework and the HAL about the displays there are,    *)
(* and the cards, connectors and pipelines the displays are made of.       *)
(***************************************************************************)
EXTENDS MCDrm, FiniteSetTheorems, TLAPS

(***************************************************************************)
(* The display of the command path                                         *)
(***************************************************************************)

Fields ==
    {"layers", "next", "validation", "slots", "target", "scanout", "fence", "pending",
     "powered", "modeset", "config", "mode", "fb", "err"}

\* A display record; every call gets one, also after a part of it failed.
IsDisplay(x) ==
    /\ DOMAIN x = Fields
    /\ x.powered \in BOOLEAN /\ x.modeset \in BOOLEAN
    /\ x.pending \in BOOLEAN /\ x.fence \in BOOLEAN
    /\ x.config \in Configs

ClientOnly(x) ==
    x.validation = "kValidated" => \A l \in DOMAIN x.layers : x.layers[l] = "CLIENT"

\* Every framebuffer the client may present has the size of the active mode.
TargetsFit(x) ==
    /\ x.target # None => x.target.mode = x.config
    /\ \A i \in DOMAIN x.slots : x.slots[i] # None => x.slots[i].mode = x.config

\* What the HAL knows of the kernel.  The framebuffer on screen is the one it
\* holds as scanout: if nothing referred to it the kernel would go dark.
KernelKnown(x) ==
    /\ x.powered /\ ~x.modeset => x.mode = x.config
    /\ x.mode # Off => x.powered /\ x.fb # None /\ x.fb = x.scanout
    /\ x.mode = Off => x.fb = None

\* A target whose fence has not been waited for still has it.
FenceKept(x) == x.pending => x.fence

Sound(x) == IsDisplay(x) /\ ClientOnly(x) /\ TargetsFit(x) /\ KernelKnown(x) /\ FenceKept(x)

\* The parts of a display that only power, mode changes and presents touch.
SameOutput(x, y) ==
    /\ y.config = x.config /\ y.powered = x.powered /\ y.modeset = x.modeset
    /\ y.mode = x.mode /\ y.fb = x.fb /\ y.scanout = x.scanout

\* The parts a failed command puts back.
SameInput(x, y) ==
    /\ y.layers = x.layers /\ y.validation = x.validation /\ y.slots = x.slots
    /\ y.target = x.target /\ y.fence = x.fence /\ y.pending = x.pending

-----------------------------------------------------------------------------
\* What SetPower() may leave.
TurnsOn(x, y) ==
    IF x.powered THEN y = x
    ELSE \/ y = [x EXCEPT !.modeset = TRUE, !.powered = TRUE]
         \/ y = [x EXCEPT !.modeset = TRUE, !.err = "EX_NO_RESOURCES"]

TurnsOff(x, y) ==
    IF ~x.powered THEN y = x
    ELSE \/ y = [x EXCEPT !.modeset = TRUE, !.powered = FALSE, !.mode = Off, !.fb = None]
         \/ y = [x EXCEPT !.err = "EX_NO_RESOURCES"]

\* A display without layers or slots has none to constrain.
LEMMA NothingHeld == DOMAIN << >> = {}
  OBVIOUS

\* Switching a display on never lights it: that is for the next present.
LEMMA OnFacts ==
    ASSUME NEW x, IsDisplay(x), KernelKnown(x), NEW y, TurnsOn(x, y)
    PROVE  /\ IsDisplay(y) /\ KernelKnown(y) /\ SameInput(x, y)
           /\ y.config = x.config /\ y.scanout = x.scanout /\ y.mode = x.mode
           /\ y.err = "" => x.err = "" /\ y.powered
           /\ x.err # "" => y.err # ""
  <1> USE DEF IsDisplay, Fields, KernelKnown, SameInput
  <1>1. CASE y = x /\ x.powered
    BY <1>1
  <1>2. CASE y = [x EXCEPT !.modeset = TRUE, !.powered = TRUE]
    BY <1>2
  <1>3. CASE y = [x EXCEPT !.modeset = TRUE, !.err = "EX_NO_RESOURCES"]
    BY <1>3
  <1> QED
    BY <1>1, <1>2, <1>3 DEF TurnsOn

\* A display that was switched off is dark, and one that could not be is as before.
LEMMA OffFacts ==
    ASSUME NEW x, IsDisplay(x), KernelKnown(x), NEW y, TurnsOff(x, y)
    PROVE  /\ IsDisplay(y) /\ KernelKnown(y) /\ SameInput(x, y)
           /\ y.config = x.config /\ y.scanout = x.scanout /\ y.mode \in {x.mode, Off}
           /\ y.err = "" => ~y.powered /\ y.mode = Off
  <1> USE DEF IsDisplay, Fields, KernelKnown, SameInput
  <1>1. CASE y = x /\ ~x.powered
    BY <1>1
  <1>2. CASE y = [x EXCEPT !.modeset = TRUE, !.powered = FALSE, !.mode = Off, !.fb = None]
    BY <1>2
  <1>3. CASE y = [x EXCEPT !.err = "EX_NO_RESOURCES"]
    BY <1>3
  <1> QED
    BY <1>1, <1>2, <1>3 DEF TurnsOff

\* A mode change that fails leaves the old mode, and one that succeeds leaves
\* the display dark, with a modeset due if it is on.
Switched(x, c, y) ==
    /\ IsDisplay(y) /\ KernelKnown(y) /\ SameInput(x, y)
    /\ y.scanout = x.scanout
    /\ y.err = "" => y.config = c /\ y.mode = Off
    /\ y.err # "" => y.config = x.config
    /\ y.mode \in {x.mode, Off}

LEMMA SwitchModeFacts ==
    ASSUME NEW x, IsDisplay(x), KernelKnown(x), x.err = "",
           NEW c \in Configs, NEW at, NEW y, y = SwitchMode(x, c, at)
    PROVE  Switched(x, c, y)
  <1> DEFINE down == IF x.powered THEN SetPower(x, FALSE, at = "off") ELSE x
             turned == [down EXCEPT !.config = c]
             up == SetPower(turned, TRUE, at \in {"on", "both"})
             restored == [up EXCEPT !.config = x.config]
             back == SetPower(restored, TRUE, at = "both")
  <1>1. y = IF down.err # "" THEN down
            ELSE IF ~x.powered THEN turned
            ELSE IF up.err = "" THEN up
            ELSE back
    BY DEF SwitchMode
  <1>2. TurnsOff(x, down) /\ TurnsOn(turned, up) /\ TurnsOn(restored, back)
    BY DEF SetPower, TurnsOn, TurnsOff, IsDisplay
  <1> HIDE DEF down, turned, up, restored, back
  <1>4. /\ IsDisplay(down) /\ KernelKnown(down) /\ SameInput(x, down)
        /\ down.config = x.config /\ down.scanout = x.scanout
        /\ down.mode \in {x.mode, Off}
        /\ down.err = "" => ~down.powered /\ down.mode = Off
    BY <1>2, OffFacts
  <1>5. ASSUME down.err = ""
        PROVE  /\ IsDisplay(turned) /\ KernelKnown(turned) /\ SameInput(x, turned)
               /\ turned.config = c /\ turned.err = "" /\ turned.scanout = x.scanout
               /\ turned.mode = Off
    BY <1>4, <1>5 DEF turned, IsDisplay, Fields, KernelKnown, SameInput
  <1>6. ASSUME down.err = ""
        PROVE  /\ IsDisplay(up) /\ KernelKnown(up) /\ SameInput(x, up)
               /\ up.config = c /\ up.scanout = x.scanout /\ up.mode = Off
               /\ up.powered => up.err = ""
    <2>1. ~turned.powered
      BY <1>4, <1>6 DEF turned, IsDisplay, Fields
    <2>2. up.powered => up.err = ""
      BY <1>2, <1>5, <1>6, <2>1 DEF TurnsOn, IsDisplay, Fields
    <2>3. /\ IsDisplay(up) /\ KernelKnown(up) /\ SameInput(turned, up)
          /\ up.config = turned.config /\ up.scanout = turned.scanout /\ up.mode = turned.mode
      BY <1>2, <1>5, <1>6, OnFacts
    <2> QED
      BY <1>5, <1>6, <2>2, <2>3 DEF SameInput
  <1>7. ASSUME down.err = "", up.err # ""
        PROVE  /\ IsDisplay(back) /\ KernelKnown(back) /\ SameInput(x, back)
               /\ back.config = x.config /\ back.scanout = x.scanout /\ back.mode = Off
               /\ back.err # ""
    <2>1. /\ IsDisplay(restored) /\ KernelKnown(restored) /\ SameInput(x, restored)
          /\ restored.config = x.config /\ restored.err # ""
          /\ restored.scanout = x.scanout /\ restored.mode = Off
      BY <1>6, <1>7 DEF restored, IsDisplay, Fields, KernelKnown, SameInput
    <2>2. /\ IsDisplay(back) /\ KernelKnown(back) /\ SameInput(restored, back)
          /\ back.config = restored.config /\ back.scanout = restored.scanout
          /\ back.mode = restored.mode
          /\ back.err # ""
      BY <1>2, <2>1, OnFacts
    <2> QED
      BY <2>1, <2>2 DEF SameInput
  <1> QED
    BY <1>1, <1>4, <1>5, <1>6, <1>7 DEF Switched

\* A mode change drops every framebuffer of the old mode.
LEMMA SetActiveConfigFacts ==
    ASSUME NEW x, Sound(x), x.err = "", x.config \in modes, modes \subseteq Configs,
           NEW c, NEW at, NEW y, y = SetActiveConfigLocked(x, c, at)
    PROVE  Sound(y) /\ y.config \in modes /\ y.mode \in {x.mode, Off}
  <1> DEFINE s == SwitchMode(x, c, at)
             moved == [s EXCEPT !.slots = [i \in DOMAIN x.slots |-> None], !.target = None,
                                !.scanout = None, !.validation = "kDirty"]
             failed == [s EXCEPT !.err = "EX_CONFIG_FAILED"]
             refused == [x EXCEPT !.err = "EX_BAD_CONFIG"]
  <1>1. y = IF c \notin modes THEN refused
            ELSE IF x.config = c THEN x
            ELSE IF s.err # "" THEN failed
            ELSE moved
    BY DEF SetActiveConfigLocked
  <1>0. s = SwitchMode(x, c, at)
    OBVIOUS
  <1> HIDE DEF s
  <1> USE DEF Sound
  <1>2. Sound(refused) /\ refused.config = x.config /\ refused.mode = x.mode
    BY DEF IsDisplay, Fields, ClientOnly, TargetsFit, KernelKnown, FenceKept
  <1>3. ASSUME c \in modes
        PROVE  /\ IsDisplay(s) /\ KernelKnown(s) /\ SameInput(x, s)
               /\ s.err = "" => s.config = c /\ s.mode = Off
               /\ s.err # "" => s.config = x.config
               /\ s.mode \in {x.mode, Off}
    <2>1. IsDisplay(x) /\ KernelKnown(x) /\ c \in Configs /\ x.err = ""
      BY <1>3
    <2>2. Switched(x, c, s)
      BY <1>0, <2>1, SwitchModeFacts, Zenon
    <2> QED
      BY <2>2 DEF Switched
  <1>4. ASSUME c \in modes, s.err # ""
        PROVE  Sound(failed) /\ failed.config = x.config /\ failed.mode = s.mode
    <2>1. IsDisplay(s) /\ KernelKnown(s) /\ SameInput(x, s) /\ s.config = x.config
      BY <1>3, <1>4
    <2>2. ClientOnly(s) /\ TargetsFit(s) /\ FenceKept(s)
      BY <2>1 DEF SameInput, ClientOnly, TargetsFit, FenceKept
    <2> QED
      BY <2>1, <2>2
      DEF IsDisplay, Fields, ClientOnly, TargetsFit, KernelKnown, FenceKept
  <1>5. ASSUME c \in modes, s.err = ""
        PROVE  Sound(moved) /\ moved.config = c /\ moved.mode = Off
    BY <1>3, <1>5
    DEF SameInput, IsDisplay, Fields, ClientOnly, TargetsFit, KernelKnown, FenceKept
  <1> HIDE DEF moved, failed, refused
  <1> QED
    BY <1>1, <1>2, <1>3, <1>4, <1>5

-----------------------------------------------------------------------------
(* The parts of a command between its mode change and its present leave    *)
(* the output alone and keep the display sound.                            *)

Prepared(x, y) == Sound(y) /\ SameOutput(x, y)

LEMMA ApplyLayerFacts ==
    ASSUME NEW x, Sound(x), NEW l \in LayerCommands, NEW y, y = ApplyLayerLocked(x, l)
    PROVE  Prepared(x, y)
  <1> DEFINE exists == l.layer \in DOMAIN x.layers
             kept == DOMAIN x.layers \ {l.layer}
             old == IF exists THEN x.layers[l.layer] ELSE "INVALID"
             new == IF l.composition = None THEN old ELSE l.composition
             removed == [x EXCEPT !.layers = [i \in kept |-> x.layers[i]],
                                  !.validation = DirtyOf(x, l)]
             changed_ == [x EXCEPT !.layers = [i \in kept \cup {l.layer} |->
                                        IF i = l.layer THEN new ELSE x.layers[i]],
                                   !.next = IF l.op = "CREATE" THEN NextAfter(x, l.layer) ELSE @,
                                   !.validation = DirtyOf(x, l),
                                   !.err = IF l.bad THEN "EX_BAD_PARAMETER" ELSE ""]
  <1> USE DEF Prepared, Sound
  <1>1. SameOutput(x, x)
    BY DEF SameOutput
  <1>2. Prepared(x, [x EXCEPT !.err = "EX_BAD_LAYER"])
    BY DEF IsDisplay, Fields, ClientOnly, TargetsFit, KernelKnown, FenceKept, SameOutput
  <1>3. ASSUME l.op = "DESTROY"
        PROVE  Prepared(x, removed)
    <2>1. DirtyOf(x, l) = "kDirty"
      BY <1>3 DEF DirtyOf
    <2> QED
      BY <2>1
      DEF IsDisplay, Fields, ClientOnly, TargetsFit, KernelKnown, FenceKept, SameOutput
  <1>4. ASSUME exists # (l.op = "CREATE"), l.op # "DESTROY"
        PROVE  Prepared(x, changed_)
    <2>1. IsDisplay(changed_) /\ TargetsFit(changed_) /\ KernelKnown(changed_)
          /\ FenceKept(changed_) /\ SameOutput(x, changed_)
      BY DEF IsDisplay, Fields, TargetsFit, KernelKnown, FenceKept, SameOutput
    <2>2. ClientOnly(changed_)
      <3> SUFFICES ASSUME changed_.validation = "kValidated", NEW i \in DOMAIN changed_.layers
                   PROVE  changed_.layers[i] = "CLIENT"
        BY DEF ClientOnly
      <3>1. DirtyOf(x, l) = "kValidated"
        BY DEF IsDisplay, Fields
      <3>2. l.op = "MODIFY" /\ l.composition = None /\ x.validation = "kValidated"
        BY <3>1 DEF DirtyOf
      <3>3. exists /\ kept \cup {l.layer} = DOMAIN x.layers /\ new = x.layers[l.layer]
        BY <1>4, <3>2
      <3>4. i \in DOMAIN x.layers /\ changed_.layers[i] = x.layers[i]
        BY <3>3 DEF IsDisplay, Fields
      <3> QED
        BY <3>2, <3>4 DEF ClientOnly
    <2> QED
      BY <2>1, <2>2
  <1> QED
    BY <1>1, <1>2, <1>3, <1>4 DEF ApplyLayerLocked

LEMMA SetClientTargetFacts ==
    ASSUME NEW x, Sound(x), NEW t \in Targets, NEW at, NEW y,
           y = SetClientTargetLocked(x, t, at)
    PROVE  Prepared(x, y)
  <1> DEFINE i == t.slot + 1
             imported == IF t.handle THEN [x.slots EXCEPT ![i] = NewFb(x, d)] ELSE x.slots
             changed_ == [x EXCEPT !.slots = imported, !.target = imported[i],
                                   !.fence = t.fence, !.pending = t.fence]
  <1> USE DEF Prepared, Sound
  <1>1. SameOutput(x, x)
    BY DEF SameOutput
  <1>2. Prepared(x, [x EXCEPT !.err = "EX_BAD_PARAMETER"])
    BY DEF IsDisplay, Fields, ClientOnly, TargetsFit, KernelKnown, FenceKept, SameOutput
  <1>3. ASSUME i \in DOMAIN x.slots
        PROVE  Prepared(x, changed_)
    <2>1. \A j \in DOMAIN imported : imported[j] # None => imported[j].mode = x.config
      BY DEF TargetsFit, NewFb
    <2>2. i \in DOMAIN imported
      BY <1>3
    <2>3. t.fence \in BOOLEAN
      BY DEF Targets
    <2> HIDE DEF imported, i
    <2> QED
      BY <2>1, <2>2, <2>3
      DEF IsDisplay, Fields, ClientOnly, TargetsFit, KernelKnown, FenceKept, SameOutput
  <1> QED
    BY <1>1, <1>2, <1>3 DEF SetClientTargetLocked

LEMMA ValidateFacts ==
    ASSUME NEW x, Sound(x), NEW at, NEW y, y = ValidateLocked(x, at)
    PROVE  Prepared(x, y)
  BY DEF ValidateLocked, Prepared, Sound, IsDisplay, Fields, ClientOnly, TargetsFit, KernelKnown,
         FenceKept, SameOutput

LEMMA AcceptFacts ==
    ASSUME NEW x, Sound(x), NEW y, y = AcceptDisplayChanges(x)
    PROVE  Prepared(x, y)
  BY DEF AcceptDisplayChanges, Prepared, Sound, IsDisplay, Fields, ClientOnly, TargetsFit,
         KernelKnown, FenceKept, SameOutput

LEMMA BrightnessFacts ==
    ASSUME NEW x, Sound(x), NEW at, NEW y, y = SetBrightness(x, at)
    PROVE  Prepared(x, y)
  BY DEF SetBrightness, Prepared, Sound, IsDisplay, Fields, ClientOnly, TargetsFit, KernelKnown,
         FenceKept, SameOutput

LEMMA PreparedChain ==
    ASSUME NEW x, NEW y, NEW z, Prepared(x, y), Prepared(y, z)
    PROVE  Prepared(x, z)
  BY DEF Prepared, SameOutput

(* A present shows the target in the active mode, or changes nothing the   *)
(* kernel knows of.                                                        *)
Presented(x, y) ==
    /\ IsDisplay(y) /\ KernelKnown(y) /\ y.config = x.config
    /\ y.err = "" => Sound(y)
    /\ y.err # "" => SameOutput(x, y)

LEMMA PresentFacts ==
    ASSUME NEW x, Sound(x), x.err = "" => x.target # None, NEW at, NEW y,
           y = PresentLocked(x, at)
    PROVE  Presented(x, y)
  <1> DEFINE refused == [x EXCEPT !.fence = FALSE, !.err = "EX_NO_RESOURCES"]
             shown == [x EXCEPT !.powered = TRUE, !.modeset = FALSE,
                                !.mode = IF NeedsModeset(x) THEN x.config ELSE @,
                                !.fb = x.target, !.scanout = x.target,
                                !.fence = FALSE, !.pending = FALSE]
  <1> USE DEF Presented, Sound
  <1>1. Presented(x, x)
    BY DEF SameOutput
  <1>2. Presented(x, [x EXCEPT !.err = "EX_NOT_VALIDATED"])
    BY DEF IsDisplay, Fields, KernelKnown, SameOutput
  <1>3. Presented(x, refused)
    BY DEF IsDisplay, Fields, KernelKnown, SameOutput
  <1>4. ASSUME x.err = "", x.target # None, CanCommit(x) PROVE Presented(x, shown)
    <2>1. IsDisplay(shown) /\ shown.config = x.config /\ ClientOnly(shown) /\ TargetsFit(shown)
          /\ FenceKept(shown) /\ shown.err = ""
      BY <1>4 DEF IsDisplay, Fields, ClientOnly, TargetsFit, FenceKept
    <2>2. shown.mode = x.config
      BY <1>4 DEF NeedsModeset, KernelKnown, IsDisplay, Fields
    <2>3. KernelKnown(shown)
      BY <1>4, <2>2, DisplayAssumption DEF KernelKnown, IsDisplay, Fields
    <2> QED
      BY <2>1, <2>3
  <1> QED
    BY <1>1, <1>2, <1>3, <1>4 DEF PresentLocked

-----------------------------------------------------------------------------
(* The calls *)

\* What the HAL relies on: the framework presents a target, on a display it
\* switched on, and the modes of a connected display stay as they are.
Cooperative == ~EmptyTargets /\ ~PresentsWhileOff /\ ~ModeListChanges

ComposerInv ==
    /\ IsDisplay(d) /\ ClientOnly(d) /\ d.err = ""
    /\ connected \in BOOLEAN /\ asked \in {"ON", "OFF"} /\ modes \subseteq Configs
    /\ connected => /\ Sound(d)
                    /\ d.config \in modes
                    /\ asked = "OFF" => d.mode = Off
    /\ ~connected => d.mode = Off /\ d.fb = None
    /\ ~early

\* When a call returns, the framebuffer on screen is still referred to.
LEMMA FinishFacts ==
    ASSUME NEW x, Sound(x), Finish(x)
    PROVE  Sound(d') /\ d'.err = "" /\ d'.config = x.config /\ d'.mode = x.mode
  <1> DEFINE z == [x EXCEPT !.err = ""]
  <1> USE DEF Sound
  <1>1. Sound(z) /\ z.err = "" /\ z.config = x.config /\ z.mode = x.mode
    BY DEF IsDisplay, Fields, ClientOnly, TargetsFit, KernelKnown, FenceKept
  <1> HIDE DEF z
  <1>2. z.fb # None => z.fb \in References(z)
    BY <1>1 DEF References, KernelKnown
  <1>3. d' = z
    BY <1>2 DEF Finish, RmFB, z
  <1> QED
    BY <1>1, <1>3

LEMMA CommandKeeps ==
    ASSUME ComposerInv, Cooperative, NEW cmd \in Commands, NEW at, ExecuteCommand(cmd, at)
    PROVE  ComposerInv'
  <1> DEFINE moded == Moded(cmd, at)
             layered == Layered(moded, cmd)
             targeted == Targeted(layered, cmd, at)
             accepted == Accepted(targeted, cmd, at)
             ready == IF cmd.bright THEN SetBrightness(accepted, at) ELSE accepted
             done == IF cmd.present THEN PresentLocked(ready, at) ELSE ready
             shown == cmd.present /\ done.err = "" /\ ready.target # None
             result == IF moded.err # "" THEN moded
                       ELSE IF done.err # "" THEN RestoreState(done, Snapshot(d, moded))
                       ELSE done
  <1>1. /\ connected /\ (cmd.present => asked = "ON")
        /\ (cmd.present /\ ready.err = "") => ready.target # None
        /\ Finish(result)
        /\ early' = (early \/ (shown /\ ready.pending /\ ~ready.fence))
        /\ UNCHANGED <<connected, modes, asked>>
    <2>1. PICK m \in {moded} :
           \E l \in {Layered(m, cmd)} : \E t \in {Targeted(l, cmd, at)} :
           \E a \in {Accepted(t, cmd, at)} :
           \E r \in {IF cmd.bright THEN SetBrightness(a, at) ELSE a} :
           \E e \in {IF cmd.present THEN PresentLocked(r, at) ELSE r} :
              /\ ((cmd.present /\ r.err = "") => (r.target # None \/ EmptyTargets))
              /\ Finish(IF m.err # "" THEN m
                        ELSE IF e.err # "" THEN RestoreState(e, Snapshot(d, m))
                        ELSE e)
              /\ early' = (early \/ ((cmd.present /\ e.err = "" /\ r.target # None)
                                       /\ r.pending /\ ~r.fence))
      BY Zenon DEF ExecuteCommand
    <2>2. /\ (cmd.present /\ ready.err = "") => (ready.target # None \/ EmptyTargets)
          /\ Finish(result)
          /\ early' = (early \/ (shown /\ ready.pending /\ ~ready.fence))
      BY <2>1, Zenon
    <2>3. /\ connected /\ (cmd.present => (asked = "ON" \/ PresentsWhileOff))
          /\ UNCHANGED <<connected, modes, asked>>
      BY Zenon DEF ExecuteCommand
    <2> QED
      BY <2>2, <2>3, Zenon DEF Cooperative
  <1>2. cmd \in AllCommands
    BY CommandsAssumption
  <1>3. Sound(moded) /\ moded.config \in modes /\ moded.mode \in {d.mode, Off}
    <2>1. CASE cmd.config = None
      BY <1>1, <2>1 DEF Moded, ComposerInv
    <2>2. CASE cmd.config # None
      BY <1>1, <2>2, SetActiveConfigFacts DEF Moded, ComposerInv
    <2> QED
      BY <2>1, <2>2
  <1> HIDE DEF moded
  <1>4. Prepared(moded, layered)
    <2> DEFINE color == IF cmd.color THEN [moded EXCEPT !.validation = "kDirty"] ELSE moded
    <2>1. Prepared(moded, color)
      BY <1>3
      DEF Prepared, Sound, IsDisplay, Fields, ClientOnly, TargetsFit, KernelKnown, FenceKept,
          SameOutput
    <2>2. layered = IF cmd.layer = None THEN color ELSE ApplyLayerLocked(color, cmd.layer)
      BY DEF Layered
    <2> HIDE DEF color, layered
    <2>3. CASE cmd.layer = None
      BY <2>1, <2>2, <2>3
    <2>4. CASE cmd.layer # None
      <3>1. cmd.layer \in LayerCommands
        BY <1>2, <2>4 DEF AllCommands
      <3>2. Prepared(color, layered)
        BY <2>1, <2>2, <2>4, <3>1, ApplyLayerFacts DEF Prepared
      <3> QED
        BY <2>1, <3>2, PreparedChain
    <2> QED
      BY <2>3, <2>4
  <1> HIDE DEF layered
  <1>5. Prepared(layered, targeted)
    <2>1. CASE cmd.target = None
      BY <1>4, <2>1 DEF Targeted, Prepared, SameOutput
    <2>2. CASE cmd.target # None
      BY <1>2, <1>4, <2>2, SetClientTargetFacts DEF Targeted, AllCommands, Prepared
    <2> QED
      BY <2>1, <2>2
  <1> HIDE DEF targeted
  <1>6. Prepared(targeted, accepted)
    <2> DEFINE valid == IF cmd.validate THEN ValidateLocked(targeted, at) ELSE targeted
    <2>1. Prepared(targeted, valid)
      BY <1>5, ValidateFacts DEF Prepared, SameOutput
    <2>2. accepted = IF cmd.accept THEN AcceptDisplayChanges(valid) ELSE valid
      BY DEF Accepted
    <2> HIDE DEF valid, accepted
    <2>3. Prepared(valid, accepted)
      BY <2>1, <2>2, AcceptFacts DEF Prepared, SameOutput
    <2> QED
      BY <2>1, <2>3, PreparedChain
  <1> HIDE DEF accepted
  <1>7. Prepared(accepted, ready)
    BY <1>6, BrightnessFacts DEF Prepared, SameOutput
  <1> HIDE DEF ready
  <1>8. Sound(ready) /\ SameOutput(moded, ready)
    BY <1>4, <1>5, <1>6, <1>7, PreparedChain DEF Prepared
  <1>9. /\ Presented(ready, done)
        /\ ~cmd.present => done = ready
    <2>1. CASE cmd.present
      BY <1>1, <1>8, <2>1, PresentFacts
    <2>2. CASE ~cmd.present
      BY <1>8, <2>2 DEF Presented, Sound, SameOutput
    <2> QED
      BY <2>1, <2>2
  <1> HIDE DEF done
  <1>10. Sound(result) /\ result.config \in modes /\ (~cmd.present => result.mode \in {d.mode, Off})
    <2>1. CASE moded.err # ""
      BY <1>3, <2>1
    <2>2. CASE moded.err = "" /\ done.err = ""
      BY <1>3, <1>8, <1>9, <2>2 DEF Presented, SameOutput
    <2>3. CASE moded.err = "" /\ done.err # ""
      <3>1. result = RestoreState(done, moded)
        BY <2>3 DEF Snapshot
      <3>2. SameOutput(moded, done) /\ IsDisplay(done) /\ KernelKnown(done)
        BY <1>8, <1>9, <2>3 DEF Presented, SameOutput
      <3>3. SameOutput(moded, result) /\ SameInput(moded, result) /\ IsDisplay(result)
        BY <1>3, <3>1, <3>2
        DEF RestoreState, Sound, IsDisplay, Fields, SameOutput, SameInput
      <3> HIDE DEF result
      <3> QED
        BY <1>3, <3>3
        DEF Sound, ClientOnly, TargetsFit, KernelKnown, FenceKept, SameOutput, SameInput
    <2> QED
      BY <2>1, <2>2, <2>3
  <1> HIDE DEF result
  <1>11. /\ Sound(d') /\ d'.err = "" /\ d'.config = result.config /\ d'.mode = result.mode
    BY <1>1, <1>10, FinishFacts
  <1>12. ~early'
    BY <1>1, <1>8 DEF ComposerInv, Sound, FenceKept
  <1> QED
    BY <1>1, <1>10, <1>11, <1>12 DEF ComposerInv, Sound

LEMMA OtherCallsKeep ==
    ASSUME ComposerInv, Cooperative,
           \/ CreateLayer \/ DestroyLayer
           \/ \E c \in Configs, at \in {None, "off", "on", "both"} : SetActiveConfig(c, at)
           \/ \E count \in 0 .. MaxSlots : SetClientTargetSlotCount(count)
           \/ \E list \in SUBSET Configs : \E preferred \in list : Rescan(list, preferred)
    PROVE  ComposerInv'
  <1>1. ASSUME NEW x, connected, Sound(x), x.config \in modes, x.mode \in {d.mode, Off}, Finish(x),
               UNCHANGED <<connected, modes, asked, early>>
        PROVE  ComposerInv'
    BY <1>1, FinishFacts DEF ComposerInv, Sound
  <1>2. CASE CreateLayer
    <2> DEFINE x == [d EXCEPT !.layers = [i \in DOMAIN d.layers \cup {d.next} |->
                                             IF i \in DOMAIN d.layers THEN d.layers[i] ELSE "INVALID"],
                              !.next = @ + 1, !.validation = "kDirty"]
    <2>1. Finish(x) /\ connected /\ UNCHANGED <<connected, modes, asked, early>>
      BY <1>2 DEF CreateLayer
    <2>2. Sound(x) /\ x.config = d.config /\ x.mode = d.mode
      BY <2>1
      DEF ComposerInv, Sound, IsDisplay, Fields, ClientOnly, TargetsFit, KernelKnown, FenceKept
    <2> HIDE DEF x
    <2> QED
      BY <1>1, <2>1, <2>2 DEF ComposerInv
  <1>3. CASE DestroyLayer
    <2>1. PICK l \in DOMAIN d.layers :
             Finish([d EXCEPT !.layers = [i \in DOMAIN d.layers \ {l} |-> d.layers[i]],
                              !.validation = "kDirty"])
      BY <1>3 DEF DestroyLayer
    <2> DEFINE x == [d EXCEPT !.layers = [i \in DOMAIN d.layers \ {l} |-> d.layers[i]],
                              !.validation = "kDirty"]
    <2>2. Finish(x) /\ connected /\ UNCHANGED <<connected, modes, asked, early>>
      BY <1>3, <2>1 DEF DestroyLayer
    <2>3. Sound(x) /\ x.config = d.config /\ x.mode = d.mode
      BY <2>2
      DEF ComposerInv, Sound, IsDisplay, Fields, ClientOnly, TargetsFit, KernelKnown, FenceKept
    <2> HIDE DEF x
    <2> QED
      BY <1>1, <2>2, <2>3 DEF ComposerInv
  <1>4. CASE \E c \in Configs, at \in {None, "off", "on", "both"} : SetActiveConfig(c, at)
    <2>1. PICK c \in Configs, at \in {None, "off", "on", "both"} : SetActiveConfig(c, at)
      BY <1>4
    <2> DEFINE x == SetActiveConfigLocked(d, c, at)
    <2>2. Finish(x) /\ connected /\ UNCHANGED <<connected, modes, asked, early>>
      BY <2>1 DEF SetActiveConfig
    <2>3. x = SetActiveConfigLocked(d, c, at)
      OBVIOUS
    <2> HIDE DEF x
    <2>4. Sound(x) /\ x.config \in modes /\ x.mode \in {d.mode, Off}
      BY <2>2, <2>3, SetActiveConfigFacts DEF ComposerInv
    <2> QED
      BY <1>1, <2>2, <2>4
  <1>5. CASE \E count \in 0 .. MaxSlots : SetClientTargetSlotCount(count)
    <2>1. PICK count \in 0 .. MaxSlots : SetClientTargetSlotCount(count)
      BY <1>5
    <2> DEFINE x == [d EXCEPT !.slots = [i \in 1 .. count |-> None], !.target = None]
    <2>2. Finish(x) /\ connected /\ UNCHANGED <<connected, modes, asked, early>>
      BY <2>1 DEF SetClientTargetSlotCount
    <2>3. Sound(x) /\ x.config = d.config /\ x.mode = d.mode
      BY <2>2
      DEF ComposerInv, Sound, IsDisplay, Fields, ClientOnly, TargetsFit, KernelKnown, FenceKept
    <2> HIDE DEF x
    <2> QED
      BY <1>1, <2>2, <2>3 DEF ComposerInv
  <1>6. CASE \E list \in SUBSET Configs : \E preferred \in list : Rescan(list, preferred)
    <2>1. PICK list \in SUBSET Configs : \E preferred \in list : Rescan(list, preferred)
      BY <1>6
    <2>2. PICK preferred \in list : Rescan(list, preferred)
      BY <2>1
    <2> DEFINE x == [d EXCEPT !.config = IF @ \in list THEN @ ELSE Discovered(list, preferred),
                              !.modeset = @ \/ Discovered(list, preferred) # d.config]
               due == d.modeset \/ Discovered(list, preferred) # d.config
    <2>3. Finish(x) /\ connected /\ list = modes /\ UNCHANGED <<connected, modes, asked, early>>
      BY <2>2 DEF Rescan, Cooperative
    <2>4. x = [d EXCEPT !.config = d.config, !.modeset = due]
      BY <2>3 DEF ComposerInv, IsDisplay, Fields
    <2>5. due \in BOOLEAN /\ (~due => ~d.modeset)
      BY DEF ComposerInv, IsDisplay
    <2>6. Sound(x) /\ x.config = d.config /\ x.mode = d.mode
      <3> HIDE DEF x, due
      <3> QED
        BY <2>3, <2>4, <2>5
        DEF ComposerInv, Sound, IsDisplay, Fields, ClientOnly, TargetsFit, KernelKnown, FenceKept
    <2> HIDE DEF x
    <2> QED
      BY <1>1, <2>3, <2>6 DEF ComposerInv
  <1> QED
    BY <1>2, <1>3, <1>4, <1>5, <1>6

LEMMA PowerKeeps ==
    ASSUME ComposerInv, NEW on \in BOOLEAN, NEW fail \in BOOLEAN, SetPowerMode(on, fail)
    PROVE  ComposerInv'
  <1> DEFINE x == SetPower(d, on, fail)
             z == IF x.err = "" /\ ~on THEN [x EXCEPT !.scanout = None] ELSE x
  <1>1. /\ connected /\ Finish(z) /\ UNCHANGED <<connected, modes, early>>
        /\ asked' = IF x.err # "" THEN asked ELSE IF on THEN "ON" ELSE "OFF"
    BY DEF SetPowerMode
  <1>2. (on /\ TurnsOn(d, x)) \/ (~on /\ TurnsOff(d, x))
    BY DEF SetPower, TurnsOn, TurnsOff, ComposerInv, IsDisplay
  <1> HIDE DEF x
  <1>3. /\ IsDisplay(x) /\ KernelKnown(x) /\ SameInput(d, x) /\ x.config = d.config
        /\ x.mode \in {d.mode, Off}
        /\ x.err = "" /\ ~on => x.mode = Off
    BY <1>1, <1>2, OnFacts, OffFacts DEF ComposerInv, Sound
  <1>4. ClientOnly(x) /\ TargetsFit(x) /\ FenceKept(x)
    BY <1>1, <1>3 DEF ComposerInv, Sound, SameInput, ClientOnly, TargetsFit, FenceKept
  <1>5. Sound(z) /\ z.config = d.config /\ z.mode = x.mode
    BY <1>3, <1>4
    DEF Sound, IsDisplay, Fields, ClientOnly, TargetsFit, KernelKnown, FenceKept
  <1> HIDE DEF z
  <1>6. Sound(d') /\ d'.err = "" /\ d'.config = d.config /\ d'.mode = x.mode
    BY <1>1, <1>5, FinishFacts
  <1> QED
    BY <1>1, <1>3, <1>6 DEF ComposerInv, Sound

LEMMA DisconnectKeeps ==
    ASSUME ComposerInv, Disconnect
    PROVE  ComposerInv'
  <1> DEFINE x == [d EXCEPT !.layers = << >>, !.slots = << >>, !.target = None,
                            !.scanout = None, !.err = ""]
  <1>1. /\ d' = RmFB(x) /\ connected /\ ~connected' /\ asked' = "OFF"
        /\ UNCHANGED <<modes, early>> /\ connected' \in BOOLEAN
    BY DEF Disconnect, Finish, ComposerInv, IsDisplay, Fields
  <1>2. /\ IsDisplay(x) /\ x.layers = << >> /\ x.mode = d.mode /\ x.fb = d.fb /\ x.err = ""
        /\ x.slots = << >> /\ x.target = None /\ x.scanout = None
    BY DEF ComposerInv, IsDisplay, Fields
  <1> HIDE DEF x
  <1>3. References(x) = {}
    BY <1>2, NothingHeld DEF References
  <1>4. x.mode # Off => x.fb # None
    BY <1>1, <1>2 DEF ComposerInv, Sound, KernelKnown
  <1>5. /\ IsDisplay(d') /\ d'.layers = << >> /\ d'.mode = Off /\ d'.fb = None /\ d'.err = ""
    <2>1. CASE x.fb # None
      BY <1>1, <1>2, <1>3, <2>1 DEF RmFB, IsDisplay, Fields
    <2>2. CASE x.fb = None
      BY <1>1, <1>2, <1>4, <2>2 DEF RmFB
    <2> QED
      BY <2>1, <2>2
  <1>6. ClientOnly(d')
    BY <1>5, NothingHeld DEF ClientOnly
  <1> QED
    BY <1>1, <1>5, <1>6 DEF ComposerInv

LEMMA ConnectKeeps ==
    ASSUME ComposerInv, NEW list \in SUBSET Configs, NEW preferred \in list, NEW fail \in BOOLEAN,
           Connect(list, preferred, fail)
    PROVE  ComposerInv'
  <1> DEFINE c == Discovered(list, preferred)
             x == [Fresh(c, d.mode # Off) EXCEPT !.modeset = d.mode # c, !.mode = d.mode, !.fb = d.fb]
             off == SetPower(x, FALSE, fail)
  <1>1. /\ ~connected /\ connected' = TRUE /\ modes' = list /\ Finish(off)
        /\ UNCHANGED <<asked, early>>
    BY DEF Connect
  <1>2. c \in list /\ d.mode = Off /\ d.fb = None
    BY <1>1 DEF Discovered, ComposerInv
  <1> HIDE DEF c
  <1>3. x = [Fresh(c, FALSE) EXCEPT !.modeset = TRUE, !.mode = Off, !.fb = None]
    BY <1>2, DisplayAssumption
  <1>4. off = x
    BY <1>3 DEF SetPower, Fresh
  <1>5. Sound(x) /\ x.config = c /\ x.mode = Off
    BY <1>2, <1>3
    DEF Fresh, Sound, IsDisplay, Fields, ClientOnly, TargetsFit, KernelKnown, FenceKept
  <1> HIDE DEF x, off
  <1>6. Sound(d') /\ d'.err = "" /\ d'.config = c /\ d'.mode = Off
    BY <1>1, <1>4, <1>5, FinishFacts
  <1> QED
    BY <1>1, <1>2, <1>6 DEF ComposerInv, Sound

LEMMA InitComposer == Init => ComposerInv
  <1> SUFFICES ASSUME Init PROVE ComposerInv
    OBVIOUS
  <1>1. PICK c \in Configs : d = Fresh(c, FALSE)
    BY DEF Init
  <1>2. Sound(d) /\ d.err = "" /\ d.config = c /\ d.mode = Off
    BY <1>1, NothingHeld
    DEF Fresh, Sound, IsDisplay, Fields, ClientOnly, TargetsFit, KernelKnown, FenceKept
  <1> QED
    BY <1>2 DEF Init, ComposerInv, Sound

LEMMA NextComposer ==
    ASSUME Cooperative
    PROVE  ComposerInv /\ [Next]_vars => ComposerInv'
  <1> SUFFICES ASSUME ComposerInv, [Next]_vars PROVE ComposerInv'
    OBVIOUS
  <1>1. CASE \E cmd \in Commands : \E at \in Stages(cmd) : ExecuteCommand(cmd, at)
    BY <1>1, CommandKeeps
  <1>2. CASE \E on, fail \in BOOLEAN : SetPowerMode(on, fail)
    BY <1>2, PowerKeeps
  <1>3. CASE Disconnect
    BY <1>3, DisconnectKeeps
  <1>4. CASE \E list \in SUBSET Configs, fail \in BOOLEAN :
                \E preferred \in list : Connect(list, preferred, fail)
    BY <1>4, ConnectKeeps
  <1>5. CASE UNCHANGED vars
    BY <1>5
    DEF vars, ComposerInv, Sound, IsDisplay, ClientOnly, TargetsFit, KernelKnown, FenceKept
  <1> QED
    BY <1>1, <1>2, <1>3, <1>4, <1>5, OtherCallsKeep DEF Next

\* What is on screen is what the HAL believes, for any set of modes, layers and
\* commands, whichever stage of a call the kernel refuses: what is presented was
\* agreed, a display that is off is dark, no flip is tried on a CRTC that does
\* not run the mode, no target of another mode is kept and no fence forgotten.
THEOREM DisplaySoundAlways ==
    ASSUME Cooperative
    PROVE  MCSpec => []DisplaySound
  <1>1. MCInit => ComposerInv
    BY InitComposer DEF MCInit
  <1>2. ComposerInv /\ [MCNext]_all => ComposerInv'
    <2> SUFFICES ASSUME ComposerInv, [MCNext]_all PROVE ComposerInv'
      OBVIOUS
    <2>1. [Next]_vars
      BY DEF MCNext, ComposerNext, VsyncNext, HotplugNext, PipelinesNext, all
    <2> QED
      BY <2>1, NextComposer
  <1>3. ComposerInv => DisplaySound
    BY DEF ComposerInv, Sound, DisplaySound, ValidatedIsClient, OffIsDark, KernelAgrees,
           TargetOfActiveMode, FenceRespected, ClientOnly, TargetsFit, KernelKnown, IsDisplay
  <1> QED
    BY <1>1, <1>2, <1>3, PTL DEF MCSpec

(***************************************************************************)
(* The framework and the HAL about the displays there are                  *)
(***************************************************************************)

Positions ==
    /\ known \subseteq Displays /\ plugged \subseteq Displays
    /\ initial \subseteq Displays /\ framework \subseteq Displays
    /\ changes \subseteq [display : Displays, connected : BOOLEAN]
    /\ loop \in {"poll", "settle", "notify", "send"}
    /\ binder \in {"idle", "locked", "send", "done"}
    /\ callback \in BOOLEAN

\* Who holds hotplug_callback_mutex_, and what is left to be sent.
Protocol ==
    /\ binder \in {"locked", "send"} => sending = "binder"
    /\ callback <=> binder \in {"send", "done"}
    /\ binder # "send" => initial = {}
    /\ ~callback => framework = {}
    /\ loop \in {"poll", "settle"} => changes = {}
    /\ loop = "send" => callback

\* What the hotplug thread is about to report is how things are: it does not
\* rescan before it sent everything.
ChangesCurrent == \A c \in changes : c.connected <=> c.display \in known

Reported(e) == \A c \in changes : c.display # e

\* Of a display that nothing is on its way of, the framework knows; what
\* registerCallback() has still to report is connected unless its end is on the
\* way too.
Known ==
    callback => \A e \in Displays : Reported(e) =>
        /\ e \in initial => e \in known
        /\ e \notin initial => (e \in framework <=> e \in known)

HotplugInv == Positions /\ Protocol /\ ChangesCurrent /\ Known

\* A rescan finds a change of every display that is not what it was.
LEMMA FoundChanges ==
    ASSUME NEW was, NEW is, was \subseteq Displays, is \subseteq Displays
    PROVE  /\ Hotplug!Found(was, is) \subseteq [display : Displays, connected : BOOLEAN]
           /\ \A c \in Hotplug!Found(was, is) : c.connected <=> c.display \in is
           /\ \A e \in Displays : (\A c \in Hotplug!Found(was, is) : c.display # e) => (e \in was <=> e \in is)
  <1>1. \A c \in Hotplug!Found(was, is) :
            \E e \in (was \ is) \cup (is \ was) :
                c = [display |-> e, connected |-> e \in is]
    BY DEF Hotplug!Found
  <1>2. \A e \in (was \ is) \cup (is \ was) :
            [display |-> e, connected |-> e \in is] \in Hotplug!Found(was, is)
    BY DEF Hotplug!Found
  <1>3. \A c \in Hotplug!Found(was, is) :
            /\ c \in [display : Displays, connected : BOOLEAN]
            /\ c.connected <=> c.display \in is
    <2> SUFFICES ASSUME NEW e \in (was \ is) \cup (is \ was),
                        NEW c, c = [display |-> e, connected |-> e \in is]
                 PROVE  /\ c \in [display : Displays, connected : BOOLEAN]
                        /\ c.connected <=> c.display \in is
      BY <1>1
    <2>1. c.display = e /\ (c.connected <=> e \in is)  OBVIOUS
    <2>2. e \in Displays  OBVIOUS
    <2>3. c \in [display : Displays, connected : BOOLEAN]
      <3> DEFINE present == e \in is
      <3>1. present \in BOOLEAN  OBVIOUS
      <3>2. c = [display |-> e, connected |-> present]  OBVIOUS
      <3> HIDE DEF present
      <3> QED  BY <2>2, <3>1, <3>2
    <2> QED  BY <2>1, <2>3
  <1>4. ASSUME NEW e \in Displays, \A c \in Hotplug!Found(was, is) : c.display # e
        PROVE  e \in was <=> e \in is
    <2>1. CASE e \in (was \ is) \cup (is \ was)
      <3>1. [display |-> e, connected |-> e \in is].display # e  BY <1>2, <1>4, <2>1
      <3> QED  BY <3>1
    <2> QED  BY <2>1
  <1> QED  BY <1>3, <1>4

\* Each step of the kernel, the hotplug thread and the binder thread keeps it.
LEMMA NextHotplug == HotplugInv /\ [Hotplug!Next]_hotplug => HotplugInv'
  <1> SUFFICES ASSUME HotplugInv, [Hotplug!Next]_hotplug PROVE HotplugInv'
    OBVIOUS
  <1> USE DEF HotplugInv
  <1>1. ASSUME NEW e \in Displays, Hotplug!Change(e) PROVE HotplugInv'
    BY <1>1 DEF Hotplug!Change, Positions, Protocol, ChangesCurrent, Known, Reported
  <1>2. CASE Hotplug!Receive
    BY <1>2 DEF Hotplug!Receive, Positions, Protocol, ChangesCurrent, Known, Reported
  <1>3. CASE Hotplug!Rescan
    <2>1. changes = {} /\ known' = plugged /\ changes' = Hotplug!Found(known, plugged)
      BY <1>3 DEF Hotplug!Rescan, Protocol
    <2>2. Positions' /\ ChangesCurrent'
      BY <1>3, <2>1, FoundChanges DEF Hotplug!Rescan, Positions, ChangesCurrent
    <2>3. Protocol'
      BY <1>3 DEF Hotplug!Rescan, Protocol
    <2>4. Known'
      <3> SUFFICES ASSUME callback, NEW e \in Displays, Reported(e)'
                   PROVE  /\ e \in initial => e \in known'
                          /\ e \notin initial => (e \in framework <=> e \in known')
        BY <1>3 DEF Known, Hotplug!Rescan
      <3>1. e \in known <=> e \in known'
        BY <2>1, FoundChanges DEF Reported, Positions
      <3>2. Reported(e)  BY <2>1 DEF Reported
      <3> QED  BY <3>1, <3>2 DEF Known
    <2> QED  BY <2>2, <2>3, <2>4
  <1>4. CASE Hotplug!ReadCallback
    BY <1>4 DEF Hotplug!ReadCallback, Positions, Protocol, ChangesCurrent, Known, Reported
  <1>5. CASE Hotplug!NotifyHotplug
    <2>1. PICK change \in changes : framework' = Hotplug!Told(change) /\ changes' = changes \ {change}
      BY <1>5 DEF Hotplug!NotifyHotplug
    <2>2. callback /\ binder = "done" /\ initial = {}
      BY <1>5 DEF Hotplug!NotifyHotplug, Protocol, Positions, Hotplug!Nobody
    <2>3. change.connected <=> change.display \in known
      BY DEF ChangesCurrent
    <2>4. Positions' /\ Protocol' /\ ChangesCurrent'
      BY <1>5, <2>1, <2>2 DEF Hotplug!NotifyHotplug, Hotplug!Told, Positions, Protocol, ChangesCurrent
    <2>5. Known'
      <3> SUFFICES ASSUME NEW e \in Displays, Reported(e)'
                   PROVE  e \in framework' <=> e \in known
        BY <1>5, <2>2 DEF Known, Hotplug!NotifyHotplug
      <3>1. CASE e = change.display
        BY <2>1, <2>3, <3>1 DEF Hotplug!Told
      <3>2. CASE e # change.display
        <4>1. Reported(e)  BY <2>1, <3>2 DEF Reported
        <4> QED  BY <2>1, <2>2, <3>2, <4>1 DEF Hotplug!Told, Known
      <3> QED  BY <3>1, <3>2
    <2> QED  BY <2>4, <2>5
  <1>6. CASE Hotplug!Lock
    BY <1>6 DEF Hotplug!Lock, Positions, Protocol, ChangesCurrent, Known, Reported
  <1>7. CASE Hotplug!Snapshot
    BY <1>7 DEF Hotplug!Snapshot, Positions, Protocol, ChangesCurrent, Known, Reported
  <1>8. CASE Hotplug!SendInitial
    BY <1>8 DEF Hotplug!SendInitial, Positions, Protocol, ChangesCurrent, Known, Reported
  <1>9. CASE UNCHANGED hotplug
    BY <1>9 DEF hotplug, Positions, Protocol, ChangesCurrent, Known, Reported
  <1> QED  BY <1>1, <1>2, <1>3, <1>4, <1>5, <1>6, <1>7, <1>8, <1>9 DEF Hotplug!Next, Hotplug!HotplugStep, Hotplug!BinderStep

\* The framework takes exactly the connected displays for connected once
\* registerCallback() returned and HotplugLoop() sent what it found, for any set
\* of displays and any number of changes.
THEOREM HotplugInSyncAlways == MCSpec => []HotplugInSync
  <1>1. MCInit => HotplugInv
    BY DEF MCInit, Hotplug!Init, HotplugInv, Positions, Protocol, ChangesCurrent, Known, Hotplug!Nobody
  <1>2. HotplugInv /\ [MCNext]_all => HotplugInv'
    <2> SUFFICES ASSUME HotplugInv, [MCNext]_all PROVE HotplugInv'
      OBVIOUS
    <2>1. [Hotplug!Next]_hotplug
      BY DEF MCNext, ComposerNext, VsyncNext, HotplugNext, PipelinesNext, all
    <2> QED
      BY <2>1, NextHotplug
  <1>3. HotplugInv => HotplugInSync
    <2> SUFFICES ASSUME HotplugInv, binder = "done", loop \in {"poll", "settle"}
                 PROVE  framework = known
      BY DEF HotplugInSync, Hotplug!FrameworkInSync
    <2> QED
      BY DEF HotplugInv, Positions, Protocol, Known, Reported
  <1> QED
    BY <1>1, <1>2, <1>3, PTL DEF MCSpec

-----------------------------------------------------------------------------
(***************************************************************************)
(* The displays of a card                                                  *)
(***************************************************************************)

\* Finite sets are well-founded by inclusion.
LEMMA SmallestFiniteSet ==
    ASSUME NEW U, NEW T, T \subseteq FiniteSubsetsOf(U), T # {}
    PROVE  \E t \in T : \A u \in T : u \subseteq t => u = t
<1>1. IsWellFoundedOn(StrictSubsetOrdering(U), FiniteSubsetsOf(U))
  BY FS_StrictSubsetOrderingWellFounded
<1>2. PICK t \in T : \A u \in T : ~ (<<u, t>> \in StrictSubsetOrdering(U))
  BY <1>1, WFMin
<1>3. ASSUME NEW u \in T, u \subseteq t PROVE u = t
  <2>1. u \in SUBSET U /\ t \in SUBSET U
    BY DEF FiniteSubsetsOf
  <2> QED BY <1>2, <1>3, <2>1 DEF StrictSubsetOrdering
<1> QED BY <1>3

\* The intervals up to the members of a set of naturals have a smallest one.
LEMMA LeastNatural ==
    ASSUME NEW S \in SUBSET Nat, S # {}
    PROVE  \E n \in S : \A m \in S : n <= m
<1> DEFINE T == {0 .. n : n \in S}
<1>1. ASSUME NEW n \in S PROVE 0 .. n \in FiniteSubsetsOf(Nat)
  <2>1. n \in Nat /\ n \in Int /\ 0 \in Int
    OBVIOUS
  <2>2. IsFiniteSet(0 .. n)
    BY <2>1, FS_Interval
  <2> QED BY <2>1, <2>2 DEF FiniteSubsetsOf
<1>2. T \subseteq FiniteSubsetsOf(Nat) /\ T # {}
  BY <1>1
<1> HIDE DEF T
<1>3. PICK t \in T : \A u \in T : u \subseteq t => u = t
  BY <1>2, SmallestFiniteSet
<1> USE DEF T
<1>4. PICK n \in S : t = 0 .. n
  OBVIOUS
<1>5. ASSUME NEW m \in S, m < n PROVE FALSE
  <2>1. 0 .. m \in T /\ 0 .. m \subseteq t
    BY <1>4, <1>5
  <2>2. 0 .. m = 0 .. n
    BY <2>1, <1>3, <1>4
  <2> QED BY <2>2, <1>5
<1>6. \A m \in S : n <= m
  BY <1>5
<1> QED BY <1>6

\* A bounded set of naturals has a greatest element, and Max() finds it.
LEMMA GreatestNatural ==
    ASSUME NEW S \in SUBSET Nat, S # {}, NEW b \in Nat, \A n \in S : n <= b
    PROVE  \E n \in S : \A m \in S : n >= m
<1> DEFINE T == {b - n : n \in S}
<1>1. T \in SUBSET Nat /\ T # {}
  <2>1. \A n \in S : b - n \in Nat
    OBVIOUS
  <2> QED BY <2>1
<1>2. PICK t \in T : \A u \in T : t <= u
  <2> HIDE DEF T
  <2> QED BY <1>1, LeastNatural
<1>3. PICK n \in S : t = b - n
  BY <1>2
<1>4. ASSUME NEW m \in S PROVE n >= m
  <2>1. b - n <= b - m
    BY <1>2, <1>3
  <2> QED BY <2>1
<1> QED BY <1>4

LEMMA PipesMax ==
    ASSUME NEW S \in SUBSET Nat, S # {}, NEW b \in Nat, \A n \in S : n <= b
    PROVE  Pipes!Max(S) \in S
  BY GreatestNatural DEF Pipes!Max

LEMMA PipesMin ==
    ASSUME NEW S \in SUBSET Nat, S # {}
    PROVE  Pipes!Min(S) \in S
  BY LeastNatural DEF Pipes!Min

\* The first of some pipelines is one of them.
LEMMA FirstIsOne ==
    ASSUME NEW S \in SUBSET (Nat \X Nat \X Nat), S # {}
    PROVE  Pipes!First(S) \in S
<1>1. PICK a \in {p[1] : p \in S} : \A x \in {p[1] : p \in S} : a <= x
  <2>1. {p[1] : p \in S} \in SUBSET Nat /\ {p[1] : p \in S} # {}
    OBVIOUS
  <2> QED BY <2>1, LeastNatural
<1> DEFINE S1 == {p \in S : p[1] = a}
<1>2. PICK b \in {p[2] : p \in S1} : \A x \in {p[2] : p \in S1} : b <= x
  <2>1. {p[2] : p \in S1} \in SUBSET Nat /\ {p[2] : p \in S1} # {}
    BY <1>1
  <2> QED BY <2>1, LeastNatural
<1> DEFINE S2 == {p \in S1 : p[2] = b}
<1>3. PICK x \in {p[3] : p \in S2} : \A y \in {p[3] : p \in S2} : x <= y
  <2>1. {p[3] : p \in S2} \in SUBSET Nat /\ {p[3] : p \in S2} # {}
    BY <1>2
  <2> QED BY <2>1, LeastNatural
<1>4. PICK p \in S2 : p[3] = x
  BY <1>3
<1>5. ASSUME NEW q \in S
      PROVE  \/ p[1] < q[1]
             \/ p[1] = q[1] /\ p[2] < q[2]
             \/ p[1] = q[1] /\ p[2] = q[2] /\ p[3] <= q[3]
  <2>1. p \in S /\ p[1] = a /\ p[2] = b /\ p[3] = x
    BY <1>4
  <2>2. \A i \in 1 .. 3 : p[i] \in Nat /\ q[i] \in Nat
    BY <2>1
  <2>3. a <= q[1]
    BY <1>1
  <2>4. q[1] = a => b <= q[2]
    BY <1>2
  <2>5. q[1] = a /\ q[2] = b => x <= q[3]
    BY <1>3
  <2> QED BY <2>1, <2>2, <2>3, <2>4, <2>5
<1>6. p \in S
  BY <1>4
<1> QED BY <1>5, <1>6 DEF Pipes!First

-----------------------------------------------------------------------------
\* The mode lists of the connectors that are listed.
IsListing(l, c) == DOMAIN l \subseteq 1 .. c.ports /\ \A p \in DOMAIN l : l[p] \in Lists \cup {<< >>}

\* What a connector gets beside the pipelines in use.
Choice(c, a, l, port, used) ==
    LET free == Pipes!Pipelines(c, a, port, used)
    IN  IF port \in Pipes!Plugged(l) /\ free # {} /\ (a => port \notin c.partial)
        THEN Pipes!First(free) ELSE Pipes!NoPipeline

\* The connectors up to turn n get theirs one after the other.
UpTo(c, l, n) == {port \in DOMAIN l : Pipes!Turn(c, port) <= n}
Served(f, c, a, l, S) ==
    f = [port \in S |-> Choice(c, a, l, port, {f[p] : p \in Pipes!Earlier(c, l, port)})]
HasServed(c, a, l, S) == \E f : Served(f, c, a, l, S)

LEMMA CardFields ==
    ASSUME NEW c, IsCard(c)
    PROVE  /\ c.ports \in Nat /\ c.ports <= 5000 /\ c.crtcs \in Nat
           /\ DOMAIN c.encoders = 1 .. c.ports
           /\ \A p \in 1 .. c.ports :
                 /\ DOMAIN c.encoders[p] \subseteq Nat
                 /\ \A e \in DOMAIN c.encoders[p] : c.encoders[p][e] \subseteq 1 .. c.crtcs
           /\ DOMAIN c.planes \subseteq Nat
           /\ c.atomic \in BOOLEAN /\ c.fixed \in BOOLEAN /\ c.firmware \in BOOLEAN
<1>1. /\ c.ports \in Nat /\ c.ports <= 5000 /\ c.crtcs \in Nat /\ c.encoders \in Seq(Seq(SUBSET Nat))
      /\ c.planes \in Seq(SUBSET Nat) /\ c.atomic \in BOOLEAN /\ c.fixed \in BOOLEAN
      /\ c.firmware \in BOOLEAN /\ Len(c.encoders) = c.ports
      /\ \A port \in DOMAIN c.encoders : \A e \in DOMAIN c.encoders[port] :
            c.encoders[port][e] \subseteq 1 .. c.crtcs
  BY DEF IsCard, Cards
<1>2. DOMAIN c.encoders = 1 .. c.ports
  BY <1>1
<1>3. ASSUME NEW p \in 1 .. c.ports PROVE DOMAIN c.encoders[p] \subseteq Nat
  <2>1. c.encoders[p] \in Seq(SUBSET Nat)
    BY <1>1, <1>2
  <2> QED BY <2>1
<1>4. DOMAIN c.planes \subseteq Nat
  BY <1>1
<1>5. \A p \in 1 .. c.ports : \A e \in DOMAIN c.encoders[p] : c.encoders[p][e] \subseteq 1 .. c.crtcs
  <2>1. \A port \in DOMAIN c.encoders : \A e \in DOMAIN c.encoders[port] :
            c.encoders[port][e] \subseteq 1 .. c.crtcs
    BY DEF IsCard
  <2> QED BY ONLY <1>2, <2>1
<1>6. c.ports \in Nat /\ c.ports <= 5000
  BY <1>1
<1>7. c.crtcs \in Nat /\ c.atomic \in BOOLEAN /\ c.fixed \in BOOLEAN /\ c.firmware \in BOOLEAN
  BY <1>1
<1> QED BY ONLY <1>2, <1>3, <1>4, <1>5, <1>6, <1>7

LEMMA TurnFacts ==
    ASSUME NEW c, IsCard(c), NEW p \in 1 .. c.ports
    PROVE  /\ Pipes!Turn(c, p) \in 1 .. 2 * c.ports
           /\ \A q \in 1 .. c.ports : Pipes!Turn(c, p) = Pipes!Turn(c, q) => p = q
  BY CardFields DEF Pipes!Turn

LEMMA ServedExists ==
    ASSUME NEW c, IsCard(c), NEW a, NEW l, IsListing(l, c)
    PROVE  HasServed(c, a, l, DOMAIN l)
<1> DEFINE n == 2 * c.ports
           Bad == {k \in 0 .. n : ~ HasServed(c, a, l, UpTo(c, l, k))}
<1>1. n \in Nat /\ \A p \in DOMAIN l : Pipes!Turn(c, p) \in 1 .. n
  BY CardFields, TurnFacts DEF IsListing
<1>2. UpTo(c, l, n) = DOMAIN l
  BY <1>1 DEF UpTo
<1> HIDE DEF n
<1>3. SUFFICES ASSUME n \in Bad PROVE FALSE
  BY <1>1, <1>2
<1>4. PICK k \in Bad : \A m \in Bad : k <= m
  <2>1. Bad \in SUBSET Nat /\ Bad # {}
    BY <1>1, <1>3
  <2> HIDE DEF Bad
  <2> QED BY <2>1, LeastNatural
<1>5. k # 0
  <2>1. SUFFICES ASSUME k = 0 PROVE FALSE
    OBVIOUS
  <2>2. UpTo(c, l, 0) = {}
    BY <1>1 DEF UpTo
  <2>3. Served([p \in {} |-> 0], c, a, l, {})
    BY DEF Served
  <2> QED BY <1>4, <2>1, <2>2, <2>3 DEF HasServed
<1>6. k \in 1 .. n /\ k - 1 \in 0 .. n /\ k - 1 \notin Bad
  BY <1>1, <1>4, <1>5
<1>7. PICK f : Served(f, c, a, l, UpTo(c, l, k - 1))
  BY <1>6 DEF HasServed
<1> DEFINE Used(g, port) == {g[p] : p \in Pipes!Earlier(c, l, port)}
           g == [port \in UpTo(c, l, k) |-> Choice(c, a, l, port, Used(f, port))]
<1>8. ASSUME NEW port \in UpTo(c, l, k) PROVE Used(g, port) = Used(f, port)
  <2>1. ASSUME NEW p \in Pipes!Earlier(c, l, port)
        PROVE  p \in UpTo(c, l, k) /\ p \in UpTo(c, l, k - 1)
    <3>1. p \in DOMAIN l /\ Pipes!Turn(c, p) < Pipes!Turn(c, port) /\ Pipes!Turn(c, port) <= k
      BY DEF Pipes!Earlier, UpTo
    <3>2. Pipes!Turn(c, p) \in 1 .. n /\ Pipes!Turn(c, port) \in 1 .. n
      BY <3>1, <1>1 DEF UpTo
    <3>3. Pipes!Turn(c, p) <= k - 1 /\ Pipes!Turn(c, p) <= k
      BY <1>6, <3>1, <3>2
    <3> QED BY <3>1, <3>3 DEF UpTo
  <2>2. \A p \in UpTo(c, l, k - 1) : f[p] = Choice(c, a, l, p, Used(f, p))
    BY <1>7 DEF Served
  <2>3. \A p \in UpTo(c, l, k) : g[p] = Choice(c, a, l, p, Used(f, p))
    OBVIOUS
  <2>4. \A p \in Pipes!Earlier(c, l, port) : g[p] = f[p]
    BY <2>1, <2>2, <2>3
  <2> HIDE DEF g
  <2> QED BY <2>4
<1>9. Served(g, c, a, l, UpTo(c, l, k))
  <2>1. g = [port \in UpTo(c, l, k) |-> Choice(c, a, l, port, Used(g, port))]
    BY <1>8
  <2> HIDE DEF g
  <2> QED BY <2>1 DEF Served
<1> QED BY <1>4, <1>9 DEF HasServed

\* FindPipeline() is what its definition says.
LEMMA FindPipelineIs ==
    ASSUME NEW c, IsCard(c), NEW a, NEW l, IsListing(l, c), NEW f, f = Pipes!FindPipeline(c, a, l)
    PROVE  Served(f, c, a, l, DOMAIN l)
<1> DEFINE Body(g) ==
               [port \in DOMAIN l |-> Choice(c, a, l, port, {g[p] : p \in Pipes!Earlier(c, l, port)})]
<1>1. f = CHOOSE g : g = Body(g)
  BY DEF Pipes!FindPipeline, Choice
<1>2. PICK g : g = Body(g)
  BY ServedExists DEF HasServed, Served
<1>3. f = Body(f)
  <2> HIDE DEF Body
  <2> QED BY <1>1, <1>2
<1> QED BY <1>3 DEF Served

Free(c, a, port, used) == Pipes!Pipelines(c, a, port, used)

\* What makes a pipeline one of a connector.
Fits(x, c, a, port) ==
    /\ x[2] \in 1 .. c.crtcs /\ x[2] \in Pipes!Reach(c, port) /\ x[3] \in Nat
    /\ a => x[2] \in c.planes[x[3]]

LEMMA FreeFacts ==
    ASSUME NEW c, IsCard(c), NEW a \in BOOLEAN, NEW port \in 1 .. c.ports, NEW used
    PROVE  /\ Free(c, a, port, used) \subseteq Nat \X Nat \X Nat
           /\ \A x \in Free(c, a, port, used) :
                 /\ Fits(x, c, a, port) /\ x # Pipes!NoPipeline
                 /\ \A u \in used : u[2] # x[2] /\ (a => u[3] # x[3])
<1>1. /\ DOMAIN c.encoders[port] \subseteq Nat /\ c.crtcs \in Nat /\ DOMAIN c.planes \subseteq Nat
      /\ \A e \in DOMAIN c.encoders[port] : c.encoders[port][e] \subseteq 1 .. c.crtcs
  BY CardFields
<1> DEFINE Planes == IF a THEN DOMAIN c.planes ELSE {0}
<1>2. Planes \subseteq Nat
  BY <1>1
<1>3. ASSUME NEW x \in Free(c, a, port, used)
      PROVE  /\ x \in (DOMAIN c.encoders[port]) \X (1 .. c.crtcs) \X Planes
             /\ x[2] \in c.encoders[port][x[1]]
             /\ \A u \in used : u[2] # x[2] /\ (a => u[3] # x[3])
             /\ a => x[2] \in c.planes[x[3]]
  BY DEF Free, Pipes!Pipelines
<1>4. ASSUME NEW x \in Free(c, a, port, used)
      PROVE  /\ x \in Nat \X Nat \X Nat /\ Fits(x, c, a, port) /\ x # Pipes!NoPipeline
             /\ \A u \in used : u[2] # x[2] /\ (a => u[3] # x[3])
  <2> HIDE DEF Planes
  <2>1. x \in (DOMAIN c.encoders[port]) \X (1 .. c.crtcs) \X Planes
    BY <1>3
  <2>2. x[1] \in DOMAIN c.encoders[port] /\ x[2] \in 1 .. c.crtcs /\ x[3] \in Planes
    BY <2>1
  <2>3. x[1] \in Nat /\ x[2] \in Nat /\ x[3] \in Nat /\ x[2] # 0
    <3>1. x[1] \in Nat /\ x[3] \in Nat
      BY <2>2, <1>1, <1>2
    <3>2. x[2] \in Nat /\ x[2] # 0
      BY <2>2, <1>1
    <3> QED BY <3>1, <3>2
  <2>4. x \in Nat \X Nat \X Nat
    BY <2>1, <2>3
  <2>5. x # Pipes!NoPipeline
    BY <2>3 DEF Pipes!NoPipeline
  <2>6. x[2] \in Pipes!Reach(c, port)
    BY <2>2, <1>3 DEF Pipes!Reach, Pipes!Range
  <2> QED BY <2>2, <2>3, <2>4, <2>5, <2>6, <1>3 DEF Fits
<1> QED BY <1>4

LEMMA ChoiceFacts ==
    ASSUME NEW c, IsCard(c), NEW a \in BOOLEAN, NEW l, IsListing(l, c), NEW port \in DOMAIN l,
           NEW used, NEW x, x = Choice(c, a, l, port, used)
    PROVE  /\ x # Pipes!NoPipeline => /\ port \in Pipes!Plugged(l) /\ Fits(x, c, a, port)
                                      /\ a => port \notin c.partial
                                      /\ \A u \in used : u[2] # x[2] /\ (a => u[3] # x[3])
           /\ x = Pipes!NoPipeline /\ port \in Pipes!Plugged(l) /\ (a => port \notin c.partial)
                => Free(c, a, port, used) = {}
<1> DEFINE free == Free(c, a, port, used)
<1>1. port \in 1 .. c.ports
  BY DEF IsListing
<1>2. free \in SUBSET (Nat \X Nat \X Nat)
  BY <1>1, FreeFacts
<1>3. ASSUME free # {} PROVE Pipes!First(free) \in free
  <2> HIDE DEF free
  <2> QED BY <1>2, <1>3, FirstIsOne
<1>4. \A y \in free : /\ Fits(y, c, a, port) /\ y # Pipes!NoPipeline
                      /\ \A u \in used : u[2] # y[2] /\ (a => u[3] # y[3])
  BY <1>1, FreeFacts
<1>5. x = IF port \in Pipes!Plugged(l) /\ free # {} /\ (a => port \notin c.partial)
          THEN Pipes!First(free) ELSE Pipes!NoPipeline
  BY DEF Choice, Free
<1> HIDE DEF free
<1> QED BY <1>3, <1>4, <1>5 DEF free

\* The pipelines of a scan: whose they are, that they are apart, and when a
\* plugged connector has none.
Before(f, c, l, port) == {f[p] : p \in Pipes!Earlier(c, l, port)}
Assigned(f, c, a, l) ==
    /\ DOMAIN f = DOMAIN l
    /\ \A port \in DOMAIN l :
          /\ f[port] # Pipes!NoPipeline =>
                /\ port \in Pipes!Plugged(l) /\ Fits(f[port], c, a, port)
                /\ a => port \notin c.partial
          /\ f[port] = Pipes!NoPipeline /\ port \in Pipes!Plugged(l) /\ (a => port \notin c.partial)
                => Free(c, a, port, Before(f, c, l, port)) = {}
    /\ \A p, q \in DOMAIN l :
          p # q /\ f[p] # Pipes!NoPipeline /\ f[q] # Pipes!NoPipeline =>
             f[p][2] # f[q][2] /\ (a => f[p][3] # f[q][3])

LEMMA FindPipelineFacts ==
    ASSUME NEW c, IsCard(c), NEW a \in BOOLEAN, NEW l, IsListing(l, c),
           NEW f, f = Pipes!FindPipeline(c, a, l)
    PROVE  Assigned(f, c, a, l)
<1>1. f = [port \in DOMAIN l |-> Choice(c, a, l, port, Before(f, c, l, port))]
  BY FindPipelineIs DEF Served, Before
<1>2. DOMAIN f = DOMAIN l /\ \A port \in DOMAIN l : f[port] = Choice(c, a, l, port, Before(f, c, l, port))
  BY <1>1
<1>3. ASSUME NEW port \in DOMAIN l
      PROVE  /\ f[port] # Pipes!NoPipeline =>
                   /\ port \in Pipes!Plugged(l) /\ Fits(f[port], c, a, port)
                   /\ a => port \notin c.partial
                   /\ \A u \in Before(f, c, l, port) : u[2] # f[port][2] /\ (a => u[3] # f[port][3])
             /\ f[port] = Pipes!NoPipeline /\ port \in Pipes!Plugged(l) /\ (a => port \notin c.partial)
                => Free(c, a, port, Before(f, c, l, port)) = {}
  BY <1>2, ChoiceFacts
<1>4. ASSUME NEW p \in DOMAIN l, NEW q \in DOMAIN l, p # q,
             f[p] # Pipes!NoPipeline, f[q] # Pipes!NoPipeline
      PROVE  f[p][2] # f[q][2] /\ (a => f[p][3] # f[q][3])
  <2>1. p \in 1 .. c.ports /\ q \in 1 .. c.ports
    BY DEF IsListing
  <2>2. Pipes!Turn(c, p) \in Nat /\ Pipes!Turn(c, q) \in Nat /\ Pipes!Turn(c, p) # Pipes!Turn(c, q)
    BY <2>1, <1>4, TurnFacts, CardFields
  <2>3. CASE Pipes!Turn(c, p) < Pipes!Turn(c, q)
    <3>1. f[p] \in Before(f, c, l, q)
      BY <2>3 DEF Before, Pipes!Earlier
    <3> QED BY <3>1, <1>3, <1>4
  <2>4. CASE Pipes!Turn(c, q) < Pipes!Turn(c, p)
    <3>1. f[q] \in Before(f, c, l, p)
      BY <2>4 DEF Before, Pipes!Earlier
    <3> QED BY <3>1, <1>3, <1>4
  <2> QED BY <2>2, <2>3, <2>4
<1> QED BY <1>2, <1>3, <1>4 DEF Assigned

\* Without atomic KMS a connector has no pipeline only when others have all it
\* could have.
Taken(f, l, r) == \E q \in DOMAIN l : f[q] # Pipes!NoPipeline /\ f[q][2] = r

LEMMA LegacyTakesAll ==
    ASSUME NEW c, IsCard(c), NEW a, a = FALSE, NEW l, IsListing(l, c), NEW f, Assigned(f, c, a, l),
           NEW port \in Pipes!Plugged(l), f[port] = Pipes!NoPipeline, NEW r \in Pipes!Reach(c, port)
    PROVE  Taken(f, l, r)
<1>1. port \in DOMAIN l /\ port \in 1 .. c.ports
  BY DEF IsListing, Pipes!Plugged
<1>2. Free(c, a, port, Before(f, c, l, port)) = {}
  BY <1>1 DEF Assigned
<1>3. PICK e \in DOMAIN c.encoders[port] : r \in c.encoders[port][e]
  BY DEF Pipes!Reach, Pipes!Range
<1>4. r \in 1 .. c.crtcs
  BY <1>1, <1>3, CardFields
<1>5. <<e, r, 0>> \notin Free(c, a, port, Before(f, c, l, port))
  BY <1>2
<1>6. PICK u \in Before(f, c, l, port) : u[2] = r
  BY <1>3, <1>4, <1>5 DEF Free, Pipes!Pipelines
<1>7. PICK q \in DOMAIN l : u = f[q]
  BY <1>6 DEF Before, Pipes!Earlier
<1>8. f[q] # Pipes!NoPipeline
  <2>1. c.crtcs \in Nat
    BY CardFields
  <2> QED BY <1>4, <1>6, <1>7, <2>1 DEF Pipes!NoPipeline
<1> QED BY <1>6, <1>7, <1>8 DEF Taken

-----------------------------------------------------------------------------
\* The names of connectors: no two have the same, and the next one is free.
IsNaming(ids, c) ==
    /\ DOMAIN ids \subseteq 1 .. c.ports
    /\ \A p \in DOMAIN ids : ids[p] \in Nat /\ ids[p] < Cardinality(DOMAIN ids)
    /\ \A p, q \in DOMAIN ids : ids[p] = ids[q] => p = q

LEMMA PortsFinite ==
    ASSUME NEW c, IsCard(c), NEW S \in SUBSET (1 .. c.ports)
    PROVE  IsFiniteSet(S) /\ Cardinality(S) \in Nat /\ Cardinality(S) <= c.ports
<1>1. c.ports \in Nat /\ c.ports \in Int /\ 1 \in Int
  BY CardFields
<1>2. IsFiniteSet(1 .. c.ports) /\ Cardinality(1 .. c.ports) = c.ports
  <2>1. Cardinality(1 .. c.ports) = IF 1 > c.ports THEN 0 ELSE c.ports - 1 + 1
    BY <1>1, FS_Interval
  <2>2. IsFiniteSet(1 .. c.ports)
    BY <1>1, FS_Interval
  <2> QED BY <1>1, <2>1, <2>2
<1>3. IsFiniteSet(S) /\ Cardinality(S) <= Cardinality(1 .. c.ports)
  BY <1>2, FS_Subset
<1> QED BY <1>2, <1>3, FS_CardinalityType

\* A smaller set of connectors has fewer.
LEMMA FewerPorts ==
    ASSUME NEW c, IsCard(c), NEW T \in SUBSET (1 .. c.ports), NEW S \in SUBSET T,
           NEW x \in T, x \notin S
    PROVE  Cardinality(S) < Cardinality(T)
<1>1. IsFiniteSet(T) /\ Cardinality(T) \in Nat /\ Cardinality(S) \in Nat
  BY PortsFinite
<1>2. Cardinality(S) <= Cardinality(T) /\ (Cardinality(T) = Cardinality(S) => T = S)
  BY <1>1, FS_Subset
<1> QED BY <1>1, <1>2

LEMMA SameCardinality == \A S : Pipes!Cardinality(S) = Cardinality(S)
  BY DEF Pipes!Cardinality, Cardinality

\* A scan keeps the names there are and gives new ones to connectors that have none.
LEMMA DisplayIdsFacts ==
    ASSUME NEW c, IsCard(c), NEW l, IsListing(l, c), NEW ids, IsNaming(ids, c),
           NEW new, new = Pipes!DisplayIds(c, l, ids)
    PROVE  /\ IsNaming(new, c) /\ DOMAIN new = DOMAIN ids \cup DOMAIN l
           /\ \A p \in DOMAIN ids : new[p] = ids[p]
<1> DEFINE both == DOMAIN ids \cup DOMAIN l
           N(p) == DOMAIN ids \cup Pipes!Earlier(c, l, p)
<1>1. /\ both \in SUBSET (1 .. c.ports) /\ DOMAIN ids \in SUBSET (1 .. c.ports)
      /\ DOMAIN l \in SUBSET (1 .. c.ports)
  BY DEF IsListing, IsNaming
<1>2. /\ DOMAIN new = both
      /\ \A p \in DOMAIN ids : new[p] = ids[p]
      /\ \A p \in both \ DOMAIN ids : new[p] = Cardinality(N(p))
  BY SameCardinality DEF Pipes!DisplayIds
<1>3. ASSUME NEW p \in both \ DOMAIN ids
      PROVE  /\ N(p) \in SUBSET both /\ p \in both /\ p \notin N(p)
             /\ N(p) \in SUBSET (1 .. c.ports) /\ DOMAIN ids \in SUBSET N(p)
  <2>1. p \in 1 .. c.ports
    BY <1>1
  <2>2. Pipes!Turn(c, p) \in 1 .. 2 * c.ports
    BY <2>1, TurnFacts
  <2>3. p \notin Pipes!Earlier(c, l, p)
    BY <2>2, CardFields DEF Pipes!Earlier
  <2>4. Pipes!Earlier(c, l, p) \in SUBSET DOMAIN l
    BY DEF Pipes!Earlier
  <2> QED BY <1>1, <2>3, <2>4
<1> HIDE DEF both, N
<1>4. ASSUME NEW p \in both \ DOMAIN ids
      PROVE  /\ Cardinality(N(p)) \in Nat /\ Cardinality(N(p)) < Cardinality(both)
             /\ Cardinality(DOMAIN ids) <= Cardinality(N(p))
  <2>1. IsFiniteSet(N(p)) /\ Cardinality(N(p)) \in Nat
    BY <1>3, PortsFinite
  <2>2. Cardinality(N(p)) < Cardinality(both)
    BY <1>1, <1>3, FewerPorts
  <2>3. Cardinality(DOMAIN ids) <= Cardinality(N(p))
    BY <1>3, <2>1, FS_Subset
  <2> QED BY <2>1, <2>2, <2>3
<1>5. ASSUME NEW p \in both \ DOMAIN ids, NEW q \in both \ DOMAIN ids,
             Pipes!Turn(c, p) < Pipes!Turn(c, q)
      PROVE  Cardinality(N(p)) < Cardinality(N(q))
  <2>1. p \in 1 .. c.ports /\ q \in 1 .. c.ports
    BY <1>1
  <2>2. Pipes!Turn(c, p) \in 1 .. 2 * c.ports /\ Pipes!Turn(c, q) \in 1 .. 2 * c.ports
    BY <2>1, TurnFacts
  <2>3. N(p) \in SUBSET N(q) /\ p \in N(q)
    <3>1. p \in DOMAIN l
      BY <1>5 DEF both
    <3>2. p \in Pipes!Earlier(c, l, q)
      BY <3>1, <1>5 DEF Pipes!Earlier
    <3>3. ASSUME NEW x \in Pipes!Earlier(c, l, p) PROVE x \in Pipes!Earlier(c, l, q)
      <4>1. x \in DOMAIN l /\ Pipes!Turn(c, x) < Pipes!Turn(c, p) /\ x \in 1 .. c.ports
        BY <1>1 DEF Pipes!Earlier
      <4>2. Pipes!Turn(c, x) \in 1 .. 2 * c.ports
        BY <4>1, TurnFacts
      <4>3. Pipes!Turn(c, x) < Pipes!Turn(c, q)
        BY <1>5, <2>2, <4>1, <4>2, CardFields
      <4> QED BY <4>1, <4>3 DEF Pipes!Earlier
    <3> QED BY <3>2, <3>3 DEF N
  <2> QED BY <1>3, <2>3, FewerPorts
<1>6. Cardinality(DOMAIN ids) \in Nat /\ Cardinality(both) \in Nat /\ Cardinality(DOMAIN ids) <= Cardinality(both)
  <2>1. IsFiniteSet(both) /\ Cardinality(both) \in Nat /\ Cardinality(DOMAIN ids) \in Nat
    BY <1>1, PortsFinite
  <2>2. DOMAIN ids \in SUBSET both
    BY DEF both
  <2> QED BY <2>1, <2>2, FS_Subset
<1>7. ASSUME NEW p \in both PROVE new[p] \in Nat /\ new[p] < Cardinality(both)
  <2>1. CASE p \in DOMAIN ids
    <3>1. new[p] = ids[p] /\ ids[p] \in Nat /\ ids[p] < Cardinality(DOMAIN ids)
      BY <2>1, <1>2 DEF IsNaming
    <3> QED BY <3>1, <1>6
  <2>2. CASE p \notin DOMAIN ids
    BY <2>2, <1>2, <1>4
  <2> QED BY <2>1, <2>2
<1>8. ASSUME NEW p \in both, NEW q \in both, new[p] = new[q] PROVE p = q
  <2>1. CASE p \in DOMAIN ids /\ q \in DOMAIN ids
    BY <2>1, <1>2, <1>8 DEF IsNaming
  <2>2. ASSUME NEW x \in DOMAIN ids, NEW y \in both \ DOMAIN ids PROVE new[x] # new[y]
    <3>1. new[x] \in Nat /\ new[x] < Cardinality(DOMAIN ids) /\ new[y] = Cardinality(N(y))
      BY <1>2 DEF IsNaming
    <3>2. Cardinality(N(y)) \in Nat /\ Cardinality(DOMAIN ids) <= Cardinality(N(y))
      BY <1>4
    <3> QED BY <3>1, <3>2, <1>6
  <2>3. CASE p \notin DOMAIN ids /\ q \notin DOMAIN ids
    <3>1. p \in 1 .. c.ports /\ q \in 1 .. c.ports
      BY <1>1
    <3>2. Pipes!Turn(c, p) \in Nat /\ Pipes!Turn(c, q) \in Nat
      BY <3>1, TurnFacts, CardFields
    <3>3. new[p] = Cardinality(N(p)) /\ new[q] = Cardinality(N(q))
      BY <1>2, <2>3
    <3>4. Cardinality(N(p)) \in Nat /\ Cardinality(N(q)) \in Nat
      BY <1>4, <2>3
    <3>8. Cardinality(N(p)) = Cardinality(N(q))
      BY <1>8, <3>3
    <3>5. ASSUME Pipes!Turn(c, p) < Pipes!Turn(c, q) PROVE FALSE
      <4>1. Cardinality(N(p)) < Cardinality(N(q))
        BY <1>5, <2>3, <3>5
      <4> QED BY <4>1, <3>8, <3>4
    <3>7. ASSUME Pipes!Turn(c, q) < Pipes!Turn(c, p) PROVE FALSE
      <4>1. Cardinality(N(q)) < Cardinality(N(p))
        BY <1>5, <2>3, <3>7
      <4> QED BY <4>1, <3>8, <3>4
    <3>6. Pipes!Turn(c, p) = Pipes!Turn(c, q)
      BY <3>2, <3>5, <3>7
    <3> QED BY <3>1, <3>6, TurnFacts
  <2> QED BY <2>1, <2>2, <2>3, <1>8
<1>9. IsNaming(new, c)
  BY <1>1, <1>2, <1>7, <1>8 DEF IsNaming, both
<1> QED BY <1>2, <1>9 DEF both

\* A monitor has configurations, and one of them is chosen.
LEMMA ModesFacts ==
    ASSUME NEW list \in Lists
    PROVE  /\ Pipes!ConfigsOf(list) \subseteq DOMAIN Timings
           /\ Pipes!Preferred(list) \in Pipes!ConfigsOf(list)
<1>1. list \in Seq(DOMAIN Timings) /\ list # << >>
  BY PipelinesAssumption
<1>2. Len(list) \in Nat /\ DOMAIN list = 1 .. Len(list) /\ Len(list) # 0
  BY <1>1
<1>3. Pipes!Kept(list) \subseteq 1 .. Len(list) /\ 1 \in Pipes!Kept(list)
  BY <1>2 DEF Pipes!Kept
<1> DEFINE S == {1} \cup {i \in Pipes!Kept(list) : Timings[list[i]].preferred}
<1>4. S \in SUBSET Nat /\ S # {} /\ S \subseteq Pipes!Kept(list) /\ \A n \in S : n <= Len(list)
  BY <1>2, <1>3
<1>5. Pipes!Preferred(list) = list[Pipes!Max(S)]
  BY DEF Pipes!Preferred
<1> HIDE DEF S
<1>6. Pipes!Max(S) \in Pipes!Kept(list)
  BY <1>2, <1>4, PipesMax
<1>7. \A i \in 1 .. Len(list) : list[i] \in DOMAIN Timings
  BY <1>1, <1>2
<1> QED BY <1>3, <1>5, <1>6, <1>7 DEF Pipes!ConfigsOf

-----------------------------------------------------------------------------
\* The routes and modes of a card's CRTCs, and its displays.
Kernels(c) == [route : [1 .. c.ports -> 0 .. c.crtcs], mode : [1 .. c.crtcs -> {0} \cup DOMAIN Timings]]

Outputs(c) ==
    [connector : 1 .. c.ports, crtc : 1 .. c.crtcs, plane : Nat, connected : BOOLEAN,
     native : BOOLEAN, internal : BOOLEAN, configs : SUBSET (DOMAIN Timings),
     config : DOMAIN Timings, powered : BOOLEAN, modeset : BOOLEAN, light : BOOLEAN]

\* A display has a pipeline of its connector and a mode of its own.
IsOutput(x, c, a) ==
    /\ x \in Outputs(c) /\ x.config \in x.configs /\ x.crtc \in Pipes!Reach(c, x.connector)
    /\ a => x.crtc \in c.planes[x.plane]

\* What the HAL believes of a display is what the kernel shows.
Lit(x, k) ==
    x.powered /\ ~x.modeset => k.route[x.connector] = x.crtc /\ k.mode[x.crtc] = x.config

\* A display that came: what it found on its CRTC.
FreshlyLit(x, k, a) ==
    x.powered /\ ~x.modeset =>
        (a => k.route[x.connector] = x.crtc) /\ k.mode[x.crtc] = x.config

Native(c, port) == port \in c.internal \/ c.firmware

LEMMA DiscoverFacts ==
    ASSUME NEW c, IsCard(c), NEW a \in BOOLEAN, NEW l, IsListing(l, c), NEW port \in Pipes!Plugged(l),
           NEW k \in Kernels(c), NEW x, Fits(x, c, a, port),
           NEW e, e = Pipes!DiscoverProperties(Pipes!DiscoverConnector(c, port, l[port], x), k, a)
    PROVE  /\ IsOutput(e, c, a) /\ FreshlyLit(e, k, a)
           /\ e.connector = port /\ e.crtc = x[2] /\ e.plane = x[3] /\ e.connected
           /\ e.native = Native(c, port) /\ e.internal = Native(c, port) /\ ~e.light
<1> DEFINE list == l[port]
           mode == k.mode[x[2]]
           in == mode \in Pipes!ConfigsOf(list)
           own == in /\ (a => k.route[port] = x[2])
           native == Native(c, port)
<1>1. e = [connector |-> port, crtc |-> x[2], plane |-> x[3], connected |-> TRUE,
           native |-> native, internal |-> native,
           configs |-> Pipes!ConfigsOf(list), config |-> IF in THEN mode ELSE Pipes!Preferred(list),
           powered |-> IF a THEN mode # 0 ELSE own, modeset |-> ~own, light |-> FALSE]
  BY DEF Pipes!DiscoverProperties, Pipes!DiscoverConnector, Native
<1>2. port \in 1 .. c.ports /\ list \in Lists
  BY DEF IsListing, Pipes!Plugged
<1>3. Pipes!ConfigsOf(list) \subseteq DOMAIN Timings /\ Pipes!Preferred(list) \in Pipes!ConfigsOf(list)
  BY <1>2, ModesFacts
<1>4. x[2] \in 1 .. c.crtcs /\ x[2] \in Pipes!Reach(c, port) /\ x[3] \in Nat /\ (a => x[2] \in c.planes[x[3]])
  BY DEF Fits
<1>5. in \in BOOLEAN /\ own \in BOOLEAN /\ native \in BOOLEAN
  BY DEF Native
<1>6. (IF in THEN mode ELSE Pipes!Preferred(list)) \in Pipes!ConfigsOf(list)
  BY <1>3
<1>7. in => (IF in THEN mode ELSE Pipes!Preferred(list)) = mode
  OBVIOUS
<1>8. own => in /\ (a => k.route[port] = x[2])
  OBVIOUS
<1> DEFINE config == IF in THEN mode ELSE Pipes!Preferred(list)
           powered == IF a THEN mode # 0 ELSE own
<1>9. powered \in BOOLEAN
  BY <1>5
<1> HIDE DEF list, in, own, config, powered, native
<1>10. e = [connector |-> port, crtc |-> x[2], plane |-> x[3], connected |-> TRUE,
            native |-> native, internal |-> native,
            configs |-> Pipes!ConfigsOf(list), config |-> config,
            powered |-> powered, modeset |-> ~own, light |-> FALSE]
  BY <1>1 DEF config, powered
<1>11. e \in Outputs(c)
  BY <1>10, <1>2, <1>3, <1>4, <1>5, <1>6, <1>9 DEF Outputs, config
<1>12. IsOutput(e, c, a)
  BY <1>10, <1>11, <1>4, <1>6 DEF IsOutput, config
<1>13. FreshlyLit(e, k, a)
  <2>1. e.connector = port /\ e.crtc = x[2] /\ e.config = config /\ e.modeset = ~own
    BY <1>10
  <2>2. SUFFICES ASSUME own PROVE (a => k.route[port] = x[2]) /\ k.mode[x[2]] = config
    BY <2>1 DEF FreshlyLit
  <2>3. config = mode
    BY <2>2, <1>7, <1>8 DEF config
  <2> QED BY <2>2, <2>3, <1>8
<1> QED BY <1>10, <1>12, <1>13 DEF native

\* A display that stayed: what was believed of it.
Continues(x, old) ==
    x.powered /\ ~x.modeset =>
        old.powered /\ ~old.modeset /\ x.crtc = old.crtc /\ x.config = old.config

\* What a scan makes of a connector that has a pipeline.
Scanned(x, c, k, dev, port, id, p) ==
    /\ IsOutput(x, c, dev.atomic)
    /\ x.connector = port /\ x.crtc = p[2] /\ x.plane = p[3] /\ x.connected
    /\ x.native = Native(c, port) /\ x.internal = Native(c, port)
    /\ x.light <=> id \in DOMAIN dev.displays /\ dev.displays[id].light
    /\ IF id \in Pipes!ConnectedOf(dev.displays) THEN Continues(x, dev.displays[id])
       ELSE FreshlyLit(x, k, dev.atomic)

\* The parts of a display that say which it is, and its state.
SameHead(x, y) ==
    /\ x.connector = y.connector /\ x.crtc = y.crtc /\ x.plane = y.plane
    /\ x.connected = y.connected /\ x.native = y.native /\ x.internal = y.internal
SameState(x, y) ==
    x.powered = y.powered /\ x.modeset = y.modeset /\ x.config = y.config /\ x.configs = y.configs

LEMMA StaysFacts ==
    ASSUME NEW c, NEW a \in BOOLEAN, NEW e, IsOutput(e, c, a), NEW old \in Outputs(c),
           NEW x, x = Pipes!StaysConnected(e, old)
    PROVE  IsOutput(x, c, a) /\ Continues(x, old) /\ SameHead(x, e) /\ x.light = e.light
<1> DEFINE kept == old.config \in e.configs
           config == IF kept THEN old.config ELSE e.config
           modeset == \/ old.modeset
                      \/ e.crtc # old.crtc \/ e.plane # old.plane
                      \/ e.config # old.config
                      \/ ~kept
<1>1. e \in Outputs(c) /\ e.config \in e.configs /\ e.crtc \in Pipes!Reach(c, e.connector)
      /\ (a => e.crtc \in c.planes[e.plane])
  BY DEF IsOutput
<1>2. x = [e EXCEPT !.powered = old.powered, !.modeset = modeset, !.config = config]
  BY DEF Pipes!StaysConnected
<1>3. modeset \in BOOLEAN /\ old.powered \in BOOLEAN
  BY DEF Outputs
<1>4. ~modeset => ~old.modeset /\ e.crtc = old.crtc /\ config = old.config
  OBVIOUS
<1>5. config \in e.configs
  BY <1>1
<1> HIDE DEF kept, config, modeset
<1>6. config \in DOMAIN Timings
  BY <1>1, <1>5 DEF Outputs
<1>7. x \in Outputs(c)
  BY <1>1, <1>2, <1>3, <1>6 DEF Outputs
<1>8. /\ x.powered = old.powered /\ x.modeset = modeset /\ x.config = config
      /\ x.connector = e.connector /\ x.crtc = e.crtc /\ x.plane = e.plane
      /\ x.connected = e.connected /\ x.native = e.native /\ x.internal = e.internal
      /\ x.light = e.light /\ x.configs = e.configs
  BY <1>1, <1>2 DEF Outputs
<1>9. IsOutput(x, c, a)
  BY <1>1, <1>5, <1>7, <1>8 DEF IsOutput
<1>10. Continues(x, old)
  BY <1>4, <1>8 DEF Continues
<1> QED BY <1>8, <1>9, <1>10 DEF SameHead

LEMMA LightFacts ==
    ASSUME NEW c, NEW a \in BOOLEAN, NEW e, IsOutput(e, c, a), NEW b \in BOOLEAN,
           NEW x, x = [e EXCEPT !.light = b]
    PROVE  IsOutput(x, c, a) /\ x.light = b /\ SameHead(x, e) /\ SameState(x, e)
<1>1. e \in Outputs(c)
  BY DEF IsOutput
<1>2. x \in Outputs(c)
  BY <1>1 DEF Outputs
<1>3. /\ x.light = b
      /\ x.connector = e.connector /\ x.crtc = e.crtc /\ x.plane = e.plane
      /\ x.connected = e.connected /\ x.native = e.native /\ x.internal = e.internal
      /\ x.powered = e.powered /\ x.modeset = e.modeset /\ x.config = e.config
      /\ x.configs = e.configs
  BY <1>1 DEF Outputs
<1> QED BY <1>2, <1>3 DEF IsOutput, SameHead, SameState

LEMMA ScanConnectorFacts ==
    ASSUME NEW c, IsCard(c), NEW l, IsListing(l, c), NEW port \in Pipes!Plugged(l),
           NEW k \in Kernels(c), NEW dev, dev.atomic \in BOOLEAN, NEW id,
           id \in DOMAIN dev.displays => dev.displays[id] \in Outputs(c),
           NEW p, Fits(p, c, dev.atomic, port),
           NEW x, x = Pipes!ScanConnector(c, l, k, dev, port, id, p)
    PROVE  Scanned(x, c, k, dev, port, id, p)
<1> DEFINE e == Pipes!DiscoverProperties(Pipes!DiscoverConnector(c, port, l[port], p), k, dev.atomic)
           old == dev.displays[id]
           lit == IF id \in DOMAIN dev.displays THEN [e EXCEPT !.light = old.light] ELSE e
           was == Pipes!ConnectedOf(dev.displays)
<1>1. x = IF id \in was THEN Pipes!StaysConnected(lit, old) ELSE lit
  BY DEF Pipes!ScanConnector
<1>2. /\ IsOutput(e, c, dev.atomic) /\ FreshlyLit(e, k, dev.atomic)
      /\ e.connector = port /\ e.crtc = p[2] /\ e.plane = p[3] /\ e.connected
      /\ e.native = Native(c, port) /\ e.internal = Native(c, port) /\ ~e.light
  BY DiscoverFacts
<1>3. was \subseteq DOMAIN dev.displays
  BY DEF Pipes!ConnectedOf
<1>4. id \in DOMAIN dev.displays => old.light \in BOOLEAN
  BY DEF Outputs
<1> HIDE DEF e, was
<1>5. /\ IsOutput(lit, c, dev.atomic) /\ lit.connector = port /\ lit.crtc = p[2] /\ lit.plane = p[3]
      /\ lit.connected /\ lit.native = Native(c, port) /\ lit.internal = Native(c, port)
      /\ lit.light <=> id \in DOMAIN dev.displays /\ old.light
      /\ lit.powered = e.powered /\ lit.modeset = e.modeset /\ lit.config = e.config
  <2>1. CASE id \in DOMAIN dev.displays
    <3>1. IsOutput(e, c, dev.atomic)
      BY <1>2
    <3>2. old.light \in BOOLEAN
      BY <1>4, <2>1
    <3>3. lit = [e EXCEPT !.light = old.light]
      BY <2>1
    <3> HIDE DEF lit, old
    <3>4. IsOutput(lit, c, dev.atomic) /\ lit.light = old.light /\ SameHead(lit, e) /\ SameState(lit, e)
      BY <3>1, <3>2, <3>3, LightFacts
    <3> QED BY <3>4, <2>1, <1>2 DEF SameHead, SameState
  <2>2. CASE id \notin DOMAIN dev.displays
    <3>1. lit = e
      BY <2>2
    <3> HIDE DEF lit, old
    <3> QED BY <3>1, <2>2, <1>2
  <2> QED BY <2>1, <2>2
<1> HIDE DEF lit
<1>6. CASE id \in was
  <2>1. old \in Outputs(c)
    BY <1>3, <1>6
  <2> HIDE DEF old
  <2>2. x = Pipes!StaysConnected(lit, old)
    BY <1>1, <1>6
  <2>3. IsOutput(lit, c, dev.atomic)
    BY <1>5
  <2>4. IsOutput(x, c, dev.atomic) /\ Continues(x, old) /\ SameHead(x, lit) /\ x.light = lit.light
    BY <2>1, <2>2, <2>3, StaysFacts
  <2> QED BY <2>4, <1>5, <1>6, <1>3 DEF Scanned, was, old, SameHead
<1>7. CASE id \notin was
  <2>1. x = lit
    BY <1>1, <1>7
  <2>2. FreshlyLit(x, k, dev.atomic)
    BY <2>1, <1>2, <1>5 DEF FreshlyLit
  <2> QED BY <2>1, <2>2, <1>5, <1>7 DEF Scanned, was
<1> QED BY <1>6, <1>7

-----------------------------------------------------------------------------
\* The displays of a card have pipelines of their own.
Apart(D, a) ==
    \A i, j \in Pipes!ConnectedOf(D) :
        i # j => D[i].crtc # D[j].crtc /\ (a => D[i].plane # D[j].plane)

AreOutputs(D, ids, c, a) ==
    \A id \in DOMAIN D :
        IsOutput(D[id], c, a) /\ D[id].connector \in DOMAIN ids /\ ids[D[id].connector] = id

GoodDevice(dev, c) ==
    /\ dev.atomic \in BOOLEAN /\ dev.searched \in BOOLEAN
    /\ IsNaming(dev.ids, c)
    /\ AreOutputs(dev.displays, dev.ids, c, dev.atomic)
    /\ Apart(dev.displays, dev.atomic)

\* The connectors that get a pipeline.
Granted(c, a, l) ==
    {port \in DOMAIN l : Pipes!FindPipeline(c, a, l)[port] # Pipes!NoPipeline}

\* A scan: every connector that gets a pipeline is a connected display with it,
\* and there are no others.
ScanIs(D, ids, c, l, k, dev) ==
    /\ IsNaming(ids, c) /\ DOMAIN ids = DOMAIN dev.ids \cup DOMAIN l
    /\ \A p \in DOMAIN dev.ids : ids[p] = dev.ids[p]
    /\ AreOutputs(D, ids, c, dev.atomic) /\ Apart(D, dev.atomic)
    /\ Pipes!ConnectedOf(D) = {ids[p] : p \in Granted(c, dev.atomic, l)}
    /\ \A p \in Granted(c, dev.atomic, l) :
          Scanned(D[ids[p]], c, k, dev, p, ids[p], Pipes!FindPipeline(c, dev.atomic, l)[p])

LEMMA ScanFacts ==
    ASSUME NEW c, IsCard(c), NEW l, IsListing(l, c), NEW k \in Kernels(c),
           NEW dev, GoodDevice(dev, c), NEW scan, scan = Pipes!Scan(c, l, k, dev)
    PROVE  /\ scan.served = Granted(c, dev.atomic, l)
           /\ ScanIs(scan.displays, scan.ids, c, l, k, dev)
<1> DEFINE a == dev.atomic
           f == Pipes!FindPipeline(c, a, l)
           ids == Pipes!DisplayIds(c, l, dev.ids)
           served == Granted(c, a, l)
           D == scan.displays
<1>0. a \in BOOLEAN /\ IsNaming(dev.ids, c) /\ AreOutputs(dev.displays, dev.ids, c, a)
  BY DEF GoodDevice
<1>1. Assigned(f, c, a, l)
  BY <1>0, FindPipelineFacts
<1>2. /\ IsNaming(ids, c) /\ DOMAIN ids = DOMAIN dev.ids \cup DOMAIN l
      /\ \A p \in DOMAIN dev.ids : ids[p] = dev.ids[p]
  BY <1>0, DisplayIdsFacts
<1>3. /\ scan.served = served /\ scan.ids = ids
      /\ D = [id \in DOMAIN dev.displays \cup {ids[port] : port \in served} |->
                 IF \E port \in served : ids[port] = id
                 THEN LET port == CHOOSE p \in served : ids[p] = id
                      IN  Pipes!ScanConnector(c, l, k, dev, port, id, f[port])
                 ELSE [dev.displays[id] EXCEPT !.connected = FALSE]]
  BY DEF Pipes!Scan, Granted
<1>4. ASSUME NEW p \in served
      PROVE  /\ p \in DOMAIN l /\ p \in DOMAIN ids /\ f[p] # Pipes!NoPipeline
             /\ p \in Pipes!Plugged(l) /\ Fits(f[p], c, a, p)
  <2>1. p \in DOMAIN l /\ f[p] # Pipes!NoPipeline
    BY DEF Granted
  <2> QED BY <2>1, <1>1, <1>2 DEF Assigned
<1> HIDE DEF served, f, ids, D
<1>5. ASSUME NEW p \in served, NEW q \in served, ids[p] = ids[q] PROVE p = q
  BY <1>2, <1>4, <1>5 DEF IsNaming
<1>6. DOMAIN D = DOMAIN dev.displays \cup {ids[port] : port \in served}
  BY <1>3
<1>7. ASSUME NEW p \in served
      PROVE  D[ids[p]] = Pipes!ScanConnector(c, l, k, dev, p, ids[p], f[p])
  <2>1. (CHOOSE q \in served : ids[q] = ids[p]) = p
    BY <1>5
  <2> QED BY <2>1, <1>3
<1>8. ASSUME NEW p \in served PROVE Scanned(D[ids[p]], c, k, dev, p, ids[p], f[p])
  <2>1. ids[p] \in DOMAIN dev.displays => dev.displays[ids[p]] \in Outputs(c)
    BY <1>0 DEF AreOutputs, IsOutput
  <2>2. p \in Pipes!Plugged(l) /\ Fits(f[p], c, a, p) /\ a \in BOOLEAN
    BY <1>0, <1>4
  <2>3. \A x : x = Pipes!ScanConnector(c, l, k, dev, p, ids[p], f[p]) =>
              Scanned(x, c, k, dev, p, ids[p], f[p])
    BY <2>1, <2>2, ScanConnectorFacts
  <2> QED BY <2>3, <1>7
<1>9. ASSUME NEW id \in DOMAIN D, id \notin {ids[p] : p \in served}
      PROVE  /\ id \in DOMAIN dev.displays /\ D[id] = [dev.displays[id] EXCEPT !.connected = FALSE]
             /\ IsOutput(D[id], c, a) /\ D[id].connector \in DOMAIN ids /\ ids[D[id].connector] = id
             /\ ~D[id].connected
  <2>1. id \in DOMAIN dev.displays /\ D[id] = [dev.displays[id] EXCEPT !.connected = FALSE]
    BY <1>3, <1>6, <1>9
  <2> DEFINE old == dev.displays[id]
  <2>2. IsOutput(old, c, a) /\ old.connector \in DOMAIN dev.ids /\ dev.ids[old.connector] = id
    BY <1>0, <2>1 DEF AreOutputs
  <2>3. old \in Outputs(c)
    BY <2>2 DEF IsOutput
  <2>4. D[id] = [old EXCEPT !.connected = FALSE]
    BY <2>1
  <2> HIDE DEF old
  <2>5. D[id] \in Outputs(c)
    BY <2>3, <2>4 DEF Outputs
  <2>6. D[id].connected = FALSE /\ D[id].connector = old.connector /\ D[id].crtc = old.crtc
        /\ D[id].plane = old.plane /\ D[id].config = old.config /\ D[id].configs = old.configs
    BY <2>3, <2>4 DEF Outputs
  <2>7. IsOutput(D[id], c, a)
    BY <2>2, <2>5, <2>6 DEF IsOutput
  <2> QED BY <2>1, <2>2, <2>6, <2>7, <1>2
<1>10. AreOutputs(D, ids, c, a)
  <2>1. ASSUME NEW p \in served
        PROVE  IsOutput(D[ids[p]], c, a) /\ D[ids[p]].connector \in DOMAIN ids
               /\ ids[D[ids[p]].connector] = ids[p]
    BY <1>4, <1>8 DEF Scanned
  <2> QED BY <2>1, <1>9 DEF AreOutputs
<1>11. Pipes!ConnectedOf(D) = {ids[p] : p \in served}
  <2>1. ASSUME NEW p \in served PROVE ids[p] \in DOMAIN D /\ D[ids[p]].connected
    BY <1>6, <1>8 DEF Scanned
  <2> QED BY <2>1, <1>9 DEF Pipes!ConnectedOf
<1>12. Apart(D, a)
  <2> SUFFICES ASSUME NEW i \in Pipes!ConnectedOf(D), NEW j \in Pipes!ConnectedOf(D), i # j
               PROVE  D[i].crtc # D[j].crtc /\ (a => D[i].plane # D[j].plane)
    BY DEF Apart
  <2>1. PICK p \in served : i = ids[p]
    BY <1>11
  <2>2. PICK q \in served : j = ids[q]
    BY <1>11
  <2>3. p # q /\ p \in DOMAIN l /\ q \in DOMAIN l /\ f[p] # Pipes!NoPipeline /\ f[q] # Pipes!NoPipeline
    BY <2>1, <2>2, <1>4
  <2>4. f[p][2] # f[q][2] /\ (a => f[p][3] # f[q][3])
    BY <2>3, <1>1 DEF Assigned
  <2>5. /\ D[i].crtc = f[p][2] /\ D[i].plane = f[p][3]
        /\ D[j].crtc = f[q][2] /\ D[j].plane = f[q][3]
    BY <2>1, <2>2, <1>8 DEF Scanned
  <2> QED BY <2>4, <2>5
<1>13. scan.displays = D /\ scan.served = served /\ scan.ids = ids
  BY <1>3 DEF D
<1>14. ScanIs(D, ids, c, l, k, dev)
  <2>1. \A p \in Granted(c, a, l) : Scanned(D[ids[p]], c, k, dev, p, ids[p], Pipes!FindPipeline(c, a, l)[p])
    BY <1>8 DEF served, f
  <2>2. Pipes!ConnectedOf(D) = {ids[p] : p \in Granted(c, a, l)}
    BY <1>11 DEF served
  <2> QED BY <1>2, <1>10, <1>12, <2>1, <2>2 DEF ScanIs
<1> QED BY <1>13, <1>14 DEF served

\* Displays that differ in the internal mark and the backlight at most.
Alike(x, y) ==
    /\ x.connector = y.connector /\ x.crtc = y.crtc /\ x.plane = y.plane
    /\ x.connected = y.connected /\ x.native = y.native /\ SameState(x, y)

AllAlike(D, E) == DOMAIN D = DOMAIN E /\ \A id \in DOMAIN E : Alike(D[id], E[id])

\* The panel is the internal display, or the only one is.
PanelFirst(D) ==
    /\ \A i, j \in Pipes!ConnectedOf(D) : D[i].internal /\ D[j].native => D[i].native
    /\ Pipes!ConnectedOf(D) # {} => \E i \in Pipes!ConnectedOf(D) : D[i].internal

LEMMA AlikeFacts ==
    ASSUME NEW D, NEW E, NEW ids, NEW c, NEW a, AreOutputs(E, ids, c, a), Apart(E, a),
           AllAlike(D, E), \A id \in DOMAIN E : D[id] \in Outputs(c)
    PROVE  AreOutputs(D, ids, c, a) /\ Apart(D, a) /\ Pipes!ConnectedOf(D) = Pipes!ConnectedOf(E)
<1>1. Pipes!ConnectedOf(D) = Pipes!ConnectedOf(E)
  BY DEF AllAlike, Alike, Pipes!ConnectedOf
<1>2. \A id \in Pipes!ConnectedOf(E) : id \in DOMAIN E
  BY DEF Pipes!ConnectedOf
<1>3. Apart(D, a)
  BY <1>1, <1>2 DEF Apart, AllAlike, Alike
<1>4. AreOutputs(D, ids, c, a)
  BY DEF AreOutputs, AllAlike, Alike, SameState, IsOutput
<1> QED BY <1>1, <1>3, <1>4

LEMMA PromotedFacts ==
    ASSUME NEW E, NEW c, NEW ids, IsNaming(ids, c), NEW a \in BOOLEAN, AreOutputs(E, ids, c, a),
           \A id \in Pipes!ConnectedOf(E) : E[id].internal = E[id].native,
           NEW D, D = Pipes!Promoted(E)
    PROVE  /\ AllAlike(D, E) /\ \A id \in DOMAIN E : D[id] \in Outputs(c) /\ D[id].light = E[id].light
           /\ PanelFirst(D)
<1> DEFINE on == Pipes!ConnectedOf(E)
           m == Pipes!Min(on)
<1>1. \A id \in DOMAIN E : E[id] \in Outputs(c) /\ id \in Nat
  BY DEF AreOutputs, IsOutput, IsNaming
<1>2. on \in SUBSET DOMAIN E /\ on \in SUBSET Nat
  BY <1>1 DEF Pipes!ConnectedOf
<1>3. D = IF on = {} \/ \E id \in on : E[id].internal THEN E
          ELSE [E EXCEPT ![m] = [@ EXCEPT !.internal = TRUE]]
  BY DEF Pipes!Promoted
<1> HIDE DEF m
<1>4. CASE on = {} \/ \E id \in on : E[id].internal
  <2>1. D = E
    BY <1>3, <1>4
  <2>2. AllAlike(D, E)
    BY <2>1 DEF AllAlike, Alike, SameState
  <2>3. PanelFirst(D)
    BY <2>1, <1>4 DEF PanelFirst
  <2> QED BY <2>1, <2>2, <2>3, <1>1
<1>5. CASE on # {} /\ \A id \in on : ~E[id].internal
  <2>1. D = [E EXCEPT ![m] = [@ EXCEPT !.internal = TRUE]]
    BY <1>3, <1>5
  <2>2. m \in on
    <3> HIDE DEF on
    <3> QED BY <1>2, <1>5, PipesMin DEF m
  <2>3. m \in DOMAIN E /\ E[m] \in Outputs(c)
    BY <2>2, <1>1, <1>2
  <2> DEFINE e == E[m]
             x == [e EXCEPT !.internal = TRUE]
  <2>4. DOMAIN D = DOMAIN E /\ D[m] = x /\ \A id \in DOMAIN E : id # m => D[id] = E[id]
    BY <2>1, <2>3
  <2> HIDE DEF e
  <2>5. x \in Outputs(c) /\ x.light = e.light /\ x.internal = TRUE /\ Alike(x, e)
    BY <2>3 DEF Outputs, e, Alike, SameState
  <2> HIDE DEF x
  <2>6. AllAlike(D, E)
    BY <2>4, <2>5 DEF AllAlike, Alike, SameState, e
  <2>7. \A id \in DOMAIN E : D[id] \in Outputs(c) /\ D[id].light = E[id].light
    BY <2>4, <2>5, <1>1 DEF e
  <2>8. Pipes!ConnectedOf(D) = on
    BY <2>6 DEF AllAlike, Alike, Pipes!ConnectedOf
  <2>9. \A id \in on : D[id].native = FALSE
    <3>1. ASSUME NEW id \in on PROVE D[id].native = FALSE
      <4>1. id \in DOMAIN E /\ E[id].native \in BOOLEAN /\ ~E[id].native
        BY <1>1, <1>2, <1>5 DEF Outputs
      <4>2. D[id].native = E[id].native
        BY <4>1, <2>6 DEF AllAlike, Alike
      <4> QED BY <4>1, <4>2
    <3> QED BY <3>1
  <2>10. PanelFirst(D)
    BY <2>2, <2>4, <2>5, <2>8, <2>9 DEF PanelFirst
  <2> QED BY <2>6, <2>7, <2>10
<1> QED BY <1>4, <1>5

\* The connected displays that are panels.
Natives(D) == {id \in Pipes!ConnectedOf(D) : D[id].native}

LEMMA BacklightFacts ==
    ASSUME NEW E, NEW c, NEW ids, NEW a, \A id \in DOMAIN E : E[id] \in Outputs(c),
           NEW D, D = Pipes!DiscoverBacklight(c, E)
    PROVE  /\ AllAlike(D, E)
           /\ \A id \in DOMAIN E :
                 /\ D[id] \in Outputs(c) /\ D[id].internal = E[id].internal
                 /\ D[id].light <=> E[id].light \/ (Natives(E) = {id} /\ c.backlights = 1)
<1>1. /\ DOMAIN D = DOMAIN E
      /\ \A id \in DOMAIN E :
            D[id] = [E[id] EXCEPT !.light = @ \/ (Natives(E) = {id} /\ c.backlights = 1)]
  BY DEF Pipes!DiscoverBacklight, Natives
<1>2. ASSUME NEW id \in DOMAIN E
      PROVE  /\ D[id] \in Outputs(c) /\ D[id].internal = E[id].internal
             /\ D[id].light <=> E[id].light \/ (Natives(E) = {id} /\ c.backlights = 1)
             /\ Alike(D[id], E[id])
  <2> DEFINE e == E[id]
             b == e.light \/ (Natives(E) = {id} /\ c.backlights = 1)
  <2>1. b \in BOOLEAN /\ e \in Outputs(c) /\ D[id] = [e EXCEPT !.light = b]
    BY <1>1 DEF Outputs
  <2>2. b <=> E[id].light \/ (Natives(E) = {id} /\ c.backlights = 1)
    OBVIOUS
  <2>3. e = E[id]
    OBVIOUS
  <2> HIDE DEF e, b
  <2>4. D[id] \in Outputs(c) /\ D[id].internal = e.internal /\ D[id].light = b /\ Alike(D[id], e)
    BY <2>1 DEF Outputs, Alike, SameState
  <2> QED BY <2>2, <2>3, <2>4
<1> QED BY <1>1, <1>2 DEF AllAlike

DeviceFields == {"card", "atomic", "displays", "ids", "searched"}

\* A display after a scan: its pipeline, and what is believed of it.
Revised(x, c, k, dev, port, id, p) ==
    /\ x.connector = port /\ x.crtc = p[2] /\ x.plane = p[3] /\ x.native = Native(c, port)
    /\ IF id \in Pipes!ConnectedOf(dev.displays) THEN Continues(x, dev.displays[id])
       ELSE FreshlyLit(x, k, dev.atomic)

HadLight(dev, id) == id \in DOMAIN dev.displays /\ dev.displays[id].light

\* A rescan.
IsRescan(new, c, l, k, dev) ==
    /\ DOMAIN new = DeviceFields
    /\ new.card = dev.card /\ new.atomic = dev.atomic /\ new.searched = TRUE
    /\ GoodDevice(new, c)
    /\ DOMAIN new.ids = DOMAIN dev.ids \cup DOMAIN l
    /\ \A p \in DOMAIN dev.ids : new.ids[p] = dev.ids[p]
    /\ Pipes!ConnectedOf(new.displays) = {new.ids[p] : p \in Granted(c, dev.atomic, l)}
    /\ PanelFirst(new.displays)
    /\ \A p \in Granted(c, dev.atomic, l) :
          LET id == new.ids[p]
              x == new.displays[id]
          IN  /\ Revised(x, c, k, dev, p, id, Pipes!FindPipeline(c, dev.atomic, l)[p])
              /\ x.light <=> \/ HadLight(dev, id)
                             \/ ~dev.searched /\ Natives(new.displays) = {id} /\ c.backlights = 1

LEMMA RescanFacts ==
    ASSUME NEW c, IsCard(c), NEW l, IsListing(l, c), NEW k \in Kernels(c),
           NEW dev, GoodDevice(dev, c), NEW r, r = Pipes!Rescan(c, l, k, dev)
    PROVE  /\ IsRescan(r.device, c, l, k, dev)
           /\ r.came = Pipes!ConnectedOf(r.device.displays) \ Pipes!ConnectedOf(dev.displays)
           /\ r.went = Pipes!ConnectedOf(dev.displays) \ Pipes!ConnectedOf(r.device.displays)
<1> DEFINE a == dev.atomic
           scan == Pipes!Scan(c, l, k, dev)
           S == scan.displays
           ids == scan.ids
           served == Granted(c, a, l)
           f == Pipes!FindPipeline(c, a, l)
           was == Pipes!ConnectedOf(dev.displays)
           P == Pipes!Promoted(S)
           D == IF dev.searched THEN P ELSE Pipes!DiscoverBacklight(c, P)
           new == [card |-> dev.card, atomic |-> a, ids |-> ids, searched |-> TRUE, displays |-> D]
<1>1. scan.served = served /\ ScanIs(S, ids, c, l, k, dev)
  BY ScanFacts
<1>2. /\ r.device = new
      /\ r.came = {ids[port] : port \in scan.served} \ was
      /\ r.went = was \cap ({ids[port] : port \in DOMAIN l \ scan.served}
                            \cup {id \in was : \A port \in DOMAIN l : ids[port] # id})
  BY DEF Pipes!Rescan
<1>3. a \in BOOLEAN /\ dev.searched \in BOOLEAN
  BY DEF GoodDevice
<1> HIDE DEF scan
<1>4. /\ IsNaming(ids, c) /\ DOMAIN ids = DOMAIN dev.ids \cup DOMAIN l
      /\ \A p \in DOMAIN dev.ids : ids[p] = dev.ids[p]
      /\ AreOutputs(S, ids, c, a) /\ Apart(S, a)
      /\ Pipes!ConnectedOf(S) = {ids[p] : p \in served}
      /\ \A p \in served : Scanned(S[ids[p]], c, k, dev, p, ids[p], f[p])
  BY <1>1 DEF ScanIs
<1> HIDE DEF served, f, S, ids, P
<1>5. \A id \in Pipes!ConnectedOf(S) : S[id].internal = S[id].native
  BY <1>4 DEF Scanned
<1>6. /\ AllAlike(P, S) /\ \A id \in DOMAIN S : P[id] \in Outputs(c) /\ P[id].light = S[id].light
      /\ PanelFirst(P)
  <2>1. AreOutputs(S, ids, c, a) /\ IsNaming(ids, c)
    BY <1>4
  <2> QED BY <1>3, <1>5, <2>1, PromotedFacts DEF P
<1>7. DOMAIN P = DOMAIN S /\ \A id \in DOMAIN P : P[id] \in Outputs(c)
  BY <1>6 DEF AllAlike
<1>8. /\ AllAlike(D, P)
      /\ \A id \in DOMAIN P :
            /\ D[id] \in Outputs(c) /\ D[id].internal = P[id].internal
            /\ D[id].light <=> P[id].light \/ (~dev.searched /\ Natives(P) = {id} /\ c.backlights = 1)
  <2>1. CASE dev.searched
    <3>1. D = P
      BY <2>1
    <3> HIDE DEF D
    <3> QED BY <3>1, <2>1, <1>7 DEF AllAlike, Alike, SameState
  <2>2. CASE ~dev.searched
    <3>1. D = Pipes!DiscoverBacklight(c, P)
      BY <2>2
    <3> HIDE DEF D
    <3>2. /\ AllAlike(D, P)
          /\ \A id \in DOMAIN P :
                /\ D[id] \in Outputs(c) /\ D[id].internal = P[id].internal
                /\ D[id].light <=> P[id].light \/ (Natives(P) = {id} /\ c.backlights = 1)
      BY <3>1, <1>7, BacklightFacts
    <3> QED BY <3>2, <2>2
  <2> QED BY <2>1, <2>2
<1> HIDE DEF D
<1>9. AllAlike(D, S) /\ \A id \in DOMAIN S : D[id] \in Outputs(c)
  BY <1>6, <1>8 DEF AllAlike, Alike, SameState
<1>10. AreOutputs(D, ids, c, a) /\ Apart(D, a) /\ Pipes!ConnectedOf(D) = Pipes!ConnectedOf(S)
  <2>1. AreOutputs(S, ids, c, a) /\ Apart(S, a)
    BY <1>4
  <2> QED BY <1>9, <2>1, AlikeFacts
<1>11. GoodDevice(new, c)
  BY <1>3, <1>4, <1>10 DEF GoodDevice
<1>12. Pipes!ConnectedOf(P) = Pipes!ConnectedOf(D) /\ Pipes!ConnectedOf(D) \subseteq DOMAIN P
  BY <1>8 DEF AllAlike, Alike, Pipes!ConnectedOf
<1>13. PanelFirst(D)
  <2>1. \A id \in Pipes!ConnectedOf(P) : D[id].internal = P[id].internal /\ D[id].native = P[id].native
    BY <1>8, <1>12 DEF AllAlike, Alike
  <2> QED BY <2>1, <1>6, <1>12 DEF PanelFirst
<1>14. Natives(D) = Natives(P)
  BY <1>8, <1>12 DEF Natives, AllAlike, Alike
<1>15. ASSUME NEW p \in served
       PROVE  /\ Revised(D[ids[p]], c, k, dev, p, ids[p], f[p])
              /\ D[ids[p]].light <=> \/ HadLight(dev, ids[p])
                                     \/ ~dev.searched /\ Natives(D) = {ids[p]} /\ c.backlights = 1
  <2> DEFINE id == ids[p]
             x == S[id]
             y == D[id]
  <2>1. id \in DOMAIN S /\ id \in DOMAIN P
    BY <1>4, <1>7 DEF Pipes!ConnectedOf
  <2>2. Scanned(x, c, k, dev, p, id, f[p])
    BY <1>4
  <2>3. Alike(y, x)
    BY <2>1, <1>9 DEF AllAlike
  <2>4. y.light <=> x.light \/ (~dev.searched /\ Natives(D) = {id} /\ c.backlights = 1)
    BY <2>1, <1>6, <1>8, <1>14
  <2> HIDE DEF id, x, y
  <2>5. x.light <=> HadLight(dev, id)
    BY <2>2 DEF Scanned, HadLight
  <2>6. IF id \in was THEN Continues(y, dev.displays[id]) ELSE FreshlyLit(y, k, a)
    BY <2>2, <2>3 DEF Scanned, Alike, SameState, Continues, FreshlyLit
  <2>7. Revised(y, c, k, dev, p, id, f[p])
    BY <2>2, <2>3, <2>6 DEF Scanned, Alike, Revised
  <2> QED BY <2>4, <2>5, <2>7 DEF id, x, y
<1>16. DOMAIN new = DeviceFields
  BY DEF DeviceFields
<1>17. /\ new.card = dev.card /\ new.atomic = dev.atomic /\ new.searched = TRUE
       /\ new.displays = D /\ new.ids = ids
  OBVIOUS
<1> HIDE DEF new
<1>18. IsRescan(new, c, l, k, dev)
  <2>1. \A p \in Granted(c, dev.atomic, l) :
          LET id == new.ids[p]
              x == new.displays[id]
          IN  /\ Revised(x, c, k, dev, p, id, Pipes!FindPipeline(c, dev.atomic, l)[p])
              /\ x.light <=> \/ HadLight(dev, id)
                             \/ ~dev.searched /\ Natives(new.displays) = {id} /\ c.backlights = 1
    BY <1>15, <1>17 DEF served, f
  <2>2. Pipes!ConnectedOf(new.displays) = {new.ids[p] : p \in Granted(c, dev.atomic, l)}
    BY <1>4, <1>10, <1>17 DEF served
  <2> QED BY <1>4, <1>11, <1>13, <1>16, <1>17, <2>1, <2>2 DEF IsRescan
<1> DEFINE now == Pipes!ConnectedOf(D)
<1>19. now = {ids[p] : p \in served}
  BY <1>4, <1>10
<1>20. r.came = now \ was
  BY <1>1, <1>2, <1>19
<1>21. r.went = was \ now
  <2>1. \A p, q \in DOMAIN l : ids[p] = ids[q] => p = q
    BY <1>4 DEF IsNaming
  <2>2. served \subseteq DOMAIN l
    BY DEF served, Granted
  <2>3. ASSUME NEW id \in was
        PROVE  id \in r.went <=> id \notin now
    <3>1. id \in r.went <=> \/ \E p \in DOMAIN l \ served : ids[p] = id
                            \/ \A p \in DOMAIN l : ids[p] # id
      BY <1>1, <1>2
    <3>2. id \in now <=> \E p \in served : ids[p] = id
      BY <1>19
    <3> QED BY <2>1, <2>2, <3>1, <3>2
  <2>4. r.went \subseteq was
    BY <1>2
  <2> QED BY <2>3, <2>4
<1> QED BY <1>2, <1>17, <1>18, <1>20, <1>21

\* Connectors are routed to CRTCs they can have.
Routed(k, c) == \A p \in 1 .. c.ports : k.route[p] = 0 \/ k.route[p] \in Pipes!Reach(c, p)

GoodKernel(k, c, a) == k \in Kernels(c) /\ Routed(k, c) /\ (a => Pipes!Consistent(k))

LEMMA KernelFields ==
    ASSUME NEW c, NEW k \in Kernels(c)
    PROVE  /\ k = [route |-> k.route, mode |-> k.mode]
           /\ k.route \in [1 .. c.ports -> 0 .. c.crtcs]
           /\ k.mode \in [1 .. c.crtcs -> {0} \cup DOMAIN Timings]
           /\ DOMAIN k.route = 1 .. c.ports /\ DOMAIN k.mode = 1 .. c.crtcs
  BY DEF Kernels

\* The displays but one keep what they show.
OthersLit(k, new, x, c) ==
    \A y \in Outputs(c) : y.connector # x.connector /\ y.crtc # x.crtc /\ Lit(y, k) => Lit(y, new)

\* What a commit makes of the kernel's state.
Commits(k, new, x, c, m) ==
    /\ new \in Kernels(c) /\ Routed(new, c) /\ OthersLit(k, new, x, c)
    /\ new.mode[x.crtc] = m

LEMMA SetCrtcFacts ==
    ASSUME NEW c, IsCard(c), NEW k \in Kernels(c), Routed(k, c),
           NEW x \in Outputs(c), x.crtc \in Pipes!Reach(c, x.connector),
           NEW ports \in {{}, {x.connector}}, NEW m \in {0} \cup DOMAIN Timings,
           NEW new, new = Pipes!SetCrtc(k, x.crtc, ports, m)
    PROVE  /\ Commits(k, new, x, c, m)
           /\ x.connector \in ports => new.route[x.connector] = x.crtc
<1> DEFINE route == [p \in DOMAIN k.route |->
                        IF p \in ports THEN x.crtc ELSE IF k.route[p] = x.crtc THEN 0 ELSE k.route[p]]
           mode == [r \in DOMAIN k.mode |->
                        IF r = x.crtc THEN m
                        ELSE IF \E p \in DOMAIN route : route[p] = r THEN k.mode[r] ELSE 0]
<1>1. new = [route |-> route, mode |-> mode]
  BY DEF Pipes!SetCrtc
<1>2. /\ k.route \in [1 .. c.ports -> 0 .. c.crtcs] /\ k.mode \in [1 .. c.crtcs -> {0} \cup DOMAIN Timings]
      /\ DOMAIN k.route = 1 .. c.ports /\ DOMAIN k.mode = 1 .. c.crtcs
  BY KernelFields
<1>3. x.connector \in 1 .. c.ports /\ x.crtc \in 1 .. c.crtcs /\ c.crtcs \in Nat
  BY CardFields DEF Outputs
<1>4. route \in [1 .. c.ports -> 0 .. c.crtcs]
  <2>1. ASSUME NEW p \in 1 .. c.ports
        PROVE  (IF p \in ports THEN x.crtc ELSE IF k.route[p] = x.crtc THEN 0 ELSE k.route[p]) \in 0 .. c.crtcs
    <3>1. k.route[p] \in 0 .. c.crtcs
      BY <1>2
    <3>2. x.crtc \in 0 .. c.crtcs /\ 0 \in 0 .. c.crtcs
      BY <1>3
    <3> QED BY <3>1, <3>2
  <2> QED BY ONLY <1>2, <2>1
<1>5. mode \in [1 .. c.crtcs -> {0} \cup DOMAIN Timings]
  BY <1>2
<1>6. new \in Kernels(c)
  <2> HIDE DEF route, mode
  <2> QED BY <1>1, <1>4, <1>5 DEF Kernels
<1>7. \A p \in 1 .. c.ports : new.route[p] =
          IF p \in ports THEN x.crtc ELSE IF k.route[p] = x.crtc THEN 0 ELSE k.route[p]
  BY <1>1, <1>2
<1>8. \A r \in 1 .. c.crtcs : r # x.crtc /\ (\E p \in 1 .. c.ports : new.route[p] = r) => new.mode[r] = k.mode[r]
  <2>1. DOMAIN route = 1 .. c.ports /\ new.route = route /\ new.mode = mode
    BY <1>1, <1>2
  <2>2. \A r \in 1 .. c.crtcs : mode[r] = IF r = x.crtc THEN m
                        ELSE IF \E p \in DOMAIN route : route[p] = r THEN k.mode[r] ELSE 0
    BY <1>2
  <2> HIDE DEF route, mode
  <2> QED BY <2>1, <2>2
<1>9. new.mode[x.crtc] = m
  BY <1>1, <1>2, <1>3
<1> HIDE DEF route, mode
<1>10. Routed(new, c)
  BY <1>7 DEF Routed
<1>11. OthersLit(k, new, x, c)
  <2> SUFFICES ASSUME NEW y \in Outputs(c), y.connector # x.connector, y.crtc # x.crtc, Lit(y, k)
               PROVE  Lit(y, new)
    BY DEF OthersLit
  <2>1. y.connector \in 1 .. c.ports /\ y.crtc \in 1 .. c.crtcs /\ y.connector \notin ports
    BY DEF Outputs
  <2>2. k.route[y.connector] = y.crtc => new.route[y.connector] = y.crtc /\ new.mode[y.crtc] = k.mode[y.crtc]
    BY <2>1, <1>7, <1>8
  <2> QED BY <2>2 DEF Lit
<1>12. x.connector \in ports => new.route[x.connector] = x.crtc
  BY <1>3, <1>7
<1> QED BY <1>6, <1>9, <1>10, <1>11, <1>12 DEF Commits

Routing(k, x, r, m) ==
    [route |-> [k.route EXCEPT ![x.connector] = r], mode |-> [k.mode EXCEPT ![x.crtc] = m]]

LEMMA AtomicFacts ==
    ASSUME NEW c, IsCard(c), NEW k \in Kernels(c), Routed(k, c),
           NEW x \in Outputs(c), x.crtc \in Pipes!Reach(c, x.connector),
           NEW r \in {0, x.crtc}, NEW m \in {0} \cup DOMAIN Timings,
           NEW new, new = Routing(k, x, r, m)
    PROVE  Commits(k, new, x, c, m) /\ new.route[x.connector] = r
<1>2. /\ k.route \in [1 .. c.ports -> 0 .. c.crtcs] /\ k.mode \in [1 .. c.crtcs -> {0} \cup DOMAIN Timings]
      /\ DOMAIN k.route = 1 .. c.ports /\ DOMAIN k.mode = 1 .. c.crtcs
  BY KernelFields
<1>3. x.connector \in 1 .. c.ports /\ x.crtc \in 1 .. c.crtcs /\ c.crtcs \in Nat
  BY CardFields DEF Outputs
<1>8. /\ new.route = [k.route EXCEPT ![x.connector] = r] /\ new.mode = [k.mode EXCEPT ![x.crtc] = m]
      /\ new = [route |-> new.route, mode |-> new.mode]
  BY DEF Routing
<1>9. new.route \in [1 .. c.ports -> 0 .. c.crtcs]
  <2>1. r \in 0 .. c.crtcs
    BY <1>3
  <2> QED BY ONLY <1>2, <1>8, <2>1
<1>10. new.mode \in [1 .. c.crtcs -> {0} \cup DOMAIN Timings]
  BY ONLY <1>2, <1>8, m \in {0} \cup DOMAIN Timings
<1>11. /\ new.route[x.connector] = r
       /\ \A p \in 1 .. c.ports : p # x.connector => new.route[p] = k.route[p]
  BY ONLY <1>2, <1>3, <1>8
<1>12. /\ new.mode[x.crtc] = m
       /\ \A q \in 1 .. c.crtcs : q # x.crtc => new.mode[q] = k.mode[q]
  BY ONLY <1>2, <1>3, <1>8
<1>4. /\ new.route \in [1 .. c.ports -> 0 .. c.crtcs] /\ new.mode \in [1 .. c.crtcs -> {0} \cup DOMAIN Timings]
      /\ new.route[x.connector] = r /\ new.mode[x.crtc] = m
      /\ \A p \in 1 .. c.ports : p # x.connector => new.route[p] = k.route[p]
      /\ \A q \in 1 .. c.crtcs : q # x.crtc => new.mode[q] = k.mode[q]
  BY ONLY <1>9, <1>10, <1>11, <1>12
<1>5. new \in Kernels(c)
  BY ONLY <1>8, <1>9, <1>10 DEF Kernels
<1>6. Routed(new, c)
  BY <1>3, <1>4 DEF Routed
<1>7. OthersLit(k, new, x, c)
  BY <1>4 DEF OthersLit, Lit, Outputs
<1> QED BY <1>4, <1>5, <1>6, <1>7 DEF Commits

LEMMA TurnedOffFacts ==
    ASSUME NEW c, IsCard(c), NEW k \in Kernels(c), Routed(k, c),
           NEW x \in Outputs(c), x.crtc \in Pipes!Reach(c, x.connector), NEW a \in BOOLEAN,
           NEW new, new = Pipes!TurnedOff(x, k, a)
    PROVE  Commits(k, new, x, c, 0)
<1>1. CASE a
  <2>1. new = Routing(k, x, 0, 0)
    BY <1>1 DEF Pipes!TurnedOff, Routing
  <2>2. 0 \in {0, x.crtc} /\ 0 \in {0} \cup DOMAIN Timings
    OBVIOUS
  <2> QED BY <2>1, <2>2, AtomicFacts
<1>2. CASE ~a
  <2>1. new = Pipes!SetCrtc(k, x.crtc, {}, 0)
    BY <1>2 DEF Pipes!TurnedOff
  <2>2. {} \in {{}, {x.connector}} /\ 0 \in {0} \cup DOMAIN Timings
    OBVIOUS
  <2> QED BY <2>1, <2>2, SetCrtcFacts
<1> QED BY <1>1, <1>2

LEMMA ModesetFacts ==
    ASSUME NEW c, IsCard(c), NEW k \in Kernels(c), Routed(k, c),
           NEW x \in Outputs(c), x.crtc \in Pipes!Reach(c, x.connector), NEW a \in BOOLEAN,
           NEW new, new = Pipes!Modeset(x, k, a)
    PROVE  Commits(k, new, x, c, x.config) /\ new.route[x.connector] = x.crtc
<1> DEFINE m == x.config
           r == x.crtc
           ports == {x.connector}
<1>3. /\ IsCard(c) /\ k \in Kernels(c) /\ Routed(k, c) /\ x \in Outputs(c)
      /\ x.crtc \in Pipes!Reach(c, x.connector)
  OBVIOUS
<1>0. m \in {0} \cup DOMAIN Timings
  BY DEF Outputs
<1>1. CASE a
  <2>1. new = Routing(k, x, r, m)
    BY <1>1 DEF Pipes!Modeset, Routing
  <2>2. r \in {0, x.crtc}
    OBVIOUS
  <2> HIDE DEF m, r
  <2>3. Commits(k, new, x, c, m) /\ new.route[x.connector] = r
    BY ONLY <1>0, <2>1, <2>2, <1>3, AtomicFacts
  <2> QED BY <2>3 DEF m, r
<1>2. CASE ~a
  <2>1. new = Pipes!SetCrtc(k, x.crtc, ports, m)
    BY <1>2 DEF Pipes!Modeset
  <2>2. ports \in {{}, {x.connector}} /\ x.connector \in ports
    OBVIOUS
  <2> HIDE DEF m, ports
  <2>3. Commits(k, new, x, c, m) /\ (x.connector \in ports => new.route[x.connector] = x.crtc)
    BY ONLY <1>0, <2>1, <2>2, <1>3, SetCrtcFacts
  <2> QED BY <2>2, <2>3 DEF m
<1> QED BY <1>1, <1>2

-----------------------------------------------------------------------------
\* A display that may have been switched off.
Darker(x, y, c) ==
    /\ x \in Outputs(c) /\ SameHead(x, y) /\ x.light = y.light
    /\ x.config = y.config /\ x.configs = y.configs
    /\ \/ x.powered = y.powered /\ x.modeset = y.modeset
       \/ ~x.powered /\ x.modeset

OffSound(s, D, a, c) ==
    /\ DOMAIN s.displays = DOMAIN D /\ \A id \in DOMAIN D : Darker(s.displays[id], D[id], c)
    /\ s.atomic = a /\ s.failed \in BOOLEAN /\ GoodKernel(s.crtcs, c, a)

\* Displays in a state they were not asked for are the failure of someone.
OffStep(s, t, D, id, a, refused) ==
    /\ \A j \in Pipes!ConnectedOf(D) : Lit(s.displays[j], s.crtcs) => Lit(t.displays[j], t.crtcs)
    /\ ~t.displays[id].powered \/ t.failed
    /\ s.failed => t.failed
    /\ ~refused /\ ~a => t.failed = s.failed
    /\ \A j \in DOMAIN D : j # id => t.displays[j] = s.displays[j]

LEMMA SwitchOffFacts ==
    ASSUME NEW c, IsCard(c), NEW a \in BOOLEAN, NEW D, NEW ids, AreOutputs(D, ids, c, a), Apart(D, a),
           NEW s, OffSound(s, D, a, c), NEW id \in Pipes!ConnectedOf(D), NEW refused \in BOOLEAN,
           NEW t, t = Pipes!SwitchOff(s, id, refused)
    PROVE  OffSound(t, D, a, c) /\ OffStep(s, t, D, id, a, refused)
<1> DEFINE x == s.displays[id]
           k == Pipes!TurnedOff(x, s.crtcs, s.atomic)
<1>1. /\ id \in DOMAIN D /\ DOMAIN s.displays = DOMAIN D /\ s.atomic = a /\ s.failed \in BOOLEAN
      /\ s.crtcs \in Kernels(c) /\ Routed(s.crtcs, c) /\ (a => Pipes!Consistent(s.crtcs))
  BY DEF OffSound, GoodKernel, Pipes!ConnectedOf
<1>2. \A j \in DOMAIN D : Darker(s.displays[j], D[j], c)
  BY DEF OffSound
<1>3. /\ x \in Outputs(c) /\ x.crtc = D[id].crtc /\ x.connector = D[id].connector
      /\ x.crtc \in Pipes!Reach(c, x.connector)
  BY <1>1, <1>2 DEF Darker, SameHead, AreOutputs, IsOutput
<1>4. t = IF ~x.powered THEN s
          ELSE IF refused \/ (s.atomic /\ ~Pipes!Consistent(k))
          THEN [displays |-> s.displays, crtcs |-> s.crtcs, atomic |-> s.atomic, failed |-> TRUE]
          ELSE [displays |-> [s.displays EXCEPT ![id] = [@ EXCEPT !.powered = FALSE, !.modeset = TRUE]],
                crtcs |-> k, atomic |-> s.atomic, failed |-> s.failed]
  BY DEF Pipes!SwitchOff
<1>5. CASE ~x.powered
  <2>1. t = s
    BY <1>4, <1>5
  <2> QED BY <2>1, <1>5 DEF OffStep
<1>6. CASE x.powered /\ (refused \/ (s.atomic /\ ~Pipes!Consistent(k)))
  <2>1. t.displays = s.displays /\ t.crtcs = s.crtcs /\ t.atomic = s.atomic /\ t.failed = TRUE
    BY <1>4, <1>6
  <2>2. OffSound(t, D, a, c)
    BY <2>1 DEF OffSound
  <2>3. OffStep(s, t, D, id, a, refused)
    BY <2>1, <1>1, <1>6 DEF OffStep
  <2> QED BY <2>2, <2>3
<1>7. CASE x.powered /\ ~refused /\ ~ (s.atomic /\ ~Pipes!Consistent(k))
  <2> DEFINE z == [x EXCEPT !.powered = FALSE, !.modeset = TRUE]
  <2>1. /\ t.displays = [s.displays EXCEPT ![id] = z] /\ t.crtcs = k
        /\ t.atomic = s.atomic /\ t.failed = s.failed
    <3>1. t = [displays |-> [s.displays EXCEPT ![id] = [@ EXCEPT !.powered = FALSE, !.modeset = TRUE]],
               crtcs |-> k, atomic |-> s.atomic, failed |-> s.failed]
      <4> HIDE DEF k, x
      <4> QED BY <1>4, <1>7
    <3>2. [s.displays EXCEPT ![id] = [@ EXCEPT !.powered = FALSE, !.modeset = TRUE]] = [s.displays EXCEPT ![id] = z]
      <4> HIDE DEF k
      <4> QED BY DEF x
    <3> HIDE DEF k, z
    <3> QED BY <3>1, <3>2
  <2>2. k \in Kernels(c) /\ Routed(k, c) /\ OthersLit(s.crtcs, k, x, c)
    <3> DEFINE kernel == s.crtcs
    <3>1. kernel \in Kernels(c) /\ Routed(kernel, c) /\ k = Pipes!TurnedOff(x, kernel, a)
      BY <1>1
    <3> HIDE DEF x, k, kernel
    <3>2. Commits(kernel, k, x, c, 0)
      BY <1>3, <3>1, TurnedOffFacts
    <3> QED BY <3>2 DEF kernel, Commits
  <2> HIDE DEF k
  <2>3. z \in Outputs(c) /\ SameHead(z, x) /\ z.light = x.light /\ z.config = x.config
        /\ z.configs = x.configs /\ z.powered = FALSE /\ z.modeset = TRUE
    <3>1. x \in Outputs(c)
      BY <1>3
    <3> HIDE DEF x
    <3> QED BY <3>1 DEF Outputs, SameHead
  <2>4. Darker(x, D[id], c)
    BY <1>1, <1>2
  <2> HIDE DEF z, x
  <2>5. Darker(z, D[id], c)
    BY <2>3, <2>4 DEF Darker, SameHead
  <2>6. DOMAIN t.displays = DOMAIN D /\ t.displays[id] = z /\ \A j \in DOMAIN D : j # id => t.displays[j] = s.displays[j]
    BY <1>1, <2>1
  <2>7. \A j \in DOMAIN D : Darker(t.displays[j], D[j], c)
    BY <1>2, <2>5, <2>6
  <2>8. GoodKernel(k, c, a)
    BY <1>1, <1>7, <2>2 DEF GoodKernel
  <2>9. OffSound(t, D, a, c)
    BY <1>1, <2>1, <2>6, <2>7, <2>8 DEF OffSound
  <2>10. ASSUME NEW j \in Pipes!ConnectedOf(D), Lit(s.displays[j], s.crtcs)
         PROVE  Lit(t.displays[j], t.crtcs)
    <3>1. CASE j = id
      BY <3>1, <2>3, <2>6 DEF Lit
    <3>2. CASE j # id
      <4>1. j \in DOMAIN D /\ t.displays[j] = s.displays[j]
        BY <3>2, <2>6 DEF Pipes!ConnectedOf
      <4> DEFINE y == s.displays[j]
      <4>2. y \in Outputs(c) /\ y.crtc = D[j].crtc /\ y.connector = D[j].connector
        BY <4>1, <1>2 DEF Darker, SameHead
      <4>3. y.crtc # x.crtc
        BY <3>2, <4>2, <1>3 DEF Apart
      <4>4. y.connector # x.connector
        BY <3>2, <4>1, <4>2, <1>1, <1>3 DEF AreOutputs
      <4>5. Lit(y, k)
        BY <4>2, <4>3, <4>4, <2>2, <2>10 DEF OthersLit
      <4> QED BY <4>1, <4>5, <2>1
    <3> QED BY <3>1, <3>2
  <2>11. OffStep(s, t, D, id, a, refused)
    BY <2>1, <2>3, <2>6, <2>10 DEF OffStep
  <2> QED BY <2>9, <2>11
<1> QED BY <1>5, <1>6, <1>7

(***************************************************************************)
(* Displays switched off one after the other                               *)
(***************************************************************************)
Dimmed(g, n, s, X, refused) ==
    IF n = 0 THEN s
    ELSE IF n - 1 \in X THEN Pipes!SwitchOff(g[n - 1], n - 1, refused) ELSE g[n - 1]
OffUpTo(g, k, s, X, refused) == g = [n \in 0 .. k |-> Dimmed(g, n, s, X, refused)]
HasOff(k, s, X, refused) == \E g : OffUpTo(g, k, s, X, refused)

LEMMA OffExists ==
    ASSUME NEW N \in Nat, NEW s, NEW X, NEW refused
    PROVE  HasOff(N, s, X, refused)
<1> DEFINE Bad == {k \in 0 .. N : ~ HasOff(k, s, X, refused)}
<1>1. SUFFICES ASSUME N \in Bad PROVE FALSE
  OBVIOUS
<1>2. PICK k \in Bad : \A m \in Bad : k <= m
  <2>1. Bad \in SUBSET Nat /\ Bad # {}
    BY <1>1
  <2> HIDE DEF Bad
  <2> QED BY <2>1, LeastNatural
<1>3. k # 0
  <2>1. SUFFICES ASSUME k = 0 PROVE FALSE
    OBVIOUS
  <2> DEFINE g == [n \in 0 .. 0 |-> s]
  <2>2. g = [n \in 0 .. 0 |-> Dimmed(g, n, s, X, refused)]
    <3>1. \A n \in 0 .. 0 : Dimmed(g, n, s, X, refused) = s
      BY DEF Dimmed
    <3> QED BY <3>1
  <2> HIDE DEF g
  <2>3. OffUpTo(g, 0, s, X, refused)
    BY <2>2 DEF OffUpTo
  <2> QED BY <1>2, <2>1, <2>3 DEF HasOff
<1>4. k \in 1 .. N /\ k \in Nat /\ k - 1 \in 0 .. N /\ k - 1 \notin Bad
  BY <1>2, <1>3
<1>5. PICK f : OffUpTo(f, k - 1, s, X, refused)
  BY <1>4 DEF HasOff
<1> DEFINE g == [n \in 0 .. k |-> Dimmed(f, n, s, X, refused)]
<1>6. ASSUME NEW n \in 0 .. k - 1 PROVE g[n] = f[n]
  <2>1. f[n] = Dimmed(f, n, s, X, refused)
    BY <1>5 DEF OffUpTo
  <2>2. n \in 0 .. k
    BY <1>4
  <2> QED BY <2>1, <2>2
<1>7. ASSUME NEW n \in 0 .. k PROVE Dimmed(g, n, s, X, refused) = Dimmed(f, n, s, X, refused)
  <2>1. n # 0 => n - 1 \in 0 .. k - 1
    BY <1>4
  <2>2. n # 0 => g[n - 1] = f[n - 1]
    BY <1>6, <2>1
  <2> HIDE DEF g
  <2> QED BY <2>2 DEF Dimmed
<1>8. g = [n \in 0 .. k |-> Dimmed(g, n, s, X, refused)]
  BY <1>7
<1> HIDE DEF g
<1>9. OffUpTo(g, k, s, X, refused)
  BY <1>8 DEF OffUpTo
<1> QED BY <1>2, <1>9 DEF HasOff

LEMMA SwitchedOffIs ==
    ASSUME NEW dev, NEW X, NEW refused, NEW N \in Nat, N = Cardinality(DOMAIN dev.ids),
           NEW t, t = Pipes!SwitchedOff(dev, X, refused)
    PROVE  \E g : OffUpTo(g, N, Pipes!AsIs(dev), X, refused) /\ t = g[N]
<1> DEFINE s == Pipes!AsIs(dev)
           Body(g) == [n \in 0 .. N |-> Dimmed(g, n, s, X, refused)]
           f == CHOOSE g : g = Body(g)
<1>1. t = f[N]
  BY SameCardinality DEF Pipes!SwitchedOff, Dimmed
<1>2. \E g : g = Body(g)
  <2>1. PICK g : OffUpTo(g, N, s, X, refused)
    <3> HIDE DEF s
    <3>1. HasOff(N, s, X, refused)
      BY OffExists
    <3> QED BY <3>1 DEF HasOff
  <2>2. g = Body(g)
    BY <2>1 DEF OffUpTo
  <2> QED BY <2>2
<1>3. f = Body(f)
  <2> HIDE DEF Body
  <2> QED BY <1>2
<1> HIDE DEF f
<1> QED BY <1>1, <1>3 DEF OffUpTo

-----------------------------------------------------------------------------
\* Where the displays are after those of X were switched off up to n.
OffTo(t, n, s, D, X, a, c, refused) ==
    /\ OffSound(t, D, a, c)
    /\ \A j \in Pipes!ConnectedOf(D) : Lit(D[j], s.crtcs) => Lit(t.displays[j], t.crtcs)
    /\ \A j \in X : j < n => ~t.displays[j].powered \/ t.failed
    /\ ~refused /\ ~a => ~t.failed

LEMMA OffOne ==
    ASSUME NEW c, IsCard(c), NEW a \in BOOLEAN, NEW D, NEW ids, IsNaming(ids, c),
           AreOutputs(D, ids, c, a), Apart(D, a),
           NEW s, NEW X \in SUBSET Pipes!ConnectedOf(D), NEW refused \in BOOLEAN, NEW n \in Nat,
           NEW t, OffTo(t, n, s, D, X, a, c, refused),
           NEW u, u = IF n \in X THEN Pipes!SwitchOff(t, n, refused) ELSE t
    PROVE  OffTo(u, n + 1, s, D, X, a, c, refused)
<1>0. ASSUME NEW j \in X PROVE j \in Nat /\ j \in DOMAIN D /\ (j < n + 1 => j = n \/ j < n)
  <2>1. j \in DOMAIN D
    BY DEF Pipes!ConnectedOf
  <2>2. D[j].connector \in DOMAIN ids /\ ids[D[j].connector] = j
    BY <2>1 DEF AreOutputs
  <2>3. j \in Nat
    BY <2>2 DEF IsNaming
  <2> QED BY <2>1, <2>3
<1>1. CASE n \notin X
  <2>1. u = t
    BY <1>1
  <2> QED BY <2>1, <1>0, <1>1 DEF OffTo
<1>2. CASE n \in X
  <2>1. u = Pipes!SwitchOff(t, n, refused) /\ n \in Pipes!ConnectedOf(D) /\ OffSound(t, D, a, c)
    BY <1>2 DEF OffTo
  <2>2. OffSound(u, D, a, c) /\ OffStep(t, u, D, n, a, refused)
    BY <2>1, SwitchOffFacts
  <2>3. \A j \in Pipes!ConnectedOf(D) : Lit(D[j], s.crtcs) => Lit(u.displays[j], u.crtcs)
    BY <2>2 DEF OffTo, OffStep
  <2>4. ASSUME NEW j \in X, j < n + 1 PROVE ~u.displays[j].powered \/ u.failed
    <3>1. CASE j = n
      BY <3>1, <2>2 DEF OffStep
    <3>2. CASE j # n
      <4>1. j < n /\ j \in DOMAIN D
        BY <3>2, <2>4, <1>0
      <4>2. ~t.displays[j].powered \/ t.failed
        BY <4>1 DEF OffTo
      <4>3. u.displays[j] = t.displays[j] /\ (t.failed => u.failed)
        BY <4>1, <3>2, <2>2 DEF OffStep
      <4> QED BY <4>2, <4>3
    <3> QED BY <3>1, <3>2
  <2>5. ~refused /\ ~a => ~u.failed
    BY <2>2 DEF OffTo, OffStep
  <2> QED BY <2>2, <2>3, <2>4, <2>5 DEF OffTo
<1> QED BY <1>1, <1>2

\* All of X are off then, or one could not be switched off.
AllOff(t, dev, X, refused, c, k) ==
    /\ OffSound(t, dev.displays, dev.atomic, c)
    /\ \A j \in Pipes!ConnectedOf(dev.displays) :
          Lit(dev.displays[j], k) => Lit(t.displays[j], t.crtcs)
    /\ \A j \in X : ~t.displays[j].powered \/ t.failed
    /\ ~refused /\ ~dev.atomic => ~t.failed

LEMMA SwitchedOffFacts ==
    ASSUME NEW c, IsCard(c), NEW dev, GoodDevice(dev, c), NEW k, k = crtcs[dev.card],
           GoodKernel(k, c, dev.atomic),
           NEW X \in SUBSET Pipes!ConnectedOf(dev.displays), NEW refused \in BOOLEAN,
           NEW t, t = Pipes!SwitchedOff(dev, X, refused)
    PROVE  AllOff(t, dev, X, refused, c, k)
<1> DEFINE N == Cardinality(DOMAIN dev.ids)
           s == Pipes!AsIs(dev)
           D == dev.displays
           a == dev.atomic
<1>1. /\ IsNaming(dev.ids, c) /\ AreOutputs(D, dev.ids, c, a) /\ Apart(D, a) /\ a \in BOOLEAN
  BY DEF GoodDevice
<1>2. N \in Nat
  <2>1. DOMAIN dev.ids \in SUBSET (1 .. c.ports)
    BY <1>1 DEF IsNaming
  <2> QED BY <2>1, PortsFinite
<1>3. s.displays = D /\ s.crtcs = k /\ s.atomic = a /\ s.failed = FALSE
  BY DEF Pipes!AsIs
<1> HIDE DEF N, s, D, a
<1>4. PICK g : OffUpTo(g, N, s, X, refused) /\ t = g[N]
  BY <1>2, SwitchedOffIs DEF N, s
<1> DEFINE Bad == {n \in 0 .. N : ~ OffTo(g[n], n, s, D, X, a, c, refused)}
<1>5. ASSUME NEW n \in 0 .. N PROVE g[n] = Dimmed(g, n, s, X, refused)
  BY <1>4 DEF OffUpTo
<1>6. Bad = {}
  <2>1. SUFFICES ASSUME Bad # {} PROVE FALSE
    OBVIOUS
  <2>2. PICK n \in Bad : \A m \in Bad : n <= m
    <3>1. Bad \in SUBSET Nat /\ Bad # {}
      BY <1>2, <2>1
    <3> HIDE DEF Bad
    <3> QED BY <3>1, LeastNatural
  <2>3. CASE n = 0
    <3>1. g[0] = s
      BY <1>2, <1>5 DEF Dimmed
    <3>2. OffSound(s, D, a, c)
      <4>1. \A id \in DOMAIN D : Darker(D[id], D[id], c)
        BY <1>1 DEF AreOutputs, IsOutput, Darker, SameHead
      <4>2. GoodKernel(s.crtcs, c, a)
        BY <1>3 DEF a
      <4> QED BY <4>1, <4>2, <1>3 DEF OffSound
    <3>3. \A j \in X : j \in Nat
      BY <1>1 DEF Pipes!ConnectedOf, AreOutputs, IsNaming, D
    <3>4. OffTo(s, 0, s, D, X, a, c, refused)
      BY <1>3, <3>2, <3>3 DEF OffTo
    <3> QED BY <2>2, <2>3, <3>1, <3>4
  <2>4. CASE n # 0
    <3> DEFINE m == n - 1
    <3>1. m \in 0 .. N /\ m \in Nat /\ n = m + 1 /\ n \in 0 .. N /\ m \notin Bad
      BY <1>2, <2>2, <2>4
    <3>2. OffTo(g[m], m, s, D, X, a, c, refused)
      BY <3>1
    <3>3. g[n] = IF m \in X THEN Pipes!SwitchOff(g[m], m, refused) ELSE g[m]
      BY <1>5, <3>1, <2>4 DEF Dimmed
    <3> HIDE DEF m
    <3>4. X \in SUBSET Pipes!ConnectedOf(D)
      BY DEF D
    <3>5. OffTo(g[n], m + 1, s, D, X, a, c, refused)
      <4> DEFINE v == g[m]
                 w == g[n]
      <4>1. OffTo(v, m, s, D, X, a, c, refused) /\ w = IF m \in X THEN Pipes!SwitchOff(v, m, refused) ELSE v
        BY <3>2, <3>3
      <4> HIDE DEF v, w
      <4>2. OffTo(w, m + 1, s, D, X, a, c, refused)
        BY <1>1, <3>1, <3>4, <4>1, OffOne
      <4> QED BY <4>2 DEF w
    <3> QED BY <2>2, <3>1, <3>5
  <2> QED BY <2>3, <2>4
<1>7. OffTo(t, N, s, D, X, a, c, refused)
  BY <1>2, <1>4, <1>6
<1>8. \A j \in X : j < N
  <2>1. ASSUME NEW j \in X PROVE j < N
    <3>1. j \in DOMAIN D
      BY DEF Pipes!ConnectedOf, D
    <3>2. D[j].connector \in DOMAIN dev.ids /\ dev.ids[D[j].connector] = j
      BY <1>1, <3>1 DEF AreOutputs
    <3> QED BY <3>2, <1>1 DEF IsNaming, N
  <2> QED BY <2>1
<1> QED BY <1>3, <1>7, <1>8 DEF OffTo, AllOff, D, a

(***************************************************************************)
(* The card that is opened                                                 *)
(***************************************************************************)

\* What a scan at start finds stays so while no monitor changes.
Found(dev, c, l) ==
    /\ DOMAIN l \subseteq DOMAIN dev.ids
    /\ Pipes!ConnectedOf(dev.displays) = {dev.ids[p] : p \in Granted(c, dev.atomic, l)}
    /\ \A p \in Granted(c, dev.atomic, l) :
          LET x == dev.displays[dev.ids[p]]
          IN  /\ x.connector = p /\ x.crtc = Pipes!FindPipeline(c, dev.atomic, l)[p][2]
              /\ x.native = Native(c, p)
    /\ c.fixed \/ ~dev.atomic \/ Pipes!Plugged(l) \subseteq Granted(c, dev.atomic, l)
    /\ dev.atomic = c.atomic =>
          \A id \in Pipes!ConnectedOf(dev.displays) :
             dev.displays[id].light <=> (Natives(dev.displays) = {id} /\ c.backlights = 1)

Blank(i, a) == [Pipes!NoCard EXCEPT !.card = i, !.atomic = a]

LEMMA NoCardFacts ==
    ASSUME NEW c, IsCard(c), NEW a \in BOOLEAN, NEW i,
           NEW dev, dev = Blank(i, a)
    PROVE  /\ GoodDevice(dev, c) /\ dev.card = i /\ dev.atomic = a /\ dev.searched = FALSE
           /\ DOMAIN dev.displays = {} /\ DOMAIN dev.ids = {} /\ Pipes!ConnectedOf(dev.displays) = {}
<1>1. /\ dev.card = i /\ dev.atomic = a /\ dev.searched = FALSE
      /\ dev.displays = << >> /\ dev.ids = << >>
  BY DEF Pipes!NoCard, Blank
<1>2. DOMAIN << >> = {}
  OBVIOUS
<1>3. IsNaming(dev.ids, c)
  BY <1>1, <1>2 DEF IsNaming
<1>4. Pipes!ConnectedOf(dev.displays) = {}
  BY <1>1, <1>2 DEF Pipes!ConnectedOf
<1>5. GoodDevice(dev, c)
  BY <1>1, <1>2, <1>3, <1>4 DEF GoodDevice, AreOutputs, Apart
<1> QED BY <1>1, <1>2, <1>4, <1>5

LEMMA GrantedPlugged ==
    ASSUME NEW c, IsCard(c), NEW a \in BOOLEAN, NEW l, IsListing(l, c)
    PROVE  /\ Granted(c, a, l) \in SUBSET Pipes!Plugged(l) /\ Pipes!Plugged(l) \in SUBSET (1 .. c.ports)
           /\ \A p \in Granted(c, a, l) : Fits(Pipes!FindPipeline(c, a, l)[p], c, a, p)
<1>1. Assigned(Pipes!FindPipeline(c, a, l), c, a, l)
  BY FindPipelineFacts
<1>2. Pipes!Plugged(l) \in SUBSET (1 .. c.ports)
  BY DEF Pipes!Plugged, IsListing
<1> QED BY <1>1, <1>2 DEF Assigned, Granted

\* A scan finds all monitors when it finds as many displays.
LEMMA AllGranted ==
    ASSUME NEW c, IsCard(c), NEW a \in BOOLEAN, NEW l, IsListing(l, c), NEW ids,
           DOMAIN l \subseteq DOMAIN ids, NEW S, S = {ids[p] : p \in Granted(c, a, l)},
           ~ (Cardinality(S) < Cardinality(Pipes!Plugged(l)))
    PROVE  Pipes!Plugged(l) \subseteq Granted(c, a, l)
<1> DEFINE G == Granted(c, a, l)
           P == Pipes!Plugged(l)
           f == [p \in G |-> ids[p]]
<1>1. G \in SUBSET P /\ P \in SUBSET (1 .. c.ports) /\ G \in SUBSET (1 .. c.ports)
  BY GrantedPlugged
<1>2. /\ IsFiniteSet(G) /\ Cardinality(G) \in Nat
      /\ IsFiniteSet(P) /\ Cardinality(P) \in Nat
  BY <1>1, PortsFinite
<1>3. f \in Surjection(G, S)
  BY DEF Surjection
<1> HIDE DEF f, G, P
<1>4. IsFiniteSet(S) /\ Cardinality(S) <= Cardinality(G)
  BY <1>2, <1>3, FS_Surjection
<1>5. Cardinality(S) \in Nat
  BY <1>4, FS_CardinalityType
<1>6. Cardinality(G) <= Cardinality(P) /\ (Cardinality(P) = Cardinality(G) => P = G)
  BY <1>1, <1>2, FS_Subset
<1>7. ~ (Cardinality(S) < Cardinality(P))
  BY DEF P
<1>8. P = G
  BY <1>2, <1>4, <1>5, <1>6, <1>7
<1> QED BY <1>8 DEF P, G

\* A scan of a card on which nothing was known.
FreshScan(dev, c, l, k) ==
    \A id \in Pipes!ConnectedOf(dev.displays) : FreshlyLit(dev.displays[id], k, dev.atomic)

LEMMA FoundFacts ==
    ASSUME NEW c, IsCard(c), NEW l, IsListing(l, c), NEW k, NEW dev, NEW new,
           IsRescan(new, c, l, k, dev), DOMAIN dev.displays = {},
           c.fixed \/ ~dev.atomic \/ Pipes!Plugged(l) \subseteq Granted(c, dev.atomic, l),
           dev.atomic = c.atomic => ~dev.searched
    PROVE  Found(new, c, l) /\ FreshScan(new, c, l, k)
<1> DEFINE G == Granted(c, dev.atomic, l)
           f == Pipes!FindPipeline(c, dev.atomic, l)
<1>1. /\ new.atomic = dev.atomic /\ DOMAIN l \subseteq DOMAIN new.ids
      /\ Pipes!ConnectedOf(new.displays) = {new.ids[p] : p \in G}
  BY DEF IsRescan
<1>2. \A id : id \notin Pipes!ConnectedOf(dev.displays) /\ ~HadLight(dev, id)
  BY DEF HadLight, Pipes!ConnectedOf
<1>3. ASSUME NEW p \in G
      PROVE  LET x == new.displays[new.ids[p]]
             IN  /\ x.connector = p /\ x.crtc = f[p][2] /\ x.native = Native(c, p)
                 /\ FreshlyLit(x, k, dev.atomic)
                 /\ x.light <=> ~dev.searched /\ Natives(new.displays) = {new.ids[p]} /\ c.backlights = 1
  <2> DEFINE id == new.ids[p]
             x == new.displays[id]
  <2>1. /\ Revised(x, c, k, dev, p, id, f[p])
        /\ x.light <=> \/ HadLight(dev, id)
                       \/ ~dev.searched /\ Natives(new.displays) = {id} /\ c.backlights = 1
    BY DEF IsRescan
  <2> HIDE DEF x, id
  <2>2. /\ x.connector = p /\ x.crtc = f[p][2] /\ x.native = Native(c, p)
        /\ FreshlyLit(x, k, dev.atomic)
        /\ x.light <=> ~dev.searched /\ Natives(new.displays) = {id} /\ c.backlights = 1
    BY <2>1, <1>2 DEF Revised
  <2> QED BY <2>2 DEF x, id
<1>4. \A p \in G : /\ new.displays[new.ids[p]].connector = p
                   /\ new.displays[new.ids[p]].crtc = f[p][2]
                   /\ new.displays[new.ids[p]].native = Native(c, p)
  BY <1>3
<1>5. dev.atomic = c.atomic =>
          \A id \in Pipes!ConnectedOf(new.displays) :
             new.displays[id].light <=> (Natives(new.displays) = {id} /\ c.backlights = 1)
  BY <1>1, <1>3
<1>6. FreshScan(new, c, l, k)
  BY <1>1, <1>3 DEF FreshScan
<1> HIDE DEF G, f
<1>7. c.fixed \/ ~new.atomic \/ Pipes!Plugged(l) \subseteq G
  BY <1>1 DEF G
<1>8. Found(new, c, l)
  BY <1>1, <1>4, <1>5, <1>7 DEF Found, G, f
<1> QED BY <1>6, <1>8

-----------------------------------------------------------------------------
\* A card as InitPath() opens it.
IsOpened(dev, i, c, l, k) ==
    /\ DOMAIN dev = DeviceFields /\ dev.card = i /\ dev.searched = TRUE
    /\ GoodDevice(dev, c) /\ Found(dev, c, l) /\ FreshScan(dev, c, l, k) /\ PanelFirst(dev.displays)

LEMMA OpenedFacts ==
    ASSUME NEW i, IsCard(machine[i]), IsListing(monitors[i], machine[i]),
           crtcs[i] \in Kernels(machine[i]), NEW dev, dev = Pipes!Opened(i)
    PROVE  IsOpened(dev, i, machine[i], monitors[i], crtcs[i])
<1> DEFINE c == machine[i]
           l == monitors[i]
           k == crtcs[i]
           start == [Pipes!NoCard EXCEPT !.card = i, !.atomic = c.atomic]
           r == Pipes!Rescan(c, l, k, start)
           first == r.device
           again == [first EXCEPT !.atomic = FALSE, !.displays = << >>]
           s == Pipes!Rescan(c, l, k, again)
           short == Pipes!Cardinality(Pipes!ConnectedOf(first.displays))
                       < Pipes!CountConnectedConnectors(c, l)
<1>1. dev = IF c.atomic /\ short THEN s.device ELSE first
  BY DEF Pipes!Opened
<1>2. IsCard(c) /\ IsListing(l, c) /\ k \in Kernels(c) /\ c.atomic \in BOOLEAN /\ c.fixed \in BOOLEAN
  BY CardFields
<1> HIDE DEF c, l, k
<1>3. /\ GoodDevice(start, c) /\ start.card = i /\ start.atomic = c.atomic /\ start.searched = FALSE
      /\ DOMAIN start.displays = {} /\ DOMAIN start.ids = {}
  <2> DEFINE a == c.atomic
  <2>1. start = Blank(i, a) /\ a \in BOOLEAN
    BY <1>2 DEF Blank
  <2> HIDE DEF start, a
  <2>2. /\ GoodDevice(start, c) /\ start.card = i /\ start.atomic = a /\ start.searched = FALSE
        /\ DOMAIN start.displays = {} /\ DOMAIN start.ids = {}
    BY <1>2, <2>1, NoCardFacts
  <2> QED BY <2>2 DEF a
<1> HIDE DEF start
<1>4. IsRescan(first, c, l, k, start)
  <2> HIDE DEF first
  <2>1. IsRescan(r.device, c, l, k, start)
    <3> HIDE DEF r
    <3>1. r = Pipes!Rescan(c, l, k, start)
      BY DEF r
    <3> QED BY <3>1, <1>2, <1>3, RescanFacts
  <2> QED BY <2>1 DEF first
<1> HIDE DEF r, first
<1>5. CASE ~ (c.atomic /\ short)
  <2>1. dev = first
    BY <1>1, <1>5
  <2>2. c.fixed \/ ~start.atomic \/ Pipes!Plugged(l) \subseteq Granted(c, start.atomic, l)
    <3>1. SUFFICES ASSUME c.atomic, ~c.fixed
                   PROVE  Pipes!Plugged(l) \subseteq Granted(c, start.atomic, l)
      BY <1>3
    <3>2. ~ (Cardinality(Pipes!ConnectedOf(first.displays)) < Cardinality(Pipes!Plugged(l)))
      BY <1>5, <3>1, SameCardinality DEF Pipes!CountConnectedConnectors
    <3>3. Pipes!ConnectedOf(first.displays) = {first.ids[p] : p \in Granted(c, start.atomic, l)}
          /\ DOMAIN l \subseteq DOMAIN first.ids
      BY <1>4 DEF IsRescan
    <3>4. start.atomic \in BOOLEAN
      BY <1>2, <1>3
    <3> QED BY <3>2, <3>3, <3>4, <1>2, AllGranted
  <2>3. start.atomic = c.atomic => ~start.searched
    BY <1>3
  <2>4. Found(first, c, l) /\ FreshScan(first, c, l, k)
    BY <1>2, <1>3, <1>4, <2>2, <2>3, FoundFacts
  <2>5. DOMAIN first = DeviceFields /\ first.card = i /\ first.searched = TRUE
        /\ GoodDevice(first, c) /\ PanelFirst(first.displays)
    BY <1>3, <1>4 DEF IsRescan
  <2> QED BY <2>1, <2>4, <2>5 DEF IsOpened, c, l, k
<1>6. CASE c.atomic /\ short
  <2>1. dev = s.device
    BY <1>1, <1>6
  <2>2. /\ DOMAIN first = DeviceFields /\ first.card = i /\ first.searched = TRUE
        /\ GoodDevice(first, c)
    BY <1>3, <1>4 DEF IsRescan
  <2>3. /\ again.card = i /\ again.atomic = FALSE /\ again.searched = TRUE
        /\ again.displays = << >> /\ again.ids = first.ids
    BY <2>2 DEF DeviceFields
  <2> HIDE DEF again
  <2>4. DOMAIN again.displays = {} /\ Pipes!ConnectedOf(again.displays) = {}
    BY <2>3 DEF Pipes!ConnectedOf
  <2>5. GoodDevice(again, c)
    BY <2>2, <2>3, <2>4 DEF GoodDevice, AreOutputs, Apart
  <2>6. IsRescan(s.device, c, l, k, again)
    <3> HIDE DEF s
    <3>1. s = Pipes!Rescan(c, l, k, again)
      BY DEF s
    <3> QED BY <3>1, <1>2, <2>5, RescanFacts
  <2> HIDE DEF s
  <2>7. Found(s.device, c, l) /\ FreshScan(s.device, c, l, k)
    <3>1. c.fixed \/ ~again.atomic \/ Pipes!Plugged(l) \subseteq Granted(c, again.atomic, l)
      BY <2>3
    <3>2. again.atomic = c.atomic => ~again.searched
      BY <2>3, <1>6
    <3> QED BY <1>2, <2>4, <2>6, <3>1, <3>2, FoundFacts
  <2>8. DOMAIN s.device = DeviceFields /\ s.device.card = i /\ s.device.searched = TRUE
        /\ GoodDevice(s.device, c) /\ PanelFirst(s.device.displays)
    BY <2>3, <2>6 DEF IsRescan
  <2> QED BY <2>1, <2>7, <2>8 DEF IsOpened, c, l, k
<1> QED BY <1>5, <1>6

\* What a card shows at best, by its connectors and its monitors.
ShowsOf(c, l) == c.fixed \/ Pipes!Plugged(l) = {} \/ \E p \in Pipes!Plugged(l) : Pipes!Reach(c, p) # {}
RankOf(c, l) ==
    IF Pipes!Plugged(l) = {} THEN 0
    ELSE IF Pipes!Plugged(l) \cap c.internal = {} /\ ~c.firmware THEN 1 ELSE 2

\* The cards, their monitors and what the kernel does with them.
CardsSound ==
    /\ machine \in Machines /\ DOMAIN monitors = DOMAIN machine /\ DOMAIN crtcs = DOMAIN machine
    /\ \A i \in DOMAIN machine : IsListing(monitors[i], machine[i])
    /\ \A i \in DOMAIN machine :
          GoodKernel(crtcs[i], machine[i], i = device.card => device.atomic)

\* What a device is when a card was opened, and what is believed of its displays.
DeviceSound ==
    /\ stage \in {"init", "run", "failed"} /\ exchanged \in Nat
    /\ stage = "init" => device.card = 0 /\ exchanged = 0
    /\ stage = "run" => device.card # 0
    /\ IF device.card = 0 THEN device = Pipes!NoCard
       ELSE /\ device.card \in DOMAIN machine /\ DOMAIN device = DeviceFields
            /\ device.searched = TRUE /\ GoodDevice(device, machine[device.card])
    /\ stage = "run" =>
          /\ told = Pipes!ConnectedOf(device.displays) /\ PanelFirst(device.displays)
          /\ \A id \in Pipes!ConnectedOf(device.displays) :
                Lit(device.displays[id], crtcs[device.card])

\* The card that was opened is the best, and all its monitors were found.
Preferring(best) ==
    /\ ShowsOf(machine[best], monitors[best])
    /\ \A i \in DOMAIN machine : DOMAIN monitors[i] # {} /\ ShowsOf(machine[i], monitors[i]) =>
          RankOf(machine[best], monitors[best]) >= RankOf(machine[i], monitors[i])
CardBest ==
    exchanged = 0 =>
        /\ \A i \in tried : ~ShowsOf(machine[i], monitors[i])
        /\ device.card # 0 => /\ Preferring(device.card)
                              /\ Found(device, machine[device.card], monitors[device.card])

PipeInv == CardsSound /\ DeviceSound /\ CardBest

MachinesSound == part = "pipelines" => PipeInv

-----------------------------------------------------------------------------
LEMMA MachineCards ==
    ASSUME NEW m \in Machines
    PROVE  /\ DOMAIN m \subseteq Nat /\ 0 \notin DOMAIN m
           /\ \A i \in DOMAIN m : IsCard(m[i])
           /\ \E n \in Nat : DOMAIN m = 1 .. n
<1>1. m \in Seq(Cards) /\ \A i \in DOMAIN m : IsCard(m[i])
  BY PipelinesAssumption
<1>2. Len(m) \in Nat /\ DOMAIN m = 1 .. Len(m)
  BY <1>1
<1>3. DOMAIN m \subseteq Nat /\ 0 \notin DOMAIN m /\ \E n \in Nat : DOMAIN m = 1 .. n
  <2> DEFINE n == Len(m)
  <2>1. n \in Nat /\ DOMAIN m = 1 .. n
    BY <1>2
  <2> HIDE DEF n
  <2>2. 1 .. n \subseteq Nat /\ 0 \notin 1 .. n
    BY <2>1
  <2> QED BY ONLY <2>1, <2>2
<1> QED BY <1>1, <1>3

LEMMA BootFacts ==
    ASSUME NEW c, IsCard(c), NEW l, IsListing(l, c), NEW k \in Pipes!BootStates(c, l)
    PROVE  GoodKernel(k, c, TRUE)
<1> DEFINE dark == [route |-> [p \in 1 .. c.ports |-> 0], mode |-> [r \in 1 .. c.crtcs |-> 0]]
<1>0. c.crtcs \in Nat /\ c.ports \in Nat
  BY CardFields
<1>1. \/ k = dark
      \/ \E p \in Pipes!Plugged(l) : \E r \in Pipes!Reach(c, p) : k = Pipes!SetCrtc(dark, r, {p}, Head(l[p]))
  BY DEF Pipes!BootStates
<1>2. CASE k = dark
  <2>1. k.route = [p \in 1 .. c.ports |-> 0] /\ k.mode = [r \in 1 .. c.crtcs |-> 0]
    BY <1>2
  <2>2. k \in Kernels(c)
    BY <1>0, <1>2 DEF Kernels
  <2>3. Routed(k, c)
    BY <2>1 DEF Routed
  <2>4. Pipes!Consistent(k)
    BY <1>0, <2>1 DEF Pipes!Consistent
  <2> QED BY <2>2, <2>3, <2>4 DEF GoodKernel
<1>3. ASSUME NEW p \in Pipes!Plugged(l), NEW r \in Pipes!Reach(c, p),
             k = Pipes!SetCrtc(dark, r, {p}, Head(l[p]))
      PROVE  GoodKernel(k, c, TRUE)
  <2> DEFINE m == Head(l[p])
             route == [q \in 1 .. c.ports |-> IF q = p THEN r ELSE 0]
             mode == [q \in 1 .. c.crtcs |-> IF q = r THEN m ELSE 0]
  <2>1. p \in 1 .. c.ports /\ l[p] \in Lists
    BY DEF Pipes!Plugged, IsListing
  <2>2. m \in DOMAIN Timings /\ m # 0
    <3>1. l[p] \in Seq(DOMAIN Timings) /\ l[p] # << >>
      BY <2>1, PipelinesAssumption
    <3>2. m \in DOMAIN Timings
      BY <3>1
    <3>3. 0 \notin DOMAIN Timings
      BY PipelinesAssumption
    <3> QED BY <3>2, <3>3
  <2>3. r \in 1 .. c.crtcs
    <3>1. PICK e \in DOMAIN c.encoders[p] : r \in c.encoders[p][e]
      BY DEF Pipes!Reach, Pipes!Range
    <3> QED BY <2>1, <3>1, CardFields
  <2>4. k = [route |-> route, mode |-> mode]
    <3>1. dark.route = [q \in 1 .. c.ports |-> 0] /\ dark.mode = [q \in 1 .. c.crtcs |-> 0]
      OBVIOUS
    <3> HIDE DEF m, dark
    <3> QED BY <1>3, <3>1 DEF Pipes!SetCrtc, m
  <2>5. route \in [1 .. c.ports -> 0 .. c.crtcs] /\ mode \in [1 .. c.crtcs -> {0} \cup DOMAIN Timings]
    <3>1. r \in 0 .. c.crtcs /\ 0 \in 0 .. c.crtcs
      BY <1>0, <2>3
    <3> HIDE DEF m
    <3> QED BY <2>2, <3>1
  <2>6. /\ \A q \in 1 .. c.ports : k.route[q] = IF q = p THEN r ELSE 0
        /\ \A q \in 1 .. c.crtcs : k.mode[q] = IF q = r THEN m ELSE 0
        /\ DOMAIN k.route = 1 .. c.ports /\ DOMAIN k.mode = 1 .. c.crtcs
    <3> HIDE DEF m
    <3> QED BY <2>4
  <2> HIDE DEF m
  <2>7. k \in Kernels(c)
    <3> HIDE DEF route, mode
    <3> QED BY <2>4, <2>5 DEF Kernels
  <2>8. Routed(k, c)
    BY <2>6 DEF Routed
  <2>9. Pipes!Consistent(k)
    <3>1. ASSUME NEW q \in 1 .. c.crtcs PROVE k.mode[q] # 0 <=> \E x \in 1 .. c.ports : k.route[x] = q
      <4>1. q # 0
        BY <1>0
      <4>2. k.mode[q] # 0 <=> q = r
        BY <2>2, <2>6
      <4>3. (\E x \in 1 .. c.ports : k.route[x] = q) <=> q = r
        BY <2>1, <2>6, <4>1
      <4> QED BY <4>2, <4>3
    <3> QED BY <2>6, <3>1 DEF Pipes!Consistent
  <2> QED BY <2>7, <2>8, <2>9 DEF GoodKernel
<1> QED BY <1>1, <1>2, <1>3

LEMMA MonitorsListed ==
    ASSUME NEW c, NEW l \in Pipes!Monitors(c)
    PROVE  IsListing(l, c)
<1>1. PICK listed \in SUBSET (1 .. c.ports) : l \in [listed -> Lists \cup {<< >>}]
  BY DEF Pipes!Monitors
<1> QED BY <1>1 DEF IsListing

LEMMA PipeInit == Pipes!Init => PipeInv
<1> SUFFICES ASSUME Pipes!Init PROVE PipeInv
  OBVIOUS
<1>1. machine \in Machines /\ tried = {} /\ device = Pipes!NoCard /\ stage = "init" /\ told = {} /\ exchanged = 0
  BY DEF Pipes!Init
<1>2. \A i \in DOMAIN machine : IsCard(machine[i]) /\ i # 0
  BY <1>1, MachineCards
<1>3. DOMAIN monitors = DOMAIN machine /\ \A i \in DOMAIN machine : monitors[i] \in Pipes!Monitors(machine[i])
  BY DEF Pipes!Init
<1>4. DOMAIN crtcs = DOMAIN machine /\ \A i \in DOMAIN machine : crtcs[i] \in Pipes!BootStates(machine[i], monitors[i])
  BY DEF Pipes!Init
<1>5. device.card = 0
  BY <1>1 DEF Pipes!NoCard
<1>6. \A i \in DOMAIN machine : IsListing(monitors[i], machine[i])
  BY <1>3, MonitorsListed
<1>7. ASSUME NEW i \in DOMAIN machine
      PROVE  GoodKernel(crtcs[i], machine[i], i = device.card => device.atomic)
  <2>1. GoodKernel(crtcs[i], machine[i], TRUE)
    BY <1>2, <1>4, <1>6, BootFacts
  <2>2. i # device.card
    BY <1>2, <1>5
  <2> QED BY <2>1, <2>2 DEF GoodKernel
<1> QED BY <1>1, <1>3, <1>4, <1>5, <1>6, <1>7 DEF PipeInv, CardsSound, DeviceSound, CardBest

-----------------------------------------------------------------------------
\* A card that was opened shows something unless it cannot.
LEMMA UsableFacts ==
    ASSUME NEW c, IsCard(c), NEW l, IsListing(l, c), NEW dev, GoodDevice(dev, c), Found(dev, c, l)
    PROVE  Pipes!Usable(c, l, dev) <=> ShowsOf(c, l)
<1> DEFINE a == dev.atomic
           G == Granted(c, a, l)
           P == Pipes!Plugged(l)
           on == Pipes!ConnectedOf(dev.displays)
           f == Pipes!FindPipeline(c, a, l)
<1>1. a \in BOOLEAN
  BY DEF GoodDevice
<1>2. /\ on = {dev.ids[p] : p \in G}
      /\ c.fixed \/ ~a \/ P \subseteq G
  BY DEF Found
<1>3. G \in SUBSET P /\ P \in SUBSET (1 .. c.ports) /\ \A p \in G : Fits(f[p], c, a, p)
  BY <1>1, GrantedPlugged
<1>4. Assigned(f, c, a, l)
  BY <1>1, FindPipelineFacts
<1>5. Pipes!CountConnectedConnectors(c, l) = 0 <=> c.fixed \/ P = {}
  <2>1. IsFiniteSet(P)
    BY <1>3, PortsFinite
  <2>2. Cardinality(P) = 0 <=> P = {}
    BY <2>1, FS_EmptySet
  <2> QED BY <2>2, SameCardinality DEF Pipes!CountConnectedConnectors
<1>6. on # {} <=> G # {}
  BY <1>2
<1>7. Pipes!Usable(c, l, dev) <=> c.fixed \/ P = {} \/ G # {}
  BY <1>5, <1>6 DEF Pipes!Usable
<1>8. \A p \in G : p \in P /\ Pipes!Reach(c, p) # {}
  BY <1>3 DEF Fits
<1>9. ASSUME ~c.fixed, NEW p \in P, Pipes!Reach(c, p) # {} PROVE G # {}
  <2>1. CASE p \in G
    BY <2>1
  <2>2. CASE p \notin G
    <3>1. ~a
      BY <1>2, <1>9, <2>2
    <3>2. p \in DOMAIN l /\ f[p] = Pipes!NoPipeline
      BY <2>2 DEF Granted, Pipes!Plugged
    <3>3. PICK r \in Pipes!Reach(c, p) : TRUE
      BY <1>9
    <3>4. Assigned(f, c, a, l) /\ a = FALSE
      BY <1>1, <1>4, <3>1
    <3>5. p \in Pipes!Plugged(l)
      OBVIOUS
    <3> HIDE DEF f, P
    <3>6. Taken(f, l, r)
      <4> HIDE DEF a
      <4> QED BY <3>2, <3>3, <3>4, <3>5, LegacyTakesAll
    <3> QED BY <3>6 DEF Taken, Granted, f
  <2> QED BY <2>1, <2>2
<1> QED BY <1>7, <1>8, <1>9 DEF ShowsOf

Score(c, l) ==
    Cardinality(Pipes!Plugged(l))
    + (IF Pipes!Plugged(l) \cap c.internal # {} \/ (Pipes!Plugged(l) # {} /\ c.firmware)
       THEN 10000 ELSE IF Pipes!Plugged(l) # {} THEN 5000 ELSE 100)

LEMMA ScoreFacts ==
    ASSUME NEW c, IsCard(c), NEW l, IsListing(l, c)
    PROVE  /\ Score(c, l) \in Nat /\ Score(c, l) <= 15000
           /\ RankOf(c, l) = 0 => Score(c, l) = 100
           /\ RankOf(c, l) = 1 => Score(c, l) > 5000 /\ Score(c, l) <= 10000
           /\ RankOf(c, l) = 2 => Score(c, l) > 10000
           /\ RankOf(c, l) \in {0, 1, 2}
<1> DEFINE P == Pipes!Plugged(l)
           n == Cardinality(P)
<1>1. P \in SUBSET (1 .. c.ports)
  BY DEF Pipes!Plugged, IsListing
<1>2. IsFiniteSet(P) /\ n \in Nat /\ n <= 5000
  <2>1. IsFiniteSet(P) /\ n \in Nat /\ n <= c.ports /\ c.ports \in Nat /\ c.ports <= 5000
    BY <1>1, PortsFinite, CardFields
  <2> HIDE DEF n, P
  <2> QED BY <2>1
<1>3. n = 0 <=> P = {}
  BY <1>2, FS_EmptySet
<1>4. Score(c, l) = n + (IF P \cap c.internal # {} \/ (P # {} /\ c.firmware)
                         THEN 10000 ELSE IF P # {} THEN 5000 ELSE 100)
  BY DEF Score
<1>5. RankOf(c, l) = IF P = {} THEN 0 ELSE IF P \cap c.internal = {} /\ ~c.firmware THEN 1 ELSE 2
  BY DEF RankOf
<1> HIDE DEF n, P
<1>6. CASE P = {}
  <2>1. Score(c, l) = 100 /\ RankOf(c, l) = 0
    BY <1>3, <1>4, <1>5, <1>6
  <2> QED BY <2>1
<1>7. CASE P # {} /\ P \cap c.internal = {} /\ ~c.firmware
  <2>1. Score(c, l) = n + 5000 /\ RankOf(c, l) = 1 /\ n # 0
    BY <1>3, <1>4, <1>5, <1>7
  <2> QED BY <2>1, <1>2
<1>8. CASE P # {} /\ ~ (P \cap c.internal = {} /\ ~c.firmware)
  <2>1. Score(c, l) = n + 10000 /\ RankOf(c, l) = 2 /\ n # 0
    BY <1>3, <1>4, <1>5, <1>8
  <2> QED BY <2>1, <1>2
<1> QED BY <1>6, <1>7, <1>8

\* A card of a higher rank has a higher score.
LEMMA ScoreRank ==
    ASSUME NEW c, IsCard(c), NEW l, IsListing(l, c), NEW e, IsCard(e), NEW m, IsListing(m, e),
           Score(c, l) >= Score(e, m)
    PROVE  RankOf(c, l) >= RankOf(e, m)
<1>1. /\ Score(c, l) \in Nat /\ Score(c, l) <= 15000
      /\ RankOf(c, l) = 0 => Score(c, l) = 100
      /\ RankOf(c, l) = 1 => Score(c, l) > 5000 /\ Score(c, l) <= 10000
      /\ RankOf(c, l) = 2 => Score(c, l) > 10000
      /\ RankOf(c, l) \in {0, 1, 2}
  BY ScoreFacts
<1>2. /\ Score(e, m) \in Nat /\ Score(e, m) <= 15000
      /\ RankOf(e, m) = 0 => Score(e, m) = 100
      /\ RankOf(e, m) = 1 => Score(e, m) > 5000 /\ Score(e, m) <= 10000
      /\ RankOf(e, m) = 2 => Score(e, m) > 10000
      /\ RankOf(e, m) \in {0, 1, 2}
  BY ScoreFacts
<1> QED BY <1>1, <1>2

LEMMA BestFacts ==
    ASSUME CardsSound, Pipes!Candidates # {}, NEW b, b = Pipes!Best
    PROVE  /\ b \in Pipes!Candidates
           /\ \A j \in Pipes!Candidates :
                 RankOf(machine[b], monitors[b]) >= RankOf(machine[j], monitors[j])
<1> DEFINE S(i) == Score(machine[i], monitors[i])
           C == Pipes!Candidates
           scores == {S(i) : i \in C}
<1>1. C \subseteq DOMAIN machine
  BY DEF Pipes!Candidates
<1>2. DOMAIN machine \subseteq Nat /\ \A i \in DOMAIN machine : IsCard(machine[i]) /\ IsListing(monitors[i], machine[i])
  BY MachineCards DEF CardsSound
<1>3. \A i \in C : S(i) \in Nat /\ S(i) <= 15000 /\ Pipes!ScoreCard(i) = S(i)
  <2>1. ASSUME NEW i \in C PROVE S(i) \in Nat /\ S(i) <= 15000
    BY <1>1, <1>2, ScoreFacts
  <2>2. ASSUME NEW i \in C PROVE Pipes!ScoreCard(i) = S(i)
    BY SameCardinality DEF Pipes!ScoreCard, Score
  <2> QED BY <2>1, <2>2
<1> HIDE DEF S, C
<1>4. PICK s \in scores : \A x \in scores : s >= x
  <2>1. scores \in SUBSET Nat /\ scores # {}
    BY <1>3 DEF C
  <2> DEFINE N == 15000
  <2>2. N \in Nat /\ \A x \in scores : x <= N
    BY <1>3
  <2> HIDE DEF scores, N
  <2> QED BY <2>1, <2>2, GreatestNatural
<1> DEFINE T == {i \in C : S(i) = s}
<1>5. PICK m \in T : \A x \in T : m <= x
  <2>1. T \in SUBSET Nat /\ T # {}
    BY <1>1, <1>2
  <2> HIDE DEF T
  <2> QED BY <2>1, LeastNatural
<1>6. m \in C /\ \A j \in C : Pipes!ScoreCard(m) > Pipes!ScoreCard(j)
                              \/ (Pipes!ScoreCard(m) = Pipes!ScoreCard(j) /\ m <= j)
  <2>1. m \in C /\ S(m) = s
    BY <1>5
  <2>2. ASSUME NEW j \in C PROVE S(m) > S(j) \/ (S(m) = S(j) /\ m <= j)
    <3>1. S(m) \in Nat /\ S(j) \in Nat /\ s >= S(j)
      BY <1>3, <1>4, <2>1
    <3>2. S(j) = s => m <= j
      BY <1>5
    <3> QED BY <2>1, <3>1, <3>2
  <2> QED BY <2>1, <2>2, <1>3
<1>7. b \in C /\ \A j \in C : Pipes!ScoreCard(b) > Pipes!ScoreCard(j)
                              \/ (Pipes!ScoreCard(b) = Pipes!ScoreCard(j) /\ b <= j)
  BY <1>6 DEF Pipes!Best, C
<1>8. ASSUME NEW j \in C PROVE RankOf(machine[b], monitors[b]) >= RankOf(machine[j], monitors[j])
  <2>1. S(b) \in Nat /\ S(j) \in Nat /\ (S(b) > S(j) \/ S(b) = S(j))
    BY <1>3, <1>7
  <2>2. Score(machine[b], monitors[b]) >= Score(machine[j], monitors[j])
    BY <2>1 DEF S
  <2>3. /\ IsCard(machine[b]) /\ IsListing(monitors[b], machine[b])
        /\ IsCard(machine[j]) /\ IsListing(monitors[j], machine[j])
    BY <1>1, <1>2, <1>7
  <2> QED BY <2>2, <2>3, ScoreRank
<1> QED BY <1>7, <1>8 DEF C

-----------------------------------------------------------------------------
\* A display that only changed its power, its mode or what needs programming.
Retold(x, y, c) ==
    /\ x \in Outputs(c) /\ SameHead(x, y) /\ x.light = y.light
    /\ x.configs = y.configs /\ x.config \in x.configs
AllRetold(D, E, c) == DOMAIN D = DOMAIN E /\ \A id \in DOMAIN E : Retold(D[id], E[id], c)

SameDevice(new, dev, D, c) ==
    /\ DOMAIN new = DeviceFields /\ new.card = dev.card /\ new.atomic = dev.atomic
    /\ new.searched = TRUE /\ new.ids = dev.ids /\ new.displays = D
    /\ GoodDevice(new, c)
    /\ Pipes!ConnectedOf(D) = Pipes!ConnectedOf(dev.displays)
    /\ PanelFirst(dev.displays) => PanelFirst(D)
    /\ \A l : Found(dev, c, l) => Found(new, c, l)

LEMMA RetoldFacts ==
    ASSUME NEW c, NEW dev, GoodDevice(dev, c), DOMAIN dev = DeviceFields, dev.searched = TRUE,
           NEW D, AllRetold(D, dev.displays, c), NEW new, new = [dev EXCEPT !.displays = D]
    PROVE  SameDevice(new, dev, D, c)
<1> DEFINE E == dev.displays
           a == dev.atomic
<1>1. /\ DOMAIN new = DeviceFields /\ new.card = dev.card /\ new.atomic = a
      /\ new.searched = TRUE /\ new.ids = dev.ids /\ new.displays = D
  BY DEF DeviceFields
<1>2. DOMAIN D = DOMAIN E /\ \A id \in DOMAIN E : Retold(D[id], E[id], c)
  BY DEF AllRetold
<1>3. AreOutputs(E, dev.ids, c, a) /\ Apart(E, a) /\ a \in BOOLEAN /\ IsNaming(dev.ids, c)
  BY DEF GoodDevice
<1> HIDE DEF E, a
<1>4. \A id \in DOMAIN E : /\ D[id].connector = E[id].connector /\ D[id].crtc = E[id].crtc
                           /\ D[id].plane = E[id].plane /\ D[id].connected = E[id].connected
                           /\ D[id].native = E[id].native /\ D[id].internal = E[id].internal
                           /\ D[id].light = E[id].light
  BY <1>2 DEF Retold, SameHead
<1>5. Pipes!ConnectedOf(D) = Pipes!ConnectedOf(E) /\ Pipes!ConnectedOf(E) \subseteq DOMAIN E
  BY <1>2, <1>4 DEF Pipes!ConnectedOf
<1>6. Apart(D, a)
  BY <1>3, <1>4, <1>5 DEF Apart
<1>7. AreOutputs(D, dev.ids, c, a)
  <2>1. ASSUME NEW id \in DOMAIN E PROVE IsOutput(D[id], c, a)
    <3>1. IsOutput(E[id], c, a) /\ Retold(D[id], E[id], c)
      BY <1>2, <1>3 DEF AreOutputs
    <3> QED BY <3>1 DEF IsOutput, Retold, SameHead
  <2> QED BY <2>1, <1>2, <1>3, <1>4 DEF AreOutputs
<1>8. GoodDevice(new, c)
  BY <1>1, <1>3, <1>6, <1>7 DEF GoodDevice
<1>9. PanelFirst(E) => PanelFirst(D)
  BY <1>4, <1>5 DEF PanelFirst
<1>10. Natives(D) = Natives(E)
  BY <1>4, <1>5 DEF Natives
<1>11. ASSUME NEW l, Found(dev, c, l) PROVE Found(new, c, l)
  <2>1. \A p \in Granted(c, a, l) : dev.ids[p] \in DOMAIN E
    BY <1>5, <1>11 DEF Found, E, a
  <2>2. \A p \in Granted(c, a, l) :
           /\ D[dev.ids[p]].connector = p
           /\ D[dev.ids[p]].crtc = Pipes!FindPipeline(c, a, l)[p][2]
           /\ D[dev.ids[p]].native = Native(c, p)
    BY <1>4, <1>11, <2>1 DEF Found, E, a
  <2>3. a = c.atomic => \A id \in Pipes!ConnectedOf(D) : D[id].light <=> (Natives(D) = {id} /\ c.backlights = 1)
    <3>1. a = c.atomic => \A id \in Pipes!ConnectedOf(E) : E[id].light <=> (Natives(E) = {id} /\ c.backlights = 1)
      BY <1>11 DEF Found, E, a
    <3> QED BY <3>1, <1>4, <1>5, <1>10
  <2>4. /\ DOMAIN l \subseteq DOMAIN new.ids
        /\ Pipes!ConnectedOf(new.displays) = {new.ids[p] : p \in Granted(c, new.atomic, l)}
        /\ c.fixed \/ ~new.atomic \/ Pipes!Plugged(l) \subseteq Granted(c, new.atomic, l)
    BY <1>1, <1>5, <1>11 DEF Found, E, a
  <2> QED BY <1>1, <2>2, <2>3, <2>4 DEF Found
<1> QED BY <1>1, <1>5, <1>8, <1>9, <1>11 DEF SameDevice, E, a

\* A display that may be darker is one of these.
LEMMA OffRetold ==
    ASSUME NEW c, NEW dev, GoodDevice(dev, c), NEW s, OffSound(s, dev.displays, dev.atomic, c)
    PROVE  AllRetold(s.displays, dev.displays, c)
<1>1. AreOutputs(dev.displays, dev.ids, c, dev.atomic)
  BY DEF GoodDevice
<1> QED BY <1>1 DEF OffSound, Darker, AllRetold, Retold, AreOutputs, IsOutput

LEMMA CandidateFacts ==
    ASSUME CardsSound, NEW i \in DOMAIN machine
    PROVE  /\ IsCard(machine[i]) /\ IsListing(monitors[i], machine[i]) /\ i \in Nat /\ i # 0
           /\ crtcs[i] \in Kernels(machine[i]) /\ Routed(crtcs[i], machine[i])
           /\ (i = device.card => device.atomic) => Pipes!Consistent(crtcs[i])
<1>1. machine \in Machines /\ IsListing(monitors[i], machine[i])
      /\ GoodKernel(crtcs[i], machine[i], i = device.card => device.atomic)
  BY DEF CardsSound
<1>2. IsCard(machine[i]) /\ i \in Nat /\ i # 0
  BY <1>1, MachineCards
<1> QED BY <1>1, <1>2 DEF GoodKernel

LEMMA OpenStep ==
    ASSUME PipeInv, NEW refused \in BOOLEAN, Pipes!InitPath(refused)
    PROVE  PipeInv'
<1>1. /\ CardsSound /\ DeviceSound /\ CardBest
      /\ stage = "init" /\ Pipes!Candidates # {}
      /\ machine' = machine /\ monitors' = monitors /\ exchanged' = exchanged
  BY DEF PipeInv, Pipes!InitPath
<1>2. device.card = 0 /\ exchanged = 0 /\ device = Pipes!NoCard
  BY <1>1 DEF DeviceSound
<1>0. PICK b : b = Pipes!Best
  OBVIOUS
<1> DEFINE c == machine[b]
           l == monitors[b]
           k == crtcs[b]
<1>3. /\ b \in Pipes!Candidates
      /\ \A j \in Pipes!Candidates : RankOf(c, l) >= RankOf(machine[j], monitors[j])
  BY <1>0, <1>1, BestFacts
<1>4. b \in DOMAIN machine /\ b \notin tried
  BY <1>3 DEF Pipes!Candidates
<1>5. PICK dev \in {Pipes!Opened(b)} : \E off \in {Pipes!SwitchedOff(dev, Pipes!ConnectedOf(dev.displays), refused)} :
          IF Pipes!Usable(c, l, dev)
          THEN /\ device' = [dev EXCEPT !.displays = off.displays]
               /\ crtcs' = [crtcs EXCEPT ![b] = off.crtcs]
               /\ stage' = IF off.failed THEN "failed" ELSE "run"
               /\ told' = Pipes!ConnectedOf(dev.displays)
               /\ UNCHANGED tried
          ELSE tried' = tried \cup {b} /\ UNCHANGED <<device, crtcs, stage, told>>
  BY <1>0 DEF Pipes!InitPath
<1> DEFINE X == Pipes!ConnectedOf(dev.displays)
<1>6. PICK off \in {Pipes!SwitchedOff(dev, X, refused)} :
          IF Pipes!Usable(c, l, dev)
          THEN /\ device' = [dev EXCEPT !.displays = off.displays]
               /\ crtcs' = [crtcs EXCEPT ![b] = off.crtcs]
               /\ stage' = IF off.failed THEN "failed" ELSE "run"
               /\ told' = X
               /\ UNCHANGED tried
          ELSE tried' = tried \cup {b} /\ UNCHANGED <<device, crtcs, stage, told>>
  BY <1>5
<1>7. /\ IsCard(c) /\ IsListing(l, c) /\ k \in Kernels(c) /\ Routed(k, c) /\ Pipes!Consistent(k)
      /\ b \in Nat /\ b # 0
  BY <1>1, <1>2, <1>4, CandidateFacts
<1>8. dev = Pipes!Opened(b)
  BY <1>5
<1>9. IsOpened(dev, b, c, l, k)
  BY <1>7, <1>8, OpenedFacts
<1>10. /\ DOMAIN dev = DeviceFields /\ dev.card = b /\ dev.searched = TRUE
       /\ GoodDevice(dev, c) /\ Found(dev, c, l) /\ PanelFirst(dev.displays)
  BY <1>9 DEF IsOpened
<1>11. GoodKernel(k, c, dev.atomic) /\ k = crtcs[dev.card]
  BY <1>7, <1>10 DEF GoodKernel
<1>12. /\ OffSound(off, dev.displays, dev.atomic, c)
       /\ \A j \in X : ~off.displays[j].powered \/ off.failed
  <2>1. off = Pipes!SwitchedOff(dev, X, refused) /\ X \in SUBSET Pipes!ConnectedOf(dev.displays)
    BY <1>6
  <2> HIDE DEF X, c, k
  <2>2. AllOff(off, dev, X, refused, c, k)
    BY <2>1, <1>7, <1>10, <1>11, SwitchedOffFacts
  <2> QED BY <2>2 DEF AllOff
<1>13. Pipes!Usable(c, l, dev) <=> ShowsOf(c, l)
  BY <1>7, <1>10, UsableFacts
<1>14. \A i \in DOMAIN machine :
           DOMAIN monitors[i] # {} /\ ShowsOf(machine[i], monitors[i]) => i \in Pipes!Candidates
  BY <1>1, <1>2 DEF CardBest, Pipes!Candidates
<1>15. CASE Pipes!Usable(c, l, dev)
  <2>1. /\ device' = [dev EXCEPT !.displays = off.displays]
        /\ crtcs' = [crtcs EXCEPT ![b] = off.crtcs]
        /\ stage' = IF off.failed THEN "failed" ELSE "run"
        /\ told' = X /\ tried' = tried
    BY <1>6, <1>15
  <2>2. AllRetold(off.displays, dev.displays, c)
    BY <1>10, <1>12, OffRetold
  <2>3. SameDevice(device', dev, off.displays, c)
    <3> DEFINE new == device'
               D == off.displays
    <3>1. new = [dev EXCEPT !.displays = D] /\ AllRetold(D, dev.displays, c)
      BY <2>1, <2>2
    <3> HIDE DEF new, D, c
    <3>2. SameDevice(new, dev, D, c)
      BY <3>1, <1>10, RetoldFacts
    <3> QED BY <3>2 DEF new, D
  <2>4. /\ device'.card = b /\ device'.atomic = dev.atomic /\ device'.searched = TRUE
        /\ DOMAIN device' = DeviceFields /\ device'.displays = off.displays
        /\ GoodDevice(device', c) /\ Found(device', c, l) /\ PanelFirst(device'.displays)
        /\ Pipes!ConnectedOf(device'.displays) = X
    BY <2>3, <1>10 DEF SameDevice
  <2>5. GoodKernel(off.crtcs, c, dev.atomic)
    BY <1>12 DEF OffSound
  <2>6. CardsSound'
    <3>1. DOMAIN crtcs' = DOMAIN machine /\ crtcs'[b] = off.crtcs
          /\ \A i \in DOMAIN machine : i # b => crtcs'[i] = crtcs[i]
      BY <2>1, <1>1, <1>4 DEF CardsSound
    <3>2. ASSUME NEW i \in DOMAIN machine
          PROVE  GoodKernel(crtcs'[i], machine[i], i = device'.card => device'.atomic)
      <4>1. CASE i = b
        BY <4>1, <3>1, <2>4, <2>5 DEF GoodKernel
      <4>2. CASE i # b
        <5>1. /\ crtcs[i] \in Kernels(machine[i]) /\ Routed(crtcs[i], machine[i])
              /\ Pipes!Consistent(crtcs[i])
          BY <1>1, <1>2, CandidateFacts
        <5> QED BY <4>2, <3>1, <5>1 DEF GoodKernel
      <4> QED BY <4>1, <4>2
    <3> QED BY <1>1, <3>1, <3>2 DEF CardsSound
  <2>7. ASSUME stage' = "run"
        PROVE  \A id \in X : Lit(device'.displays[id], crtcs'[b])
    <3>1. ~off.failed
      BY <2>1, <2>7
    <3> QED BY <3>1, <1>12, <2>4 DEF Lit
  <2>8. DeviceSound'
    <3>1. stage' \in {"init", "run", "failed"} /\ stage' # "init"
      BY <2>1
    <3>2. exchanged' \in Nat
      BY <1>1 DEF DeviceSound
    <3>3. device'.card # 0 /\ device'.card \in DOMAIN machine'
          /\ GoodDevice(device', machine'[device'.card])
      BY <1>1, <1>4, <1>7, <2>4
    <3>4. stage' = "run" => /\ told' = Pipes!ConnectedOf(device'.displays) /\ PanelFirst(device'.displays)
                            /\ \A id \in Pipes!ConnectedOf(device'.displays) :
                                  Lit(device'.displays[id], crtcs'[device'.card])
      BY <2>1, <2>4, <2>7
    <3> QED BY <3>1, <3>2, <3>3, <3>4, <2>4 DEF DeviceSound
  <2>9. CardBest'
    <3>1. Preferring(b)
      BY <1>3, <1>13, <1>14, <1>15 DEF Preferring
    <3>2. /\ ShowsOf(machine'[b], monitors'[b])
          /\ \A i \in DOMAIN machine' :
                DOMAIN monitors'[i] # {} /\ ShowsOf(machine'[i], monitors'[i]) =>
                   RankOf(machine'[b], monitors'[b]) >= RankOf(machine'[i], monitors'[i])
      BY <3>1, <1>1 DEF Preferring
    <3>3. \A i \in tried' : ~ShowsOf(machine'[i], monitors'[i])
      BY <1>1, <1>2, <2>1 DEF CardBest
    <3>4. Found(device', machine'[b], monitors'[b])
      BY <1>1, <2>4
    <3> QED BY <2>4, <3>2, <3>3, <3>4 DEF CardBest, Preferring
  <2> QED BY <2>6, <2>8, <2>9 DEF PipeInv
<1>16. CASE ~Pipes!Usable(c, l, dev)
  <2>1. /\ tried' = tried \cup {b} /\ device' = device /\ crtcs' = crtcs /\ stage' = stage
        /\ told' = told
    BY <1>6, <1>16
  <2>2. CardsSound'
    BY <1>1, <2>1 DEF CardsSound
  <2>3. DeviceSound'
    BY <1>1, <2>1 DEF DeviceSound
  <2>4. CardBest'
    <3>1. ~ShowsOf(machine[b], monitors[b])
      BY <1>13, <1>16
    <3>2. \A i \in tried' : ~ShowsOf(machine'[i], monitors'[i])
      BY <1>1, <1>2, <2>1, <3>1 DEF CardBest
    <3> QED BY <1>1, <1>2, <2>1, <3>2 DEF CardBest
  <2> QED BY <2>2, <2>3, <2>4 DEF PipeInv
<1> QED BY <1>15, <1>16

LEMMA NoCardStep ==
    ASSUME PipeInv, Pipes!NoCardLeft
    PROVE  PipeInv'
<1>1. /\ CardsSound /\ DeviceSound /\ CardBest /\ stage = "init" /\ stage' = "failed"
      /\ machine' = machine /\ monitors' = monitors /\ exchanged' = exchanged /\ tried' = tried
      /\ device' = device /\ crtcs' = crtcs /\ told' = told
  BY DEF PipeInv, Pipes!NoCardLeft
<1>2. CardsSound'
  BY <1>1 DEF CardsSound
<1>3. DeviceSound'
  BY <1>1 DEF DeviceSound
<1>4. CardBest'
  BY <1>1 DEF CardBest, Preferring
<1> QED BY <1>2, <1>3, <1>4 DEF PipeInv

\* A scan that nothing changed before finds what there was.
LEMMA RefoundFacts ==
    ASSUME NEW c, NEW l, NEW k, NEW dev, NEW new, Found(dev, c, l), dev.searched = TRUE,
           GoodDevice(dev, c), IsRescan(new, c, l, k, dev)
    PROVE  Found(new, c, l)
<1> DEFINE G == Granted(c, dev.atomic, l)
           f == Pipes!FindPipeline(c, dev.atomic, l)
           E == dev.displays
           D == new.displays
<1>1. /\ new.atomic = dev.atomic
      /\ DOMAIN new.ids = DOMAIN dev.ids \cup DOMAIN l
      /\ \A p \in DOMAIN dev.ids : new.ids[p] = dev.ids[p]
      /\ Pipes!ConnectedOf(D) = {new.ids[p] : p \in G}
      /\ \A p \in G : /\ Revised(D[new.ids[p]], c, k, dev, p, new.ids[p], f[p])
                      /\ D[new.ids[p]].light <=> \/ HadLight(dev, new.ids[p])
                                                 \/ ~dev.searched /\ Natives(D) = {new.ids[p]} /\ c.backlights = 1
  BY DEF IsRescan
<1>2. /\ DOMAIN l \subseteq DOMAIN dev.ids
      /\ Pipes!ConnectedOf(E) = {dev.ids[p] : p \in G}
      /\ \A p \in G : E[dev.ids[p]].native = Native(c, p)
      /\ c.fixed \/ ~dev.atomic \/ Pipes!Plugged(l) \subseteq G
      /\ dev.atomic = c.atomic =>
            \A id \in Pipes!ConnectedOf(E) : E[id].light <=> (Natives(E) = {id} /\ c.backlights = 1)
  BY DEF Found
<1>3. G \subseteq DOMAIN l
  BY DEF Granted
<1> HIDE DEF G, f, E, D
<1>4. \A p \in G : new.ids[p] = dev.ids[p]
  BY <1>1, <1>2, <1>3
<1>5. Pipes!ConnectedOf(D) = Pipes!ConnectedOf(E)
  BY <1>1, <1>2, <1>4
<1>6. \A p \in G : /\ D[new.ids[p]].connector = p /\ D[new.ids[p]].crtc = f[p][2]
                   /\ D[new.ids[p]].native = Native(c, p)
  BY <1>1 DEF Revised
<1>7. \A id \in Pipes!ConnectedOf(E) : D[id].native = E[id].native
  BY <1>2, <1>4, <1>6
<1>8. Natives(D) = Natives(E)
  BY <1>5, <1>7 DEF Natives
<1>9. \A id \in Pipes!ConnectedOf(E) : D[id].light <=> E[id].light
  <2>1. \A id \in Pipes!ConnectedOf(E) : D[id].light <=> HadLight(dev, id)
    BY <1>1, <1>2, <1>4
  <2>2. \A id \in Pipes!ConnectedOf(E) : HadLight(dev, id) <=> E[id].light
    BY DEF HadLight, Pipes!ConnectedOf, E
  <2> QED BY <2>1, <2>2
<1>10. dev.atomic = c.atomic =>
            \A id \in Pipes!ConnectedOf(D) : D[id].light <=> (Natives(D) = {id} /\ c.backlights = 1)
  BY <1>2, <1>5, <1>8, <1>9
<1>11. DOMAIN l \subseteq DOMAIN new.ids
  BY <1>1
<1> QED BY <1>1, <1>2, <1>6, <1>10, <1>11 DEF Found, G, f, D

\* What is believed of a display stays true when it stays.
LEMMA StaysLit ==
    ASSUME NEW c, NEW l, NEW k, NEW dev, NEW new, GoodDevice(dev, c), IsRescan(new, c, l, k, dev),
           \A id \in Pipes!ConnectedOf(dev.displays) : Lit(dev.displays[id], k),
           NEW id \in Pipes!ConnectedOf(new.displays)
    PROVE  \/ Lit(new.displays[id], k)
           \/ id \notin Pipes!ConnectedOf(dev.displays) /\ ~dev.atomic
<1> DEFINE x == new.displays[id]
           old == dev.displays[id]
           was == Pipes!ConnectedOf(dev.displays)
<1>1. PICK p \in Granted(c, dev.atomic, l) : id = new.ids[p]
  BY DEF IsRescan
<1>2. Revised(x, c, k, dev, p, id, Pipes!FindPipeline(c, dev.atomic, l)[p])
  BY <1>1 DEF IsRescan
<1>3. /\ IsNaming(new.ids, c) /\ AreOutputs(new.displays, new.ids, c, new.atomic)
      /\ AreOutputs(dev.displays, dev.ids, c, dev.atomic)
      /\ \A q \in DOMAIN dev.ids : new.ids[q] = dev.ids[q]
      /\ DOMAIN new.ids = DOMAIN dev.ids \cup DOMAIN l
  BY DEF IsRescan, GoodDevice
<1>4. x.connector \in DOMAIN new.ids /\ new.ids[x.connector] = id
  BY <1>3 DEF AreOutputs, Pipes!ConnectedOf
<1>5. CASE id \in was
  <2>1. old.connector \in DOMAIN dev.ids /\ dev.ids[old.connector] = id
    BY <1>3, <1>5 DEF AreOutputs, Pipes!ConnectedOf
  <2>2. x.connector = old.connector
    BY <1>3, <1>4, <2>1 DEF IsNaming
  <2>3. Continues(x, old) /\ Lit(old, k)
    BY <1>2, <1>5 DEF Revised
  <2> HIDE DEF x, old
  <2>4. Lit(x, k)
    BY <2>2, <2>3 DEF Continues, Lit
  <2> QED BY <2>4 DEF x
<1>6. CASE id \notin was
  <2>1. FreshlyLit(x, k, dev.atomic)
    BY <1>2, <1>6 DEF Revised
  <2> HIDE DEF x
  <2>2. Lit(x, k) \/ ~dev.atomic
    BY <2>1 DEF FreshlyLit, Lit
  <2> QED BY <2>2, <1>6 DEF x
<1> QED BY <1>5, <1>6

-----------------------------------------------------------------------------
\* What is known of the card in a run.
InRun(c, l, k) ==
    /\ device.card \in DOMAIN machine /\ device.card # 0
    /\ c = machine[device.card] /\ l = monitors[device.card] /\ k = crtcs[device.card]
    /\ IsCard(c) /\ IsListing(l, c) /\ GoodKernel(k, c, device.atomic)
    /\ DOMAIN device = DeviceFields /\ device.searched = TRUE /\ GoodDevice(device, c)
    /\ told = Pipes!ConnectedOf(device.displays) /\ PanelFirst(device.displays)
    /\ \A id \in Pipes!ConnectedOf(device.displays) : Lit(device.displays[id], k)
    /\ exchanged \in Nat
    /\ exchanged = 0 => Found(device, c, l)

LEMMA RunFacts ==
    ASSUME PipeInv, stage = "run", NEW c, c = machine[device.card],
           NEW l, l = monitors[device.card], NEW k, k = crtcs[device.card]
    PROVE  InRun(c, l, k)
<1>1. CardsSound /\ DeviceSound /\ CardBest
  BY DEF PipeInv
<1>2. device.card # 0 /\ device.card \in DOMAIN machine
  BY <1>1 DEF DeviceSound
<1>3. IsCard(c) /\ IsListing(l, c) /\ GoodKernel(k, c, device.atomic)
  BY <1>1, <1>2, CandidateFacts DEF GoodKernel
<1>4. /\ DOMAIN device = DeviceFields /\ device.searched = TRUE /\ GoodDevice(device, c)
      /\ told = Pipes!ConnectedOf(device.displays) /\ PanelFirst(device.displays)
      /\ \A id \in Pipes!ConnectedOf(device.displays) : Lit(device.displays[id], k)
      /\ exchanged \in Nat
  BY <1>1, <1>2 DEF DeviceSound
<1>5. exchanged = 0 => Found(device, c, l)
  BY <1>1, <1>2 DEF CardBest
<1> QED BY <1>2, <1>3, <1>4, <1>5 DEF InRun

\* The kernel's state of the card is r then.
Programs(r) ==
    \/ crtcs' = [crtcs EXCEPT ![device.card] = r]
    \/ crtcs' = crtcs /\ r = crtcs[device.card]

\* A step of a run: the displays and the kernel of the card change.
LEMMA RunStep ==
    ASSUME PipeInv, stage = "run", NEW c, NEW l, NEW k, InRun(c, l, k),
           machine' = machine, tried' = tried, monitors' = monitors, stage' = stage,
           exchanged' = exchanged,
           NEW r, Programs(r), GoodKernel(r, c, device.atomic),
           device'.card = device.card, device'.atomic = device.atomic, device'.searched = TRUE,
           DOMAIN device' = DeviceFields, GoodDevice(device', c),
           PanelFirst(device'.displays), told' = Pipes!ConnectedOf(device'.displays),
           \A id \in Pipes!ConnectedOf(device'.displays) : Lit(device'.displays[id], r),
           exchanged = 0 => Found(device', c, l)
    PROVE  PipeInv'
<1>1. /\ CardsSound /\ DeviceSound /\ CardBest
      /\ device.card \in DOMAIN machine /\ device.card # 0
      /\ c = machine[device.card] /\ l = monitors[device.card]
  BY DEF PipeInv, InRun
<1>2. /\ DOMAIN crtcs' = DOMAIN machine /\ crtcs'[device.card] = r
      /\ \A i \in DOMAIN machine : i # device.card => crtcs'[i] = crtcs[i]
  BY <1>1 DEF CardsSound, Programs
<1>3. CardsSound'
  <2>1. ASSUME NEW i \in DOMAIN machine
        PROVE  GoodKernel(crtcs'[i], machine[i], i = device'.card => device'.atomic)
    <3>1. CASE i = device.card
      BY <3>1, <1>1, <1>2 DEF GoodKernel
    <3>2. CASE i # device.card
      <4>1. /\ crtcs[i] \in Kernels(machine[i]) /\ Routed(crtcs[i], machine[i])
            /\ Pipes!Consistent(crtcs[i])
        BY <1>1, <3>2, CandidateFacts
      <4> QED BY <3>2, <4>1, <1>2 DEF GoodKernel
    <3> QED BY <3>1, <3>2
  <2> QED BY <1>1, <1>2, <2>1 DEF CardsSound
<1>4. DeviceSound'
  <2>1. exchanged' \in Nat
    BY DEF InRun
  <2> QED BY <1>1, <1>2, <2>1 DEF DeviceSound
<1>5. CardBest'
  BY <1>1 DEF CardBest, Preferring
<1> QED BY <1>3, <1>4, <1>5 DEF PipeInv

\* A monitor or a port comes or goes.
LEMMA MonitorStep ==
    ASSUME PipeInv, stage = "run", NEW l, IsListing(l, machine[device.card]),
           monitors' = [monitors EXCEPT ![device.card] = l], exchanged' = exchanged + 1,
           machine' = machine, tried' = tried, device' = device, crtcs' = crtcs, stage' = stage,
           told' = told
    PROVE  PipeInv'
<1>1. CardsSound /\ DeviceSound /\ exchanged \in Nat
  BY DEF PipeInv, DeviceSound
<1>2. device.card # 0 /\ device.card \in DOMAIN machine
  BY <1>1 DEF DeviceSound
<1>3. /\ DOMAIN monitors' = DOMAIN machine /\ monitors'[device.card] = l
      /\ \A i \in DOMAIN machine : i # device.card => monitors'[i] = monitors[i]
  BY <1>1, <1>2 DEF CardsSound
<1>4. \A i \in DOMAIN machine : IsListing(monitors'[i], machine[i])
  BY <1>1, <1>3 DEF CardsSound
<1>5. CardsSound'
  BY <1>1, <1>3, <1>4 DEF CardsSound
<1>6. exchanged' \in Nat /\ exchanged' # 0
  BY <1>1
<1>7. DeviceSound'
  <2>1. stage' # "init"
    OBVIOUS
  <2> QED BY <1>1, <1>2, <1>6, <2>1 DEF DeviceSound
<1>8. CardBest'
  BY <1>6 DEF CardBest
<1> QED BY <1>5, <1>7, <1>8 DEF PipeInv

LEMMA ChangeStep ==
    ASSUME PipeInv, NEW port, device.card # 0 => port \in 1 .. machine[device.card].ports,
           NEW list \in Lists \cup {<< >>}, Pipes!Change(port, list)
    PROVE  PipeInv'
<1> DEFINE listed == monitors[device.card]
           l == [p \in DOMAIN listed \cup {port} |-> IF p = port THEN list ELSE listed[p]]
<1>1. /\ stage = "run" /\ exchanged' = exchanged + 1
      /\ monitors' = [monitors EXCEPT ![device.card] = l]
      /\ machine' = machine /\ tried' = tried /\ device' = device /\ crtcs' = crtcs
      /\ stage' = stage /\ told' = told
  BY DEF Pipes!Change
<1>2. InRun(machine[device.card], listed, crtcs[device.card])
  BY <1>1, RunFacts
<1>3. IsListing(listed, machine[device.card]) /\ port \in 1 .. machine[device.card].ports
  BY <1>2 DEF InRun
<1> HIDE DEF listed
<1>4. IsListing(l, machine[device.card])
  BY <1>3 DEF IsListing
<1> HIDE DEF l
<1> QED BY <1>1, <1>4, MonitorStep

LEMMA VanishStep ==
    ASSUME PipeInv, NEW port, Pipes!Vanish(port)
    PROVE  PipeInv'
<1> DEFINE listed == monitors[device.card]
           l == Pipes!Restrict(listed, DOMAIN listed \ {port})
<1>1. /\ stage = "run" /\ exchanged' = exchanged + 1
      /\ monitors' = [monitors EXCEPT ![device.card] = Pipes!Restrict(@, DOMAIN @ \ {port})]
      /\ machine' = machine /\ tried' = tried /\ device' = device /\ crtcs' = crtcs
      /\ stage' = stage /\ told' = told
  BY DEF Pipes!Vanish
<1>2. InRun(machine[device.card], listed, crtcs[device.card])
  BY <1>1, RunFacts
<1>3. IsListing(listed, machine[device.card])
  BY <1>2 DEF InRun
<1>4. monitors' = [monitors EXCEPT ![device.card] = l]
  BY <1>1
<1> HIDE DEF listed
<1>5. IsListing(l, machine[device.card])
  BY <1>3 DEF IsListing, Pipes!Restrict
<1> HIDE DEF l
<1> QED BY <1>1, <1>4, <1>5, MonitorStep

-----------------------------------------------------------------------------
LEMMA HotplugRescan ==
    ASSUME PipeInv, NEW refused \in BOOLEAN, Pipes!HotplugLoop(refused)
    PROVE  PipeInv'
<1>0. PICK c, l, k : c = machine[device.card] /\ l = monitors[device.card] /\ k = crtcs[device.card]
  OBVIOUS
<1>1. /\ stage = "run" /\ (device.atomic \/ ~refused)
      /\ machine' = machine /\ tried' = tried /\ monitors' = monitors /\ stage' = stage
      /\ exchanged' = exchanged
  BY DEF Pipes!HotplugLoop
<1>2. InRun(c, l, k)
  BY <1>0, <1>1, RunFacts
<1>3. /\ IsCard(c) /\ IsListing(l, c) /\ GoodKernel(k, c, device.atomic) /\ k \in Kernels(c)
      /\ GoodDevice(device, c) /\ device.searched = TRUE
  BY <1>2 DEF InRun, GoodKernel
<1>4. PICK scan \in {Pipes!Rescan(c, l, k, device)} :
          \E off \in {Pipes!SwitchedOff(scan.device, scan.came, refused)} :
              /\ device' = [scan.device EXCEPT !.displays = off.displays]
              /\ crtcs' = [crtcs EXCEPT ![device.card] = off.crtcs]
              /\ told' = (told \cup scan.came) \ scan.went
  BY <1>0 DEF Pipes!HotplugLoop, Pipes!Card
<1>5. PICK off \in {Pipes!SwitchedOff(scan.device, scan.came, refused)} :
              /\ device' = [scan.device EXCEPT !.displays = off.displays]
              /\ crtcs' = [crtcs EXCEPT ![device.card] = off.crtcs]
              /\ told' = (told \cup scan.came) \ scan.went
  BY <1>4
<1> DEFINE new == scan.device
           was == Pipes!ConnectedOf(device.displays)
           now == Pipes!ConnectedOf(new.displays)
<1>6. IsRescan(new, c, l, k, device) /\ scan.came = now \ was /\ scan.went = was \ now
  <2>1. scan = Pipes!Rescan(c, l, k, device)
    BY <1>4
  <2> QED BY <1>3, <2>1, RescanFacts
<1>7. /\ DOMAIN new = DeviceFields /\ new.card = device.card /\ new.atomic = device.atomic
      /\ new.searched = TRUE /\ GoodDevice(new, c) /\ PanelFirst(new.displays)
  BY <1>6 DEF IsRescan
<1>8. off = Pipes!SwitchedOff(new, scan.came, refused) /\ scan.came \in SUBSET now
  BY <1>5, <1>6
<1> HIDE DEF new
<1>9. /\ OffSound(off, new.displays, new.atomic, c)
      /\ \A j \in now : Lit(new.displays[j], k) => Lit(off.displays[j], off.crtcs)
      /\ \A j \in scan.came : ~off.displays[j].powered \/ off.failed
      /\ ~refused /\ ~new.atomic => ~off.failed
  <2>1. GoodKernel(crtcs[new.card], c, new.atomic) /\ k = crtcs[new.card]
    BY <1>0, <1>3, <1>7
  <2> DEFINE X == scan.came
  <2>2. off = Pipes!SwitchedOff(new, X, refused) /\ X \in SUBSET Pipes!ConnectedOf(new.displays)
    BY <1>8
  <2> HIDE DEF X
  <2>3. AllOff(off, new, X, refused, c, k)
    BY <1>3, <1>7, <2>1, <2>2, SwitchedOffFacts
  <2> QED BY <2>3 DEF AllOff, X
<1>10. AllRetold(off.displays, new.displays, c)
  BY <1>7, <1>9, OffRetold
<1>11. SameDevice(device', new, off.displays, c)
  <2> DEFINE dev == device'
             D == off.displays
  <2>1. dev = [new EXCEPT !.displays = D] /\ AllRetold(D, new.displays, c)
    BY <1>5, <1>10 DEF new
  <2> HIDE DEF dev, D
  <2>2. SameDevice(dev, new, D, c)
    BY <1>7, <2>1, RetoldFacts
  <2> QED BY <2>2 DEF dev, D
<1>12. /\ device'.card = device.card /\ device'.atomic = device.atomic /\ device'.searched = TRUE
       /\ DOMAIN device' = DeviceFields /\ device'.displays = off.displays
       /\ GoodDevice(device', c) /\ PanelFirst(device'.displays)
       /\ Pipes!ConnectedOf(device'.displays) = now
       /\ Found(new, c, l) => Found(device', c, l)
  BY <1>7, <1>11 DEF SameDevice
<1>13. exchanged = 0 => Found(device', c, l)
  <2>1. SUFFICES ASSUME exchanged = 0 PROVE Found(device', c, l)
    OBVIOUS
  <2>2. Found(device, c, l)
    BY <1>2, <2>1 DEF InRun
  <2>3. Found(new, c, l)
    BY <1>3, <1>6, <2>2, RefoundFacts
  <2> QED BY <1>12, <2>3
<1>14. told' = Pipes!ConnectedOf(device'.displays)
  <2>1. told = was
    BY <1>2 DEF InRun
  <2> HIDE DEF was, now
  <2> QED BY <1>5, <1>6, <1>12, <2>1
<1>15. GoodKernel(off.crtcs, c, device.atomic) /\ Programs(off.crtcs)
  BY <1>5, <1>7, <1>9 DEF OffSound, Programs
<1>16. ASSUME NEW id \in now PROVE Lit(off.displays[id], off.crtcs)
  <2>1. \A j \in was : Lit(device.displays[j], k)
    BY <1>2 DEF InRun
  <2>2. Lit(new.displays[id], k) \/ (id \notin was /\ ~device.atomic)
    BY <1>3, <1>6, <2>1, StaysLit
  <2>3. CASE Lit(new.displays[id], k)
    BY <2>3, <1>9
  <2>4. CASE id \notin was /\ ~device.atomic
    <3>1. id \in scan.came /\ ~off.failed
      BY <2>4, <1>1, <1>6, <1>7, <1>9
    <3>2. ~off.displays[id].powered
      BY <3>1, <1>9
    <3> QED BY <3>2 DEF Lit
  <2> QED BY <2>2, <2>3, <2>4
<1>17. \A id \in Pipes!ConnectedOf(device'.displays) : Lit(device'.displays[id], off.crtcs)
  BY <1>12, <1>16
<1> QED BY <1>1, <1>2, <1>12, <1>13, <1>14, <1>15, <1>17, RunStep

LEMMA DisplaysStep ==
    ASSUME PipeInv, stage = "run", NEW c, NEW l, NEW k, InRun(c, l, k),
           machine' = machine, tried' = tried, monitors' = monitors, stage' = stage,
           exchanged' = exchanged, told' = told,
           NEW D, AllRetold(D, device.displays, c), device' = [device EXCEPT !.displays = D],
           NEW r, Programs(r), GoodKernel(r, c, device.atomic),
           \A id \in Pipes!ConnectedOf(device.displays) : Lit(D[id], r)
    PROVE  PipeInv'
<1>1. /\ DOMAIN device = DeviceFields /\ device.searched = TRUE /\ GoodDevice(device, c)
      /\ told = Pipes!ConnectedOf(device.displays) /\ PanelFirst(device.displays)
      /\ exchanged = 0 => Found(device, c, l)
  BY DEF InRun
<1>2. SameDevice(device', device, D, c)
  <2> DEFINE new == device'
             dev == device
  <2>1. /\ new = [dev EXCEPT !.displays = D] /\ AllRetold(D, dev.displays, c)
        /\ DOMAIN dev = DeviceFields /\ dev.searched = TRUE /\ GoodDevice(dev, c)
    BY <1>1
  <2> HIDE DEF new, dev
  <2>2. SameDevice(new, dev, D, c)
    BY <2>1, RetoldFacts
  <2> QED BY <2>2 DEF new, dev
<1>3. /\ device'.card = device.card /\ device'.atomic = device.atomic /\ device'.searched = TRUE
      /\ DOMAIN device' = DeviceFields /\ device'.displays = D
      /\ GoodDevice(device', c) /\ PanelFirst(device'.displays)
      /\ Pipes!ConnectedOf(device'.displays) = Pipes!ConnectedOf(device.displays)
      /\ exchanged = 0 => Found(device', c, l)
  BY <1>1, <1>2 DEF SameDevice
<1>4. told' = Pipes!ConnectedOf(device'.displays)
  BY <1>1, <1>3
<1>5. \A id \in Pipes!ConnectedOf(device'.displays) : Lit(device'.displays[id], r)
  BY <1>3
<1> QED BY <1>3, <1>4, <1>5, RunStep

\* A display that is told has a display of its own with a mode.
LEMMA ToldFacts ==
    ASSUME NEW c, NEW l, NEW k, InRun(c, l, k), NEW id \in told, NEW x, x = device.displays[id]
    PROVE  /\ id \in Pipes!ConnectedOf(device.displays) /\ id \in DOMAIN device.displays
           /\ x \in Outputs(c) /\ x.config \in x.configs /\ x.crtc \in Pipes!Reach(c, x.connector)
           /\ \A j \in Pipes!ConnectedOf(device.displays) :
                 /\ j \in DOMAIN device.displays /\ device.displays[j] \in Outputs(c)
                 /\ j # id => /\ device.displays[j].crtc # x.crtc
                              /\ device.displays[j].connector # x.connector
<1>1. /\ AreOutputs(device.displays, device.ids, c, device.atomic)
      /\ Apart(device.displays, device.atomic) /\ id \in Pipes!ConnectedOf(device.displays)
  BY DEF InRun, GoodDevice
<1>2. \A j \in Pipes!ConnectedOf(device.displays) : j \in DOMAIN device.displays
  BY DEF Pipes!ConnectedOf
<1>3. \A j \in DOMAIN device.displays :
          /\ device.displays[j] \in Outputs(c) /\ device.ids[device.displays[j].connector] = j
          /\ device.displays[j].config \in device.displays[j].configs
          /\ device.displays[j].crtc \in Pipes!Reach(c, device.displays[j].connector)
  BY <1>1 DEF AreOutputs, IsOutput
<1> QED BY <1>1, <1>2, <1>3 DEF Apart

\* One display of those there are was set to something else.
LEMMA OneRetold ==
    ASSUME NEW c, NEW l, NEW k, InRun(c, l, k), NEW E, AllRetold(E, device.displays, c),
           NEW id \in DOMAIN device.displays, NEW x, Retold(x, device.displays[id], c),
           NEW D, D = [E EXCEPT ![id] = x]
    PROVE  /\ AllRetold(D, device.displays, c) /\ D[id] = x
           /\ \A j \in DOMAIN device.displays : j # id => D[j] = E[j]
<1>1. DOMAIN E = DOMAIN device.displays /\ \A j \in DOMAIN device.displays : Retold(E[j], device.displays[j], c)
  BY DEF AllRetold
<1>2. DOMAIN D = DOMAIN device.displays /\ D[id] = x /\ \A j \in DOMAIN device.displays : j # id => D[j] = E[j]
  BY <1>1
<1> QED BY <1>1, <1>2 DEF AllRetold

LEMMA SameRetold ==
    ASSUME NEW c, NEW l, NEW k, InRun(c, l, k)
    PROVE  AllRetold(device.displays, device.displays, c)
<1>1. AreOutputs(device.displays, device.ids, c, device.atomic)
  BY DEF InRun, GoodDevice
<1> QED BY <1>1 DEF AreOutputs, IsOutput, AllRetold, Retold, SameHead

LEMMA SetPowerOnStep ==
    ASSUME PipeInv, NEW id \in told, Pipes!SetPowerOn(id)
    PROVE  PipeInv'
<1>0. PICK c, l, k : c = machine[device.card] /\ l = monitors[device.card] /\ k = crtcs[device.card]
  OBVIOUS
<1> DEFINE x == device.displays[id]
           y == [x EXCEPT !.powered = TRUE, !.modeset = TRUE]
           D == [device.displays EXCEPT ![id] = y]
<1>1. /\ stage = "run" /\ device' = [device EXCEPT !.displays =
                               [device.displays EXCEPT ![id] = [@ EXCEPT !.powered = TRUE, !.modeset = TRUE]]]
      /\ machine' = machine /\ tried' = tried /\ monitors' = monitors /\ crtcs' = crtcs
      /\ stage' = stage /\ told' = told /\ exchanged' = exchanged
  BY DEF Pipes!SetPowerOn
<1>2. InRun(c, l, k)
  BY <1>0, <1>1, RunFacts
<1>3. device' = [device EXCEPT !.displays = D]
  BY <1>1
<1>4. id \in DOMAIN device.displays /\ x \in Outputs(c) /\ x.config \in x.configs
  BY <1>2, ToldFacts
<1>5. Retold(y, x, c) /\ y.modeset = TRUE
  <2> HIDE DEF x
  <2>1. y \in Outputs(c) /\ y.config = x.config /\ y.configs = x.configs /\ y.light = x.light
        /\ y.modeset = TRUE /\ SameHead(y, x)
    BY <1>4 DEF Outputs, SameHead
  <2> QED BY <1>4, <2>1 DEF Retold
<1> HIDE DEF y
<1>6. AllRetold(D, device.displays, c) /\ D[id] = y
      /\ \A j \in DOMAIN device.displays : j # id => D[j] = device.displays[j]
  <2>1. AllRetold(device.displays, device.displays, c)
    BY <1>2, SameRetold
  <2> QED BY <1>2, <1>4, <1>5, <2>1, OneRetold
<1> HIDE DEF D
<1>7. \A j \in Pipes!ConnectedOf(device.displays) : Lit(D[j], k)
  <2>1. ASSUME NEW j \in Pipes!ConnectedOf(device.displays) PROVE Lit(D[j], k)
    <3>1. CASE j = id
      BY <3>1, <1>5, <1>6 DEF Lit
    <3>2. CASE j # id
      <4>1. D[j] = device.displays[j] /\ Lit(device.displays[j], k)
        BY <3>2, <1>2, <1>6 DEF InRun, Pipes!ConnectedOf
      <4> QED BY <4>1
    <3> QED BY <3>1, <3>2
  <2> QED BY <2>1
<1>8. GoodKernel(k, c, device.atomic)
  BY <1>2 DEF InRun
<1>9. Programs(k)
  BY <1>0, <1>1 DEF Programs
<1> QED BY <1>1, <1>2, <1>3, <1>6, <1>7, <1>8, <1>9, DisplaysStep

\* SetPower(off) of one display in a run.
LEMMA OffInRun ==
    ASSUME NEW c, NEW l, NEW k, InRun(c, l, k), NEW id \in told, NEW refused \in BOOLEAN,
           NEW off, off = Pipes!SwitchOff(Pipes!AsIs(device), id, refused)
    PROVE  /\ OffSound(off, device.displays, device.atomic, c)
           /\ AllRetold(off.displays, device.displays, c)
           /\ GoodKernel(off.crtcs, c, device.atomic)
           /\ \A j \in Pipes!ConnectedOf(device.displays) : Lit(off.displays[j], off.crtcs)
           /\ ~off.displays[id].powered \/ off.failed
<1> DEFINE D == device.displays
           a == device.atomic
           s == Pipes!AsIs(device)
<1>1. /\ IsCard(c) /\ GoodKernel(k, c, a) /\ k = crtcs[device.card] /\ GoodDevice(device, c)
      /\ a \in BOOLEAN /\ AreOutputs(D, device.ids, c, a) /\ Apart(D, a)
      /\ \A j \in Pipes!ConnectedOf(D) : Lit(D[j], k)
      /\ id \in Pipes!ConnectedOf(D)
  BY DEF InRun, GoodDevice
<1>2. s.displays = D /\ s.crtcs = k /\ s.atomic = a /\ s.failed = FALSE
  BY <1>1 DEF Pipes!AsIs
<1> HIDE DEF s, D, a
<1>3. OffSound(s, D, a, c)
  <2>1. \A j \in DOMAIN D : Darker(D[j], D[j], c)
    BY <1>1 DEF AreOutputs, IsOutput, Darker, SameHead
  <2> QED BY <1>1, <1>2, <2>1 DEF OffSound
<1>4. OffSound(off, D, a, c) /\ OffStep(s, off, D, id, a, refused)
  <2>1. off = Pipes!SwitchOff(s, id, refused)
    BY DEF s
  <2> QED BY <1>1, <1>3, <2>1, SwitchOffFacts
<1>5. \A j \in Pipes!ConnectedOf(D) : Lit(off.displays[j], off.crtcs)
  BY <1>1, <1>2, <1>4 DEF OffStep
<1>6. AllRetold(off.displays, D, c)
  <2>1. OffSound(off, device.displays, device.atomic, c)
    BY <1>4 DEF D, a
  <2> QED BY <1>1, <2>1, OffRetold DEF D
<1>7. GoodKernel(off.crtcs, c, a)
  BY <1>4 DEF OffSound
<1>8. ~off.displays[id].powered \/ off.failed
  BY <1>4 DEF OffStep
<1> QED BY <1>4, <1>8, <1>5, <1>6, <1>7 DEF D, a

LEMMA SetPowerOffStep ==
    ASSUME PipeInv, NEW id \in told, NEW refused \in BOOLEAN, Pipes!SetPowerOff(id, refused)
    PROVE  PipeInv'
<1>0. PICK c, l, k : c = machine[device.card] /\ l = monitors[device.card] /\ k = crtcs[device.card]
  OBVIOUS
<1>1. /\ stage = "run" /\ machine' = machine /\ tried' = tried /\ monitors' = monitors
      /\ stage' = stage /\ told' = told /\ exchanged' = exchanged
  BY DEF Pipes!SetPowerOff
<1>2. PICK off \in {Pipes!SwitchOff(Pipes!AsIs(device), id, refused)} :
          /\ device' = [device EXCEPT !.displays = off.displays]
          /\ crtcs' = [crtcs EXCEPT ![device.card] = off.crtcs]
  BY DEF Pipes!SetPowerOff
<1>3. InRun(c, l, k)
  BY <1>0, <1>1, RunFacts
<1>4. /\ AllRetold(off.displays, device.displays, c)
      /\ GoodKernel(off.crtcs, c, device.atomic)
      /\ \A j \in Pipes!ConnectedOf(device.displays) : Lit(off.displays[j], off.crtcs)
  <2>1. off = Pipes!SwitchOff(Pipes!AsIs(device), id, refused)
    BY <1>2
  <2> QED BY <1>3, <2>1, OffInRun
<1> DEFINE D == off.displays
           r == off.crtcs
<1>5. /\ AllRetold(D, device.displays, c) /\ GoodKernel(r, c, device.atomic)
      /\ device' = [device EXCEPT !.displays = D] /\ Programs(r)
      /\ \A j \in Pipes!ConnectedOf(device.displays) : Lit(D[j], r)
  BY <1>2, <1>4 DEF Programs
<1> HIDE DEF D, r
<1> QED BY <1>1, <1>3, <1>5, DisplaysStep

\* One display was programmed: the others keep what they show.
LEMMA ProgramStep ==
    ASSUME NEW c, NEW l, NEW k, InRun(c, l, k), NEW id \in told, NEW x, x = device.displays[id],
           NEW E, AllRetold(E, device.displays, c),
           NEW r, r \in Kernels(c), OthersLit(k, r, x, c), Lit(E[id], r),
           \A j \in DOMAIN device.displays : j # id => E[j] = device.displays[j]
    PROVE  \A j \in Pipes!ConnectedOf(device.displays) : Lit(E[j], r)
<1>1. ASSUME NEW j \in Pipes!ConnectedOf(device.displays), j # id PROVE Lit(E[j], r)
  <2> DEFINE y == device.displays[j]
  <2>1. y \in Outputs(c) /\ y.connector # x.connector /\ y.crtc # x.crtc /\ j \in DOMAIN device.displays
    BY <1>1, ToldFacts
  <2>2. Lit(y, k)
    BY DEF InRun
  <2> HIDE DEF y
  <2>3. Lit(y, r)
    BY <2>1, <2>2 DEF OthersLit
  <2> QED BY <1>1, <2>1, <2>3 DEF y
<1> QED BY <1>1

LEMMA PresentStep ==
    ASSUME PipeInv, NEW id \in told, Pipes!Present(id)
    PROVE  PipeInv'
<1>0. PICK c, l, k : c = machine[device.card] /\ l = monitors[device.card] /\ k = crtcs[device.card]
  OBVIOUS
<1>1. PICK x \in {device.displays[id]} :
          /\ x.powered /\ x.modeset /\ Pipes!CanPresent(x)
          /\ device' = [device EXCEPT !.displays =
                           [device.displays EXCEPT ![id] = [x EXCEPT !.modeset = FALSE]]]
          /\ crtcs' = [crtcs EXCEPT ![device.card] = Pipes!Modeset(x, @, device.atomic)]
  BY DEF Pipes!Present
<1>2. /\ stage = "run" /\ machine' = machine /\ tried' = tried /\ monitors' = monitors
      /\ stage' = stage /\ told' = told /\ exchanged' = exchanged
  BY DEF Pipes!Present
<1>3. InRun(c, l, k)
  BY <1>0, <1>2, RunFacts
<1> DEFINE y == [x EXCEPT !.modeset = FALSE]
           D == [device.displays EXCEPT ![id] = y]
           a == device.atomic
           r == Pipes!Modeset(x, k, a)
<1>4. x = device.displays[id] /\ device' = [device EXCEPT !.displays = D] /\ Programs(r)
  BY <1>0, <1>1 DEF Programs
<1>5. IsCard(c) /\ k \in Kernels(c) /\ Routed(k, c) /\ a \in BOOLEAN /\ a = device.atomic
  BY <1>3 DEF InRun, GoodKernel, GoodDevice
<1>6. id \in DOMAIN device.displays /\ x \in Outputs(c) /\ x.config \in x.configs
      /\ x.crtc \in Pipes!Reach(c, x.connector)
  BY <1>3, <1>4, ToldFacts
<1>7. a => Pipes!Consistent(r)
  <2>1. SUFFICES ASSUME a PROVE Pipes!Consistent(r)
    OBVIOUS
  <2>2. Pipes!Consistent(Pipes!Modeset(x, k, TRUE))
    BY <1>0, <1>1, <2>1 DEF Pipes!CanPresent
  <2>3. Pipes!Modeset(x, k, TRUE) = r
    BY <2>1 DEF Pipes!Modeset
  <2> QED BY <2>2, <2>3
<1> HIDE DEF r, a
<1>8. Commits(k, r, x, c, x.config) /\ r.route[x.connector] = x.crtc
  BY <1>5, <1>6, ModesetFacts DEF r
<1>9. r \in Kernels(c) /\ Routed(r, c) /\ OthersLit(k, r, x, c) /\ r.mode[x.crtc] = x.config
  BY <1>8 DEF Commits
<1>10. GoodKernel(r, c, device.atomic)
  BY <1>5, <1>7, <1>9 DEF GoodKernel
<1>11. y \in Outputs(c) /\ y.config = x.config /\ y.configs = x.configs /\ y.light = x.light
       /\ y.crtc = x.crtc /\ y.connector = x.connector /\ SameHead(y, x)
  BY <1>6 DEF Outputs, SameHead
<1> HIDE DEF y
<1>12. Retold(y, x, c)
  BY <1>6, <1>11 DEF Retold
<1>13. AllRetold(D, device.displays, c) /\ D[id] = y
       /\ \A j \in DOMAIN device.displays : j # id => D[j] = device.displays[j]
  <2>1. AllRetold(device.displays, device.displays, c)
    BY <1>3, SameRetold
  <2> QED BY <1>3, <1>4, <1>6, <1>12, <2>1, OneRetold
<1> HIDE DEF D
<1>14. Lit(D[id], r)
  BY <1>8, <1>9, <1>11, <1>13 DEF Lit
<1>15. \A j \in Pipes!ConnectedOf(device.displays) : Lit(D[j], r)
  BY <1>3, <1>4, <1>9, <1>13, <1>14, ProgramStep
<1> QED BY <1>2, <1>3, <1>4, <1>10, <1>13, <1>15, DisplaysStep

LEMMA SetActiveConfigStep ==
    ASSUME PipeInv, NEW id \in told, NEW mode \in DOMAIN Timings, NEW refused \in BOOLEAN,
           Pipes!SetActiveConfig(id, mode, refused)
    PROVE  PipeInv'
<1>0. PICK c, l, k : c = machine[device.card] /\ l = monitors[device.card] /\ k = crtcs[device.card]
  OBVIOUS
<1>1. PICK off \in {Pipes!SwitchOff(Pipes!AsIs(device), id, refused)} :
          /\ ~off.failed
          /\ device' = [device EXCEPT !.displays =
                           [off.displays EXCEPT ![id] =
                               [@ EXCEPT !.config = mode, !.powered = device.displays[id].powered]]]
          /\ crtcs' = [crtcs EXCEPT ![device.card] = off.crtcs]
  BY DEF Pipes!SetActiveConfig
<1>2. /\ stage = "run" /\ machine' = machine /\ tried' = tried /\ monitors' = monitors
      /\ stage' = stage /\ told' = told /\ exchanged' = exchanged
      /\ mode \in device.displays[id].configs
  BY DEF Pipes!SetActiveConfig
<1>3. InRun(c, l, k)
  BY <1>0, <1>2, RunFacts
<1>4. /\ OffSound(off, device.displays, device.atomic, c)
      /\ AllRetold(off.displays, device.displays, c)
      /\ GoodKernel(off.crtcs, c, device.atomic)
      /\ \A j \in Pipes!ConnectedOf(device.displays) : Lit(off.displays[j], off.crtcs)
      /\ ~off.displays[id].powered
  <2>1. off = Pipes!SwitchOff(Pipes!AsIs(device), id, refused)
    BY <1>1
  <2>2. /\ OffSound(off, device.displays, device.atomic, c)
        /\ AllRetold(off.displays, device.displays, c)
        /\ GoodKernel(off.crtcs, c, device.atomic)
        /\ \A j \in Pipes!ConnectedOf(device.displays) : Lit(off.displays[j], off.crtcs)
        /\ ~off.displays[id].powered \/ off.failed
    BY <1>3, <2>1, OffInRun
  <2> QED BY <2>2, <1>1
<1> DEFINE x == device.displays[id]
           e == off.displays[id]
           p == x.powered
           y == [e EXCEPT !.config = mode, !.powered = p]
           D == [off.displays EXCEPT ![id] = y]
           r == off.crtcs
<1>5. device' = [device EXCEPT !.displays = D] /\ Programs(r)
  BY <1>1 DEF Programs
<1>6. id \in DOMAIN device.displays /\ x \in Outputs(c)
  BY <1>3, ToldFacts
<1>7. Darker(e, x, c) /\ Retold(e, x, c) /\ p \in BOOLEAN /\ p = x.powered
  BY <1>4, <1>6 DEF OffSound, AllRetold, Outputs
<1>8. e \in Outputs(c) /\ SameHead(e, x) /\ e.light = x.light /\ e.configs = x.configs
      /\ (e.modeset \/ ~p)
  <2> HIDE DEF e, x, p
  <2>1. e \in Outputs(c) /\ SameHead(e, x) /\ e.light = x.light /\ e.configs = x.configs
        /\ (e.powered = x.powered \/ e.modeset)
    BY <1>7 DEF Darker
  <2> QED BY <2>1, <1>7, <1>4 DEF e
<1>9. y \in Outputs(c) /\ y.config = mode /\ y.configs = e.configs /\ y.light = e.light
      /\ y.modeset = e.modeset /\ y.powered = p /\ SameHead(y, e)
  <2> HIDE DEF e, p
  <2> QED BY <1>7, <1>8 DEF Outputs, SameHead
<1> HIDE DEF y
<1>10. Retold(y, x, c) /\ Lit(y, r)
  <2>1. mode \in x.configs
    BY <1>2
  <2> HIDE DEF e, x, p, r
  <2> QED BY <1>8, <1>9, <2>1 DEF Retold, SameHead, Lit
<1>11. AllRetold(D, device.displays, c) /\ D[id] = y
       /\ \A j \in DOMAIN device.displays : j # id => D[j] = off.displays[j]
  <2>1. DOMAIN off.displays = DOMAIN device.displays
        /\ \A j \in DOMAIN device.displays : Retold(off.displays[j], device.displays[j], c)
    BY <1>4 DEF AllRetold
  <2>2. Retold(y, device.displays[id], c)
    BY <1>10
  <2>3. DOMAIN D = DOMAIN device.displays /\ D[id] = y
        /\ \A j \in DOMAIN device.displays : j # id => D[j] = off.displays[j]
    BY <2>1, <1>6
  <2> HIDE DEF D
  <2> QED BY <2>1, <2>2, <2>3 DEF AllRetold
<1> HIDE DEF D
<1>12. ASSUME NEW j \in Pipes!ConnectedOf(device.displays) PROVE Lit(D[j], r)
  <2>1. CASE j = id
    BY <2>1, <1>10, <1>11
  <2>2. CASE j # id
    <3>1. D[j] = off.displays[j] /\ Lit(off.displays[j], off.crtcs)
      BY <2>2, <1>4, <1>11 DEF Pipes!ConnectedOf
    <3> QED BY <3>1
  <2> QED BY <2>1, <2>2
<1>13. GoodKernel(r, c, device.atomic)
  BY <1>4
<1> HIDE DEF r
<1> QED BY <1>2, <1>3, <1>5, <1>11, <1>12, <1>13, DisplaysStep

-----------------------------------------------------------------------------
LEMMA PipeNext == PipeInv /\ [Pipes!Next]_pipes => PipeInv'
<1> SUFFICES ASSUME PipeInv, [Pipes!Next]_pipes PROVE PipeInv'
  OBVIOUS
<1>1. CASE UNCHANGED pipes
  BY <1>1 DEF pipes, PipeInv, CardsSound, DeviceSound, CardBest, Preferring
<1>2. CASE \E refused \in BOOLEAN : Pipes!InitPath(refused) \/ Pipes!HotplugLoop(refused)
  BY <1>2, OpenStep, HotplugRescan
<1>3. CASE Pipes!NoCardLeft
  BY <1>3, NoCardStep
<1>4. ASSUME NEW port \in 1 .. (IF device.card = 0 THEN 0 ELSE Pipes!Card.ports),
             (\E list \in Lists \cup {<< >>} : Pipes!Change(port, list)) \/ Pipes!Vanish(port)
      PROVE  PipeInv'
  <2>1. device.card # 0 => port \in 1 .. machine[device.card].ports
    BY DEF Pipes!Card
  <2>2. ASSUME NEW list \in Lists \cup {<< >>}, Pipes!Change(port, list) PROVE PipeInv'
    BY <2>1, <2>2, ChangeStep
  <2> QED BY <1>4, <2>2, VanishStep
<1>5. ASSUME NEW id \in told,
             \/ Pipes!SetPowerOn(id) \/ Pipes!Present(id)
             \/ \E refused \in BOOLEAN :
                   \/ Pipes!SetPowerOff(id, refused)
                   \/ \E mode \in DOMAIN Timings : Pipes!SetActiveConfig(id, mode, refused)
      PROVE  PipeInv'
  BY <1>5, SetPowerOnStep, PresentStep, SetPowerOffStep, SetActiveConfigStep
<1>6. \/ UNCHANGED pipes \/ Pipes!NoCardLeft
      \/ \E refused \in BOOLEAN : Pipes!InitPath(refused) \/ Pipes!HotplugLoop(refused)
      \/ \E port \in 1 .. (IF device.card = 0 THEN 0 ELSE Pipes!Card.ports) :
            (\E list \in Lists \cup {<< >>} : Pipes!Change(port, list)) \/ Pipes!Vanish(port)
      \/ \E id \in told :
             \/ Pipes!SetPowerOn(id) \/ Pipes!Present(id)
             \/ \E refused \in BOOLEAN :
                   \/ Pipes!SetPowerOff(id, refused)
                   \/ \E mode \in DOMAIN Timings : Pipes!SetActiveConfig(id, mode, refused)
  BY DEF Pipes!Next
<1> QED BY <1>1, <1>2, <1>3, <1>4, <1>5, <1>6

LEMMA ApartHolds == PipeInv => Pipes!PipelinesApart
<1> SUFFICES ASSUME PipeInv PROVE Pipes!PipelinesApart
  OBVIOUS
<1>1. DeviceSound
  BY DEF PipeInv
<1>2. CASE device.card = 0
  <2>1. device.displays = << >>
    BY <1>1, <1>2 DEF DeviceSound, Pipes!NoCard
  <2>2. Pipes!ConnectedOf(device.displays) = {}
    BY <2>1 DEF Pipes!ConnectedOf
  <2> QED BY <2>2 DEF Pipes!PipelinesApart, Pipes!Connected, Pipes!AllDisplays
<1>3. CASE device.card # 0
  <2> DEFINE c == machine[device.card]
             D == device.displays
             on == Pipes!ConnectedOf(D)
             a == device.atomic
  <2>1. AreOutputs(D, device.ids, c, a) /\ Apart(D, a)
    BY <1>1, <1>3 DEF DeviceSound, GoodDevice
  <2>2. \A i \in on : i \in DOMAIN D
    BY DEF Pipes!ConnectedOf
  <2> HIDE DEF D, on, c, a
  <2>3. \A i \in on : /\ D[i].config \in D[i].configs /\ D[i].crtc \in Pipes!Reach(c, D[i].connector)
                      /\ a => D[i].crtc \in c.planes[D[i].plane]
    BY <2>1, <2>2 DEF AreOutputs, IsOutput
  <2>4. \A i, j \in on : i # j => D[i].crtc # D[j].crtc /\ (a => D[i].plane # D[j].plane)
    BY <2>1 DEF Apart, on
  <2> QED BY <2>3, <2>4 DEF Pipes!PipelinesApart, Pipes!Connected, Pipes!AllDisplays, Pipes!Card, D, on, c, a
<1> QED BY <1>2, <1>3

LEMMA KnowsHolds == PipeInv => Pipes!FrameworkKnows /\ Pipes!LitAsBelieved /\ Pipes!PanelComesFirst
<1> SUFFICES ASSUME PipeInv, stage = "run"
             PROVE  Pipes!FrameworkKnows /\ Pipes!LitAsBelieved /\ Pipes!PanelComesFirst
  BY DEF Pipes!FrameworkKnows, Pipes!LitAsBelieved, Pipes!PanelComesFirst
<1>1. PICK c, l, k : c = machine[device.card] /\ l = monitors[device.card] /\ k = crtcs[device.card]
  OBVIOUS
<1>2. InRun(c, l, k)
  BY <1>1, RunFacts
<1> DEFINE D == device.displays
           on == Pipes!ConnectedOf(D)
<1>3. /\ told = on /\ PanelFirst(D) /\ AreOutputs(D, device.ids, c, device.atomic)
      /\ \A i \in on : Lit(D[i], crtcs[device.card])
  BY <1>1, <1>2 DEF InRun, GoodDevice
<1>4. \A i \in on : device.ids[D[i].connector] = i
  BY <1>3 DEF AreOutputs, Pipes!ConnectedOf
<1>5. Pipes!FrameworkKnows
  BY <1>3, <1>4 DEF Pipes!FrameworkKnows, Pipes!Connected, Pipes!AllDisplays
<1>6. Pipes!LitAsBelieved
  BY <1>3 DEF Pipes!LitAsBelieved, Pipes!Connected, Pipes!AllDisplays, Lit
<1>7. Pipes!PanelComesFirst
  BY <1>3 DEF Pipes!PanelComesFirst, Pipes!Connected, Pipes!AllDisplays, PanelFirst
<1> QED BY <1>5, <1>6, <1>7

\* The only internal connector is the first of the scan.
LEMMA OnlyPanelFirst ==
    ASSUME NEW c, IsCard(c), NEW l, IsListing(l, c), NEW port \in Pipes!Plugged(l), c.internal = {port},
           NEW a \in BOOLEAN, a => port \notin c.partial, Pipes!Pipelines(c, a, port, {}) # {}
    PROVE  port \in Granted(c, a, l)
<1> DEFINE f == Pipes!FindPipeline(c, a, l)
<1>1. port \in DOMAIN l /\ DOMAIN l \subseteq 1 .. c.ports /\ c.ports \in Nat
  BY CardFields DEF IsListing, Pipes!Plugged
<1>2. Pipes!Earlier(c, l, port) = {}
  <2>1. ASSUME NEW p \in DOMAIN l, Pipes!Turn(c, p) < Pipes!Turn(c, port) PROVE FALSE
    <3>1. p \in 1 .. c.ports /\ port \in 1 .. c.ports
      BY <1>1
    <3>2. Pipes!Turn(c, port) = port
      BY DEF Pipes!Turn
    <3>3. Pipes!Turn(c, p) = IF p = port THEN p ELSE c.ports + p
      BY DEF Pipes!Turn
    <3> QED BY <1>1, <2>1, <3>1, <3>2, <3>3
  <2> QED BY <2>1 DEF Pipes!Earlier
<1>3. Before(f, c, l, port) = {}
  BY <1>2 DEF Before
<1>4. Assigned(f, c, a, l)
  BY FindPipelineFacts
<1>5. f[port] # Pipes!NoPipeline
  <2> HIDE DEF f
  <2>1. SUFFICES ASSUME f[port] = Pipes!NoPipeline PROVE FALSE
    OBVIOUS
  <2>2. Free(c, a, port, Before(f, c, l, port)) = {}
    BY <1>1, <1>4, <2>1 DEF Assigned
  <2> QED BY <1>3, <2>2 DEF Free
<1> QED BY <1>1, <1>5 DEF Granted

LEMMA PanelHolds == PipeInv => Pipes!PanelServed
<1> SUFFICES ASSUME PipeInv, stage = "run" PROVE Pipes!PanelServed
  BY DEF Pipes!PanelServed
<1>1. PICK c, l, k : c = machine[device.card] /\ l = monitors[device.card] /\ k = crtcs[device.card]
  OBVIOUS
<1>2. InRun(c, l, k)
  BY <1>1, RunFacts
<1>3. /\ IsCard(c) /\ IsListing(l, c) /\ k \in Kernels(c) /\ GoodDevice(device, c)
      /\ device.atomic \in BOOLEAN
  BY <1>2 DEF InRun, GoodKernel, GoodDevice
<1>4. PICK r : r = Pipes!Rescan(c, l, k, device)
  OBVIOUS
<1>5. IsRescan(r.device, c, l, k, device)
  BY <1>3, <1>4, RescanFacts
<1>6. ASSUME NEW port \in Pipes!Plugged(l), c.internal = {port},
             device.atomic => port \notin c.partial, Pipes!Pipelines(c, device.atomic, port, {}) # {}
      PROVE  \E i \in Pipes!ConnectedOf(r.device.displays) : r.device.displays[i].connector = port
  <2>1. port \in Granted(c, device.atomic, l)
    BY <1>3, <1>6, OnlyPanelFirst
  <2>2. r.device.ids[port] \in Pipes!ConnectedOf(r.device.displays)
    BY <1>5, <2>1 DEF IsRescan
  <2>3. r.device.displays[r.device.ids[port]].connector = port
    BY <1>5, <2>1 DEF IsRescan, Revised
  <2> QED BY <2>2, <2>3
<1>7. \A port \in Pipes!Plugged(l) :
          (/\ c.internal = {port}
           /\ device.atomic => port \notin c.partial
           /\ Pipes!Pipelines(c, device.atomic, port, {}) # {}) =>
              \E i \in Pipes!ConnectedOf(r.device.displays) : r.device.displays[i].connector = port
  BY <1>6
<1> QED BY <1>1, <1>4, <1>7 DEF Pipes!PanelServed, Pipes!Card

\* A connector with a CRTC of its own can be given it whatever the others show.
LEMMA DedicatedPresents ==
    ASSUME NEW c, IsCard(c), NEW k \in Kernels(c), Routed(k, c), Pipes!Consistent(k),
           NEW x \in Outputs(c), x.crtc \in Pipes!Reach(c, x.connector),
           \A p, q \in 1 .. c.ports :
               \A r \in Pipes!Reach(c, p), s \in Pipes!Reach(c, q) : p = q <=> r = s
    PROVE  Pipes!Consistent(Pipes!Modeset(x, k, TRUE))
<1> DEFINE new == Routing(k, x, x.crtc, x.config)
<1>1. Pipes!Modeset(x, k, TRUE) = new
  BY DEF Pipes!Modeset, Routing
<1>2. /\ k.route \in [1 .. c.ports -> 0 .. c.crtcs] /\ k.mode \in [1 .. c.crtcs -> {0} \cup DOMAIN Timings]
      /\ DOMAIN k.route = 1 .. c.ports /\ DOMAIN k.mode = 1 .. c.crtcs
  BY KernelFields
<1>3. x.connector \in 1 .. c.ports /\ x.crtc \in 1 .. c.crtcs /\ c.crtcs \in Nat /\ x.config \in DOMAIN Timings
  BY CardFields DEF Outputs
<1>4. x.config # 0
  <2>1. 0 \notin DOMAIN Timings
    BY PipelinesAssumption
  <2> QED BY <1>3, <2>1
<1>5. /\ new.route = [k.route EXCEPT ![x.connector] = x.crtc]
      /\ new.mode = [k.mode EXCEPT ![x.crtc] = x.config]
  BY DEF Routing
<1>6. /\ DOMAIN new.route = 1 .. c.ports /\ new.route[x.connector] = x.crtc
      /\ \A p \in 1 .. c.ports : p # x.connector => new.route[p] = k.route[p]
  BY ONLY <1>2, <1>3, <1>5
<1>7. /\ DOMAIN new.mode = 1 .. c.crtcs /\ new.mode[x.crtc] = x.config
      /\ \A r \in 1 .. c.crtcs : r # x.crtc => new.mode[r] = k.mode[r]
  BY ONLY <1>2, <1>3, <1>5
<1> HIDE DEF new
<1>8. ASSUME NEW r \in 1 .. c.crtcs
      PROVE  new.mode[r] # 0 <=> \E p \in 1 .. c.ports : new.route[p] = r
  <2>1. CASE r = x.crtc
    BY <2>1, <1>3, <1>4, <1>6, <1>7
  <2>2. CASE r # x.crtc
    <3>1. k.mode[r] # 0 <=> \E p \in 1 .. c.ports : k.route[p] = r
      BY <1>2 DEF Pipes!Consistent
    <3>2. ASSUME NEW p \in 1 .. c.ports, k.route[p] = r PROVE p # x.connector
      <4>1. r # 0
        BY <1>3
      <4>2. r \in Pipes!Reach(c, p)
        BY <3>2, <4>1 DEF Routed
      <4> QED BY <4>2, <2>2, <1>3
    <3>3. \A p \in 1 .. c.ports : k.route[p] = r <=> new.route[p] = r
      BY <3>2, <2>2, <1>6
    <3> QED BY <3>1, <3>3, <2>2, <1>7
  <2> QED BY <2>1, <2>2
<1>9. Pipes!Consistent(new)
  BY <1>6, <1>7, <1>8 DEF Pipes!Consistent
<1> QED BY <1>1, <1>9

LEMMA LightsHolds == PipeInv => Pipes!LightsUp
<1> SUFFICES ASSUME PipeInv, stage = "run", Pipes!Dedicated \/ ~device.atomic PROVE Pipes!LightsUp
  BY DEF Pipes!LightsUp
<1>1. PICK c, l, k : c = machine[device.card] /\ l = monitors[device.card] /\ k = crtcs[device.card]
  OBVIOUS
<1>2. InRun(c, l, k)
  BY <1>1, RunFacts
<1>3. ASSUME NEW i \in Pipes!ConnectedOf(device.displays), device.displays[i].powered
      PROVE  Pipes!CanPresent(device.displays[i])
  <2>1. PICK x : x = device.displays[i]
    OBVIOUS
  <2>2. /\ x \in Outputs(c) /\ x.crtc \in Pipes!Reach(c, x.connector) /\ Lit(x, k)
        /\ IsCard(c) /\ k \in Kernels(c) /\ Routed(k, c) /\ (device.atomic => Pipes!Consistent(k))
    <3>1. i \in told /\ Lit(device.displays[i], k) /\ IsCard(c) /\ GoodKernel(k, c, device.atomic)
      BY <1>2 DEF InRun
    <3>2. x \in Outputs(c) /\ x.crtc \in Pipes!Reach(c, x.connector)
      BY <1>2, <2>1, <3>1, ToldFacts
    <3> QED BY <2>1, <3>1, <3>2 DEF GoodKernel
  <2>3. CASE x.modeset
    <3>1. ASSUME device.atomic PROVE Pipes!Consistent(Pipes!Modeset(x, k, TRUE))
      <4>1. \A p, q \in 1 .. c.ports :
               \A r \in Pipes!Reach(c, p), s \in Pipes!Reach(c, q) : p = q <=> r = s
        <5>1. DOMAIN c.encoders = 1 .. c.ports
          BY <2>2, CardFields
        <5> QED BY <1>1, <3>1, <5>1 DEF Pipes!Dedicated, Pipes!Card
      <4> QED BY <2>2, <3>1, <4>1, DedicatedPresents
    <3>2. Pipes!CanPresent(x)
      BY <1>1, <2>3, <3>1 DEF Pipes!CanPresent
    <3> QED BY <2>1, <3>2
  <2>4. CASE ~x.modeset
    <3>1. k.mode[x.crtc] = x.config /\ x.powered
      BY <1>3, <2>1, <2>2, <2>4 DEF Lit
    <3>2. x.config # 0
      <4>1. 0 \notin DOMAIN Timings
        BY PipelinesAssumption
      <4> QED BY <2>2, <4>1 DEF Outputs
    <3>3. Pipes!CanPresent(x)
      BY <1>1, <2>4, <3>1, <3>2 DEF Pipes!CanPresent
    <3> QED BY <2>1, <3>3
  <2> QED BY <2>3, <2>4
<1> QED BY <1>3 DEF Pipes!LightsUp, Pipes!Connected, Pipes!AllDisplays

LEMMA PreferredHolds == PipeInv => Pipes!CardPreferred
<1> SUFFICES ASSUME PipeInv, device.card # 0, exchanged = 0 PROVE Pipes!CardPreferred
  BY DEF Pipes!CardPreferred
<1>1. Preferring(device.card)
  BY DEF PipeInv, CardBest
<1>2. \A i : /\ Pipes!Shows(i) = ShowsOf(machine[i], monitors[i])
             /\ Pipes!Rank(i) = RankOf(machine[i], monitors[i])
  BY DEF Pipes!Shows, ShowsOf, Pipes!Rank, RankOf
<1> QED BY <1>1, <1>2 DEF Pipes!CardPreferred, Preferring

LEMMA FoundHolds == PipeInv => Pipes!MonitorsFound /\ Pipes!PanelDims
<1> SUFFICES ASSUME PipeInv, stage = "run", exchanged = 0 PROVE Pipes!MonitorsFound /\ Pipes!PanelDims
  BY DEF Pipes!MonitorsFound, Pipes!PanelDims
<1>1. PICK c, l, k : c = machine[device.card] /\ l = monitors[device.card] /\ k = crtcs[device.card]
  OBVIOUS
<1>2. InRun(c, l, k)
  BY <1>1, RunFacts
<1>3. PICK a, D : a = device.atomic /\ D = device.displays
  OBVIOUS
<1> DEFINE G == Granted(c, a, l)
           f == Pipes!FindPipeline(c, a, l)
<1>4. IsCard(c) /\ IsListing(l, c) /\ a \in BOOLEAN /\ Found(device, c, l)
  BY <1>2, <1>3 DEF InRun, GoodDevice
<1>5. /\ \A p \in G : /\ device.ids[p] \in Pipes!ConnectedOf(D)
                      /\ D[device.ids[p]].connector = p /\ D[device.ids[p]].crtc = f[p][2]
      /\ c.fixed \/ ~a \/ Pipes!Plugged(l) \subseteq G
      /\ a = c.atomic =>
            \A i \in Pipes!ConnectedOf(D) : D[i].light <=> (Natives(D) = {i} /\ c.backlights = 1)
  BY <1>3, <1>4 DEF Found
<1>6. Assigned(f, c, a, l)
  BY <1>4, FindPipelineFacts
<1>7. ASSUME ~c.fixed, NEW p \in Pipes!Plugged(l)
      PROVE  \/ \E i \in Pipes!ConnectedOf(D) : D[i].connector = p
             \/ ~a /\ \A r \in Pipes!Reach(c, p) : \E i \in Pipes!ConnectedOf(D) : D[i].crtc = r
  <2>1. CASE p \in G
    BY <2>1, <1>5
  <2>2. CASE p \notin G
    <3>1. a = FALSE
      BY <1>4, <1>5, <1>7, <2>2
    <3>2. p \in DOMAIN l /\ f[p] = Pipes!NoPipeline
      BY <2>2 DEF Granted, Pipes!Plugged
    <3>3. ASSUME NEW r \in Pipes!Reach(c, p) PROVE \E i \in Pipes!ConnectedOf(D) : D[i].crtc = r
      <4> HIDE DEF f
      <4>1. Taken(f, l, r)
        BY <1>4, <1>6, <3>1, <3>2, LegacyTakesAll
      <4>2. PICK q \in DOMAIN l : f[q] # Pipes!NoPipeline /\ f[q][2] = r
        BY <4>1 DEF Taken
      <4>3. q \in G
        BY <4>2 DEF Granted, f
      <4> QED BY <4>2, <4>3, <1>5
    <3> QED BY <3>1, <3>3
  <2> QED BY <2>1, <2>2
<1>8. Pipes!MonitorsFound
  BY <1>1, <1>3, <1>7 DEF Pipes!MonitorsFound, Pipes!Connected, Pipes!AllDisplays, Pipes!Card
<1>9. Pipes!PanelDims
  BY <1>1, <1>3, <1>5 DEF Pipes!PanelDims, Pipes!Connected, Pipes!AllDisplays, Pipes!Card, Natives
<1> QED BY <1>8, <1>9

LEMMA PipesSound == PipeInv => Pipes!PipelinesSound
  BY ApartHolds, KnowsHolds, PanelHolds, LightsHolds, PreferredHolds, FoundHolds
  DEF Pipes!PipelinesSound

\* DrmPipelines, through all scans, commits and failures: the displays of a card have
\* CRTCs and planes of their own, the framework knows them, what the HAL believes of
\* them is what the kernel shows, and the card is the best one.
THEOREM PipelinesSoundAlways == MCSpec => []PipelinesSound
<1>1. MCInit => MachinesSound
  BY PipeInit DEF MCInit, MachinesSound
<1>2. MachinesSound /\ [MCNext]_all => MachinesSound'
  <2> SUFFICES ASSUME MachinesSound, [MCNext]_all, part' = "pipelines" PROVE PipeInv'
    BY DEF MachinesSound
  <2>1. part = "pipelines" /\ [Pipes!Next]_pipes
    BY DEF MCNext, ComposerNext, VsyncNext, HotplugNext, PipelinesNext, all
  <2> QED BY <2>1, PipeNext DEF MachinesSound
<1>3. MachinesSound => PipelinesSound
  BY PipesSound DEF MachinesSound, PipelinesSound
<1> QED BY <1>1, <1>2, <1>3, PTL DEF MCSpec
=============================================================================
