------------------------------ MODULE FbProofs ------------------------------
(***************************************************************************)
(* Proofs about the framebuffer graphics stack (MCFb): what a display      *)
(* shows and whether it is lit (FbComposer), and that no onVsync() starts  *)
(* once vsync was switched off (FbVsync), for any screen, pictures, number *)
(* of pages, layers and target slots, and any number of calls; and that no *)
(* memory is written but what was mapped (FbGeometry, Gralloc, FbMapper),  *)
(* for any modes, dimensions, width of words, handles and threads.         *)
(***************************************************************************)
EXTENDS MCFb, TLAPS

Fields == {"layers", "next", "validation", "slots", "target", "damage", "fence", "pages", "current",
           "pan", "last", "powered", "down", "blanked", "lamp", "err"}

\* The damage of the target covers what it differs in from the picture s on screen.
Aimed(x, s) ==
    /\ DOMAIN x = Fields /\ x.damage \subseteq Regions
    /\ DOMAIN x.slots \subseteq Nat
    /\ \A i \in DOMAIN x.slots : x.slots[i] \in Pictures \cup {None}
    /\ x.target \in Pictures \cup {None}
    /\ x.target # None => \A r \in Regions : x.target[r] # s[r] => r \in x.damage

ScreenTypes(x, s) ==
    /\ x.pages \in [1..MaxPages -> Screen] /\ x.current \in 1..MaxPages
    /\ x.last \in Screen \cup {None} /\ s \in Screen
    /\ x.powered \in BOOLEAN /\ x.blanked \in BOOLEAN /\ x.lamp \in BOOLEAN /\ x.down \in BOOLEAN

\* The last frame is the picture s, and a display that is on shows it; before the
\* first one the screen is black.
Shows(x, s) ==
    /\ ScreenTypes(x, s)
    /\ x.last = None => s = Clear /\ x.pages[x.current] = Clear
    /\ x.last # None => x.last = s
    /\ x.powered => x.pages[x.current] = s

\* Who is on is lit, unless a brightness put the backlight out; who is off is dark.
Lit(x) ==
    /\ hardware.lamp /\ x.down => ~x.lamp
    /\ x.powered => ~x.blanked /\ (hardware.lamp /\ ~x.down => x.lamp)
    /\ ~x.powered => x.blanked \/ x.pages[x.current] = Clear

DisplayInv ==
    /\ hardware \in [blank : BOOLEAN, pans : BOOLEAN, lamp : BOOLEAN]
    /\ d.err = "" /\ asked = (IF d.powered THEN "ON" ELSE "OFF")
    /\ Aimed(d, shown) /\ Shows(d, shown) /\ Lit(d)

LEMMA ScreenFacts ==
    /\ Clear \in Screen /\ \A r \in Regions : Clear[r] = Black
    /\ \A p \in Pictures : p \in Screen
    /\ None \notin Screen /\ None \notin Pictures /\ None \notin {"flush", "lamp"}
<1>1. \A p \in Pictures : p \in [Regions -> {p[r] : r \in Regions} \ {Black}]
    BY PicturesAssumption
<1>2. Clear \in Screen /\ \A r \in Regions : Clear[r] = Black
    BY DEF Clear, Screen, Colors
<1>3. ASSUME NEW p \in Pictures PROVE p \in Screen
  <2>1. p \in [Regions -> {p[r] : r \in Regions} \ {Black}]
      BY <1>1
  <2>2. {p[r] : r \in Regions} \ {Black} \subseteq Colors
      BY DEF Colors
  <2>3. QED
      BY <2>1, <2>2 DEF Screen
<1>4. QED
    BY <1>2, <1>3, PicturesAssumption

\* What a part of a command that is about layers and targets leaves alone.
SameScreen(x, y) ==
    /\ y.pages = x.pages /\ y.current = x.current /\ y.last = x.last
    /\ y.powered = x.powered /\ y.blanked = x.blanked
SameDisplay(x, y) == SameScreen(x, y) /\ y.lamp = x.lamp /\ y.down = x.down

Sound(x, s) == Aimed(x, s) /\ Shows(x, s) /\ Lit(x)

LEMMA SameIsSound ==
    ASSUME NEW x, NEW y, NEW s, Sound(x, s), SameDisplay(x, y)
    PROVE  Shows(y, s) /\ Lit(y)
    BY DEF Sound, Shows, ScreenTypes, Lit, SameDisplay, SameScreen

LEMMA LayerKeeps ==
    ASSUME NEW x, NEW s, Sound(x, s), NEW l
    PROVE  Sound(ApplyLayerLocked(x, l), s)
<1> DEFINE exists == l.layer \in DOMAIN x.layers
           kept == DOMAIN x.layers \ {l.layer}
           old == IF exists THEN x.layers[l.layer] ELSE "INVALID"
           new == IF l.composition = None THEN old ELSE l.composition
           without == [x EXCEPT !.layers = [i \in kept |-> x.layers[i]], !.validation = "kDirty"]
           with == [x EXCEPT
                !.layers = [i \in kept \cup {l.layer} |-> IF i = l.layer THEN new ELSE x.layers[i]],
                !.next = IF l.op = "CREATE" /\ l.layer >= @ THEN l.layer + 1 ELSE @,
                !.validation = IF l.op = "MODIFY" /\ l.composition = None THEN @ ELSE "kDirty"]
           y == ApplyLayerLocked(x, l)
<1>1. y \in {x, [x EXCEPT !.err = "EX_BAD_LAYER"], Emptied(without), with}
    BY DEF ApplyLayerLocked, Failed
<1>2. y = x => Sound(y, s)
    OBVIOUS
<1>3. ASSUME y = [x EXCEPT !.err = "EX_BAD_LAYER"] PROVE Sound(y, s)
  <2>1. Aimed(y, s) /\ SameDisplay(x, y)
      BY <1>3 DEF Sound, Aimed, Fields, SameDisplay, SameScreen
  <2>2. QED
      BY <2>1, SameIsSound DEF Sound
<1>4. Aimed(without, s) /\ SameDisplay(x, without)
    BY DEF Sound, Aimed, Fields, SameDisplay, SameScreen
<1>5. Aimed(with, s) /\ SameDisplay(x, with)
    BY DEF Sound, Aimed, Fields, SameDisplay, SameScreen
<1> HIDE DEF without, with
<1>6. Aimed(Emptied(without), s) /\ SameDisplay(x, Emptied(without))
    BY <1>4 DEF Emptied, Aimed, Fields, SameDisplay, SameScreen
<1>7. y = Emptied(without) \/ y = with => Sound(y, s)
    BY <1>5, <1>6, SameIsSound DEF Sound
<1>8. QED
    BY <1>1, <1>2, <1>3, <1>7

\* The framework damages at least what changes.
Covers(x, t, s) ==
    /\ t.damage \subseteq Regions /\ t.picture \in Pictures \cup {None}
    /\ \A p \in Pictures :
        t.picture = p \/ (t.picture = None /\ t.slot + 1 \in DOMAIN x.slots /\ x.slots[t.slot + 1] = p)
            => \A r \in Regions : p[r] # s[r] => r \in t.damage

LEMMA TargetKeeps ==
    ASSUME NEW x, NEW s, Sound(x, s), NEW t, Covers(x, t, s), NEW fail
    PROVE  Sound(SetClientTargetLocked(x, t, fail), s)
<1> DEFINE i == t.slot + 1
           imported == IF t.picture = None THEN x.slots ELSE [x.slots EXCEPT ![i] = t.picture]
           aimed == [x EXCEPT !.slots = imported, !.target = imported[i], !.damage = t.damage,
                              !.fence = t.fence]
           y == SetClientTargetLocked(x, t, fail)
<1>1. \/ y = x
      \/ y = [x EXCEPT !.err = "EX_BAD_PARAMETER"]
      \/ i \in DOMAIN x.slots /\ y = aimed
    BY DEF SetClientTargetLocked, Failed
<1>2. ASSUME y = [x EXCEPT !.err = "EX_BAD_PARAMETER"] PROVE Sound(y, s)
  <2>1. Aimed(y, s) /\ SameDisplay(x, y)
      BY <1>2 DEF Sound, Aimed, Fields, SameDisplay, SameScreen
  <2>2. QED
      BY <2>1, SameIsSound DEF Sound
<1>3. ASSUME i \in DOMAIN x.slots, y = aimed PROVE Sound(y, s)
  <2>1. /\ DOMAIN imported \subseteq Nat
        /\ \A j \in DOMAIN imported : imported[j] \in Pictures \cup {None}
        /\ imported[i] \in Pictures \cup {None}
        /\ imported[i] # None => \A r \in Regions : imported[i][r] # s[r] => r \in t.damage
    <3>1. CASE t.picture = None
        BY <3>1, <1>3 DEF Sound, Aimed, Covers
    <3>2. CASE t.picture # None
        BY <3>2, <1>3 DEF Sound, Aimed, Covers
    <3>3. QED
        BY <3>1, <3>2
  <2> HIDE DEF imported, i
  <2>2. Aimed(aimed, s) /\ SameDisplay(x, aimed)
      BY <2>1 DEF Sound, Aimed, Covers, Fields, SameDisplay, SameScreen
  <2>3. QED
      BY <1>3, <2>2, SameIsSound DEF Sound
<1>4. QED
    BY <1>1, <1>2, <1>3

LEMMA ValidateAndAcceptKeep ==
    ASSUME NEW x, NEW s, Sound(x, s)
    PROVE  Sound(ValidateLocked(x), s) /\ Sound(AcceptDisplayChanges(x), s)
<1>1. Aimed(ValidateLocked(x), s) /\ SameDisplay(x, ValidateLocked(x))
    BY DEF ValidateLocked, Sound, Aimed, Fields, SameDisplay, SameScreen
<1>2. Aimed(AcceptDisplayChanges(x), s) /\ SameDisplay(x, AcceptDisplayChanges(x))
    BY DEF AcceptDisplayChanges, Failed, Sound, Aimed, Fields, SameDisplay, SameScreen
<1>3. QED
    BY <1>1, <1>2, SameIsSound DEF Sound

LEMMA BrightnessKeeps ==
    ASSUME NEW x, NEW s, Sound(x, s), NEW negative \in BOOLEAN, NEW fail
    PROVE  Sound(SetBrightness(x, negative, fail), s)
<1> DEFINE y == SetBrightness(x, negative, fail)
<1>1. Aimed(y, s) /\ SameScreen(x, y)
    BY DEF SetBrightness, Failed, Sound, Aimed, Fields, SameScreen
<1>2. y.lamp \in BOOLEAN /\ y.down \in BOOLEAN
    BY DEF SetBrightness, Failed, Sound, Aimed, Fields, Shows, ScreenTypes
<1>3. /\ hardware.lamp /\ y.down => ~y.lamp
      /\ x.powered => (hardware.lamp /\ ~y.down => y.lamp)
    BY DEF SetBrightness, Failed, Sound, Aimed, Fields, Lit
<1> HIDE DEF y
<1>4. Shows(y, s)
    BY <1>1, <1>2 DEF Sound, Shows, ScreenTypes, SameScreen
<1>5. Lit(y)
    BY <1>1, <1>3 DEF Sound, Lit, SameScreen
<1>6. QED
    BY <1>1, <1>4, <1>5 DEF Sound, y

-----------------------------------------------------------------------------
(* Frames *)

\* Copying at least what differs makes the page the picture.
Suffices(x, s, page, damage) ==
    /\ page \in 1..MaxPages
    /\ damage = Regions \/ (x.pages[page] = s /\ damage = x.damage)

HasTarget(x, page, y) ==
    /\ DOMAIN y = Fields /\ y.pages = [x.pages EXCEPT ![page] = x.target]
    /\ \A f \in Fields \ {"pages"} : y[f] = x[f]

LEMMA CopyMakesTarget ==
    ASSUME NEW x, NEW s, Sound(x, s), x.target # None, NEW page, NEW damage,
           Suffices(x, s, page, damage)
    PROVE  x.target \in Screen /\ HasTarget(x, page, Copied(x, page, damage))
<1>1. x.target \in Pictures /\ x.target \in Screen
    BY ScreenFacts DEF Sound, Aimed
<1>2. x.pages \in [1..MaxPages -> Screen] /\ x.pages[page] \in Screen /\ s \in Screen /\ DOMAIN x = Fields
      /\ page \in 1..MaxPages
    BY DEF Suffices, Sound, Shows, ScreenTypes, Aimed
<1> DEFINE new == [r \in Regions |-> IF r \in damage THEN x.target[r] ELSE x.pages[page][r]]
<1>3. new = x.target
  <2>1. \A r \in Regions : new[r] = x.target[r]
    <3>1. CASE damage = Regions
        BY <3>1
    <3>2. CASE x.pages[page] = s /\ damage = x.damage
        BY <3>2 DEF Sound, Aimed
    <3>3. QED
        BY <3>1, <3>2 DEF Suffices
  <2>2. x.target = [r \in Regions |-> x.target[r]]
      BY <1>1 DEF Screen
  <2> HIDE DEF new
  <2>3. new = [r \in Regions |-> new[r]]
      BY DEF new
  <2>4. QED
      BY <2>1, <2>2, <2>3
<1>4. Copied(x, page, damage) = [x EXCEPT !.pages[page] = new]
    BY DEF Copied
<1>5. QED
    BY <1>1, <1>2, <1>3, <1>4 DEF Fields, HasTarget

\* A display that shows what it was given, once it was given it.
Saves(x, y, p) ==
    /\ DOMAIN y = Fields /\ y.pages \in [1..MaxPages -> Screen] /\ y.current \in 1..MaxPages
    /\ y.pages[y.current] = p
    /\ y.powered = x.powered /\ y.blanked = x.blanked /\ y.lamp = x.lamp /\ y.down = x.down
    /\ y.slots = x.slots /\ y.target = x.target /\ y.damage = x.damage /\ y.err = x.err

LEMMA SavedIsSound ==
    ASSUME NEW x, NEW s, Sound(x, s), x.powered, NEW y, NEW p \in Screen, Saves(x, y, p),
           x.target # None => p = x.target
    PROVE  /\ Sound([SaveCurrentFrame(y) EXCEPT !.fence = FALSE], p)
           /\ [SaveCurrentFrame(y) EXCEPT !.fence = FALSE].err = x.err
<1> DEFINE z == [SaveCurrentFrame(y) EXCEPT !.fence = FALSE]
<1>1. /\ DOMAIN z = Fields /\ z.last = p /\ z.pages = y.pages /\ z.current = y.current
      /\ z.powered = x.powered /\ z.blanked = x.blanked /\ z.lamp = x.lamp /\ z.down = x.down
      /\ z.slots = x.slots /\ z.target = x.target /\ z.damage = x.damage /\ z.err = x.err
    BY DEF Saves, SaveCurrentFrame, Fields
<1>2. p # None
    BY ScreenFacts
<1> HIDE DEF z
<1>3. Aimed(z, p)
    BY <1>1 DEF Sound, Aimed
<1>4. Shows(z, p)
    BY <1>1, <1>2 DEF Saves, Sound, Shows, ScreenTypes
<1>5. Lit(z)
    BY <1>1 DEF Saves, Sound, Lit
<1>6. QED
    BY <1>1, <1>3, <1>4, <1>5 DEF Sound, z

\* Presenting: a failure leaves the screen alone, else it shows the new picture.
Presented(x) == IF x.target = None THEN Clear ELSE x.target

LEMMA PresentKeeps ==
    ASSUME NEW x, NEW s, Sound(x, s), NEW fail, fail # "flush"
    PROVE  LET y == PresentLocked(x, fail) IN
           /\ y.err # "" => Sound(y, s)
           /\ y.err = "" => Sound(y, Presented(x))
<1> DEFINE y == PresentLocked(x, fail)
           page == TargetPage(x)
           copied == Copied(x, page, CopyDamage(x))
           visible == Copied(copied, x.current, Regions)
           black == [x EXCEPT !.pages = [p \in 1 .. MaxPages |-> Clear]]
           lostpan == [visible EXCEPT !.pan = fail = "pan"]
           flipped == [copied EXCEPT !.current = page]
<1>1. \/ y.err # "" /\ (y = x \/ \E e : y = [x EXCEPT !.err = e] \/ y = [[x EXCEPT !.err = e] EXCEPT !.fence = FALSE])
      \/ /\ x.err = "" /\ x.powered
         /\ \/ x.target = None /\ y = [SaveCurrentFrame(black) EXCEPT !.fence = FALSE]
            \/ x.target # None /\ y = [SaveCurrentFrame(lostpan) EXCEPT !.fence = FALSE]
            \/ x.target # None /\ y = [SaveCurrentFrame(flipped) EXCEPT !.fence = FALSE]
  <2>0. DOMAIN x = Fields
      BY DEF Sound, Aimed
  <2>1. CASE x.err # ""
      BY <2>1 DEF PresentLocked
  <2>2. CASE x.err = "" /\ x.validation # "kValidated"
      BY <2>0, <2>2 DEF PresentLocked, Failed, Fields
  <2>3. CASE x.err = "" /\ x.validation = "kValidated" /\ x.layers # << >> /\ x.target = None
      BY <2>0, <2>3 DEF PresentLocked, Failed, Fields
  <2>4. CASE x.err = "" /\ x.validation = "kValidated" /\ ~(x.layers # << >> /\ x.target = None)
    <3>1. y = [PresentDevice(x, fail) EXCEPT !.fence = FALSE]
        BY <2>4 DEF PresentLocked
    <3>2. \/ PresentDevice(x, fail) = [x EXCEPT !.err = "EX_NO_RESOURCES"]
          \/ x.powered /\ x.target = None /\ PresentDevice(x, fail) = SaveCurrentFrame(black)
          \/ x.powered /\ x.target # None /\ PresentDevice(x, fail) = SaveCurrentFrame(lostpan)
          \/ x.powered /\ x.target # None /\ PresentDevice(x, fail) = SaveCurrentFrame(flipped)
        BY DEF PresentDevice, Failed, Cleared, Sound, Shows, ScreenTypes
    <3> HIDE DEF black, lostpan, flipped
    <3>3. CASE PresentDevice(x, fail) = [x EXCEPT !.err = "EX_NO_RESOURCES"]
        BY <2>0, <3>1, <3>3 DEF Fields
    <3>4. QED
        BY <2>4, <3>1, <3>2, <3>3
  <2>5. QED
      BY <2>1, <2>2, <2>3, <2>4
<1> HIDE DEF y
<1>2. ASSUME y.err # "", y = x \/ \E e : y = [x EXCEPT !.err = e] \/ y = [[x EXCEPT !.err = e] EXCEPT !.fence = FALSE]
      PROVE  Sound(y, s)
  <2>1. Aimed(y, s) /\ SameDisplay(x, y)
      BY <1>2 DEF Sound, Aimed, Fields, SameDisplay, SameScreen
  <2>2. QED
      BY <2>1, SameIsSound DEF Sound
<1>3. ASSUME x.powered, x.target = None, y = [SaveCurrentFrame(black) EXCEPT !.fence = FALSE]
      PROVE  Sound(y, Clear) /\ y.err = x.err
  <2>1. Clear \in Screen /\ x.current \in 1..MaxPages /\ DOMAIN x = Fields
      BY ScreenFacts DEF Sound, Shows, ScreenTypes, Aimed
  <2>2. Saves(x, black, Clear)
      BY <2>1 DEF Saves, Fields
  <2> HIDE DEF black
  <2>3. QED
      BY <1>3, <2>1, <2>2, SavedIsSound
<1>4. ASSUME x.powered, x.target # None
      PROVE  \A z \in {lostpan, flipped} :
                /\ Sound([SaveCurrentFrame(z) EXCEPT !.fence = FALSE], x.target)
                /\ [SaveCurrentFrame(z) EXCEPT !.fence = FALSE].err = x.err
  <2>1. page \in 1..MaxPages /\ x.current \in 1..MaxPages
        /\ (CopyDamage(x) = Regions \/ (page = x.current /\ CopyDamage(x) = x.damage))
    <3>1. x.current \in 1..MaxPages /\ MaxPages \in Nat \ {0}
        BY PicturesAssumption DEF Sound, Shows, ScreenTypes
    <3>2. (x.current % MaxPages) + 1 \in 1..MaxPages
        BY <3>1
    <3>3. QED
        BY <3>1, <3>2 DEF TargetPage, CopyDamage
  <2>2. x.pages[x.current] = s /\ x.pages \in [1..MaxPages -> Screen] /\ DOMAIN x = Fields
      BY <1>4 DEF Sound, Shows, ScreenTypes, Aimed
  <2>3. Suffices(x, s, page, CopyDamage(x))
      BY <2>1, <2>2 DEF Suffices
  <2> HIDE DEF page
  <2>4. /\ x.target \in Screen /\ DOMAIN copied = Fields
        /\ copied.pages = [x.pages EXCEPT ![page] = x.target]
        /\ \A f \in Fields \ {"pages"} : copied[f] = x[f]
    <3>1. x.target \in Screen /\ HasTarget(x, page, copied)
        BY <1>4, <2>3, CopyMakesTarget
    <3> HIDE DEF copied
    <3>2. QED
        BY <3>1 DEF HasTarget
  <2> HIDE DEF copied
  <2>5. copied.pages \in [1..MaxPages -> Screen] /\ copied.pages[page] = x.target
      BY <2>1, <2>2, <2>4
  <2>6. /\ Sound([SaveCurrentFrame(flipped) EXCEPT !.fence = FALSE], x.target)
        /\ [SaveCurrentFrame(flipped) EXCEPT !.fence = FALSE].err = x.err
    <3>1. Saves(x, flipped, x.target)
        BY <2>1, <2>4, <2>5 DEF Saves, Fields
    <3> HIDE DEF flipped
    <3>2. QED
        BY <1>4, <2>4, <3>1, SavedIsSound
  <2>7. /\ DOMAIN visible = Fields /\ visible.pages \in [1..MaxPages -> Screen]
        /\ visible.pages[x.current] = x.target
        /\ \A f \in Fields \ {"pages"} : visible[f] = x[f]
    <3>1. visible = [copied EXCEPT !.pages[x.current] =
                        [r \in Regions |-> IF r \in Regions THEN copied.target[r] ELSE @[r]]]
        BY DEF Copied
    <3>2. copied.target = x.target /\ x.target = [r \in Regions |-> x.target[r]]
        BY <2>4 DEF Fields, Screen
    <3>3. [r \in Regions |-> IF r \in Regions THEN copied.target[r] ELSE copied.pages[x.current][r]] = x.target
        BY <3>2
    <3>4. visible = [copied EXCEPT !.pages = [copied.pages EXCEPT ![x.current] = x.target]]
        BY <3>1, <3>3
    <3> HIDE DEF visible
    <3>5. QED
        BY <2>1, <2>4, <2>5, <3>4 DEF Fields
  <2> HIDE DEF visible
  <2>8. /\ Sound([SaveCurrentFrame(lostpan) EXCEPT !.fence = FALSE], x.target)
        /\ [SaveCurrentFrame(lostpan) EXCEPT !.fence = FALSE].err = x.err
    <3>1. Saves(x, lostpan, x.target)
        BY <2>1, <2>7 DEF Saves, Fields
    <3> HIDE DEF lostpan
    <3>2. QED
        BY <1>4, <2>4, <3>1, SavedIsSound
  <2>9. QED
      BY <2>6, <2>8
<1> HIDE DEF black, lostpan, flipped
<1>5. QED
    BY <1>1, <1>2, <1>3, <1>4 DEF Presented, y

-----------------------------------------------------------------------------
(* Power *)

Switched(x, s, y, on) ==
    y = Failed(x, "EX_NO_RESOURCES") \/ (Sound(y, s) /\ y.powered = on /\ y.err = x.err)

\* A display that was off and is lit again shows its last frame.
LEMMA PowerOnKeeps ==
    ASSUME NEW x, NEW s, Sound(x, s), NEW fail, fail \notin {"flush", "lamp"}
    PROVE  Switched(x, s, PowerOn(x, fail), TRUE)
<1> DEFINE dark == [x EXCEPT !.blanked = FALSE]
           lit == RestoreCurrentFrame(dark)
           light == IF hardware.lamp /\ ~x.down THEN TRUE ELSE lit.lamp
           on == [lit EXCEPT !.powered = TRUE, !.lamp = light]
<1>1. PowerOn(x, fail) \in {Failed(x, "EX_NO_RESOURCES"), on}
    BY DEF PowerOn
<1>2. /\ DOMAIN x = Fields /\ x.pages \in [1..MaxPages -> Screen] /\ x.current \in 1..MaxPages
      /\ x.last \in Screen \cup {None}
      /\ x.last = None => s = Clear /\ x.pages[x.current] = Clear
      /\ x.last # None => x.last = s
    BY DEF Sound, Shows, ScreenTypes, Aimed
<1>3. /\ DOMAIN lit = Fields /\ lit.pages \in [1..MaxPages -> Screen]
      /\ lit.pages[x.current] = s /\ lit.blanked = FALSE
      /\ \A f \in Fields \ {"pages", "blanked"} : lit[f] = x[f]
  <2>1. CASE x.last = None
      BY <1>2, <2>1 DEF RestoreCurrentFrame, Fields
  <2>2. CASE x.last # None
    <3>1. x.last \in Screen
        BY <1>2, <2>2
    <3>2. lit = [x EXCEPT !.blanked = FALSE, !.pages = [x.pages EXCEPT ![x.current] = x.last]]
        BY <1>2, <2>2 DEF RestoreCurrentFrame, Fields
    <3> HIDE DEF lit
    <3>3. QED
        BY <1>2, <2>2, <3>1, <3>2 DEF Fields
  <2>3. QED
      BY <2>1, <2>2
<1> HIDE DEF lit
<1>4. /\ light \in BOOLEAN /\ (hardware.lamp /\ ~x.down => light)
      /\ (hardware.lamp /\ x.down => ~light)
    BY <1>3 DEF Sound, Shows, ScreenTypes, Lit, Fields
<1> HIDE DEF light
<1>5. /\ DOMAIN on = Fields /\ on.pages = lit.pages /\ on.blanked = FALSE /\ on.powered = TRUE
      /\ on.lamp = light
      /\ \A f \in Fields \ {"pages", "blanked", "powered", "lamp"} : on[f] = x[f]
    BY <1>3 DEF Fields
<1> HIDE DEF on
<1>6. Aimed(on, s)
    BY <1>5 DEF Sound, Aimed, Fields
<1>7. Shows(on, s)
    BY <1>2, <1>3, <1>4, <1>5 DEF Sound, Shows, ScreenTypes, Fields
<1>8. Lit(on)
    BY <1>3, <1>4, <1>5 DEF Sound, Lit, Fields
<1>9. on.powered = TRUE /\ on.err = x.err
    BY <1>5 DEF Fields
<1>10. QED
    BY <1>1, <1>6, <1>7, <1>8, <1>9 DEF Sound, Switched

\* A display that is switched off is blanked, or cleared where that is not supported.
LEMMA PowerOffKeeps ==
    ASSUME NEW x, NEW s, Sound(x, s), x.powered, NEW fail, fail # "flush"
    PROVE  Switched(x, s, PowerOff(x, fail), FALSE)
<1> DEFINE blank == [x EXCEPT !.powered = FALSE, !.blanked = TRUE]
           cleared == [[x EXCEPT !.pages = [p \in 1 .. MaxPages |-> Clear]] EXCEPT !.powered = FALSE]
<1>1. PowerOff(x, fail) \in {Failed(x, "EX_NO_RESOURCES"), blank, cleared}
    BY DEF PowerOff
<1>2. /\ DOMAIN x = Fields /\ x.pages \in [1..MaxPages -> Screen] /\ x.current \in 1..MaxPages
      /\ Clear \in Screen
    BY ScreenFacts DEF Sound, Shows, ScreenTypes, Aimed
<1>3. Sound(blank, s) /\ blank.powered = FALSE /\ blank.err = x.err
  <2>1. /\ DOMAIN blank = Fields /\ blank.powered = FALSE /\ blank.blanked = TRUE
        /\ \A f \in Fields \ {"blanked", "powered"} : blank[f] = x[f]
      BY <1>2 DEF Fields
  <2> HIDE DEF blank
  <2>2. Aimed(blank, s)
      BY <2>1 DEF Sound, Aimed, Fields
  <2>3. Shows(blank, s)
      BY <2>1 DEF Sound, Shows, ScreenTypes, Fields
  <2>4. Lit(blank)
      BY <2>1 DEF Sound, Lit, Fields
  <2>5. QED
      BY <2>1, <2>2, <2>3, <2>4 DEF Sound, Fields
<1>4. Sound(cleared, s) /\ cleared.powered = FALSE /\ cleared.err = x.err
  <2>1. /\ DOMAIN cleared = Fields /\ cleared.powered = FALSE
        /\ cleared.pages = [p \in 1 .. MaxPages |-> Clear]
        /\ \A f \in Fields \ {"pages", "powered"} : cleared[f] = x[f]
      BY <1>2 DEF Fields
  <2> HIDE DEF cleared
  <2>2. cleared.pages \in [1..MaxPages -> Screen] /\ cleared.pages[x.current] = Clear
      BY <1>2, <2>1
  <2>3. Aimed(cleared, s)
      BY <2>1 DEF Sound, Aimed, Fields
  <2>4. Shows(cleared, s)
      BY <2>1, <2>2 DEF Sound, Shows, ScreenTypes, Fields
  <2>5. Lit(cleared)
      BY <2>1, <2>2 DEF Sound, Lit, Fields
  <2>6. QED
      BY <2>1, <2>3, <2>4, <2>5 DEF Sound, Fields
<1>5. QED
    BY <1>1, <1>3, <1>4 DEF Switched

\* Errors and their reset touch nothing a display shows.
LEMMA ErrorKeeps ==
    ASSUME NEW x, NEW s, Sound(x, s), NEW e
    PROVE  /\ Sound(Failed(x, e), s) /\ Failed(x, e).err = e /\ Failed(x, e).powered = x.powered
           /\ Sound([x EXCEPT !.err = e], s) /\ [x EXCEPT !.err = e].err = e
           /\ [x EXCEPT !.err = e].powered = x.powered
<1> DEFINE y == [x EXCEPT !.err = e]
<1>1. Aimed(y, s) /\ SameDisplay(x, y) /\ y.err = e
    BY DEF Sound, Aimed, Fields, SameDisplay, SameScreen
<1>2. Failed(x, e) = y
    BY DEF Failed
<1> HIDE DEF y
<1>3. Shows(y, s) /\ Lit(y)
    BY <1>1, SameIsSound
<1>4. Sound(y, s) /\ y.err = e /\ y.powered = x.powered
    BY <1>1, <1>3 DEF Sound, SameDisplay, SameScreen
<1>5. QED
    BY <1>2, <1>4 DEF y

\* A call that failed left the display as it was, one that did not switched it.
LEMMA PowerKeeps ==
    ASSUME NEW x, NEW s, Sound(x, s), x.err = "", NEW on \in BOOLEAN,
           NEW fail, fail \notin {"flush", "lamp"}
    PROVE  LET y == SetPower(x, on, fail) IN
           Sound(y, s) /\ y.powered = IF y.err = "" THEN on ELSE x.powered
<1> DEFINE y == SetPower(x, on, fail)
           relit == [x EXCEPT !.lamp = TRUE, !.down = FALSE]
           up == [x EXCEPT !.down = FALSE]
<1>0. x.powered \in BOOLEAN
    BY DEF Sound, Shows, ScreenTypes
<1>1. ASSUME NEW z, Switched(x, s, z, on)
      PROVE  Sound(z, s) /\ z.powered = IF z.err = "" THEN on ELSE x.powered
  <2>1. CASE z = Failed(x, "EX_NO_RESOURCES")
    <3>1. Sound(z, s) /\ z.err = "EX_NO_RESOURCES" /\ z.powered = x.powered
        BY <2>1, ErrorKeeps, Zenon
    <3>2. QED
        BY <3>1
  <2>2. CASE Sound(z, s) /\ z.powered = on /\ z.err = x.err
      BY <2>2
  <2>3. QED
      BY <1>1, <2>1, <2>2 DEF Switched
<1>2. ASSUME x.powered = on, x.powered, NEW z, DOMAIN z = Fields, z.down = FALSE, z.lamp \in BOOLEAN,
             hardware.lamp => z.lamp, \A f \in Fields \ {"lamp", "down"} : z[f] = x[f]
      PROVE  Switched(x, s, z, on)
  <2>1. Aimed(z, s)
      BY <1>2 DEF Sound, Aimed, Fields
  <2>2. Shows(z, s)
      BY <1>2 DEF Sound, Shows, ScreenTypes, Fields
  <2>3. Lit(z)
      BY <1>2 DEF Sound, Lit, Fields
  <2>4. QED
      BY <1>2, <2>1, <2>2, <2>3 DEF Sound, Fields, Switched
<1>3. CASE x.powered # on /\ on = TRUE
  <2>1. y = PowerOn(x, fail)
      BY <1>3 DEF SetPower
  <2> HIDE DEF y
  <2>2. Switched(x, s, y, on)
      BY <1>3, <2>1, PowerOnKeeps
  <2>3. QED
      BY <2>2, <1>1 DEF y
<1>4. CASE x.powered # on /\ on = FALSE
  <2>1. y = PowerOff(x, fail) /\ x.powered
      BY <1>0, <1>4 DEF SetPower
  <2> HIDE DEF y
  <2>2. Switched(x, s, y, on)
      BY <1>4, <2>1, PowerOffKeeps
  <2>3. QED
      BY <2>2, <1>1 DEF y
<1>5. CASE x.powered = on /\ on = FALSE
    BY <1>5 DEF SetPower
<1>6. CASE x.powered = on /\ on = TRUE
  <2>1. \/ y = relit
        \/ y = up /\ ~(x.down /\ hardware.lamp)
      BY <1>6 DEF SetPower
  <2>2. y = relit => Switched(x, s, y, on)
    <3>1. /\ DOMAIN relit = Fields /\ relit.down = FALSE /\ relit.lamp = TRUE
          /\ \A f \in Fields \ {"lamp", "down"} : relit[f] = x[f]
        BY DEF Sound, Aimed, Fields
    <3> HIDE DEF relit, y
    <3>2. QED
        BY <1>2, <1>6, <3>1
  <2>3. y = up /\ ~(x.down /\ hardware.lamp) => Switched(x, s, y, on)
    <3>1. /\ DOMAIN up = Fields /\ up.down = FALSE /\ up.lamp = x.lamp
          /\ \A f \in Fields \ {"lamp", "down"} : up[f] = x[f]
        BY DEF Sound, Aimed, Fields
    <3>2. x.lamp \in BOOLEAN /\ (hardware.lamp /\ ~x.down => x.lamp)
        BY <1>6 DEF Sound, Shows, ScreenTypes, Lit
    <3> HIDE DEF up, y
    <3>3. QED
        BY <1>2, <1>6, <3>1, <3>2
  <2> HIDE DEF y, relit, up
  <2>4. QED
      BY <1>1, <2>1, <2>2, <2>3 DEF y
<1>7. QED
    BY <1>0, <1>3, <1>4, <1>5, <1>6


-----------------------------------------------------------------------------
(* Commands *)

\* No part of a command switches the display.
LEMMA PoweredStays ==
    ASSUME NEW x, DOMAIN x = Fields, NEW l, NEW t, NEW negative, NEW fail
    PROVE  /\ ApplyLayerLocked(x, l).powered = x.powered
           /\ SetClientTargetLocked(x, t, fail).powered = x.powered
           /\ ValidateLocked(x).powered = x.powered
           /\ AcceptDisplayChanges(x).powered = x.powered
           /\ SetBrightness(x, negative, fail).powered = x.powered
           /\ PresentLocked(x, fail).powered = x.powered
<1>1. ApplyLayerLocked(x, l).powered = x.powered
    BY DEF ApplyLayerLocked, Failed, Emptied, Fields
<1>2. SetClientTargetLocked(x, t, fail).powered = x.powered
    BY DEF SetClientTargetLocked, Failed, Fields
<1>3. /\ ValidateLocked(x).powered = x.powered
      /\ AcceptDisplayChanges(x).powered = x.powered
    BY DEF ValidateLocked, AcceptDisplayChanges, Failed, Fields
<1>4. SetBrightness(x, negative, fail).powered = x.powered
    BY DEF SetBrightness, Failed, Fields
<1>5. PresentLocked(x, fail).powered = x.powered
  <2>1. PresentDevice(x, fail).powered = x.powered /\ DOMAIN PresentDevice(x, fail) = Fields
      BY DEF PresentDevice, Failed, Cleared, SaveCurrentFrame, Copied, Fields
  <2>2. QED
      BY <2>1 DEF PresentLocked, Failed, Fields
<1>6. QED
    BY <1>1, <1>2, <1>3, <1>4, <1>5

\* A command that failed puts back what it was given for the next one.
LEMMA RestoreKeeps ==
    ASSUME NEW x, NEW y, NEW s, Sound(x, s), Aimed(y, s)
    PROVE  Sound(Restore(x, y), s) /\ Restore(x, y).powered = x.powered
<1>1. /\ Aimed(Restore(x, y), s) /\ SameDisplay(x, Restore(x, y))
    BY DEF Restore, Sound, Aimed, Fields, SameDisplay, SameScreen
<1>2. QED
    BY <1>1, SameIsSound DEF Sound, SameDisplay, SameScreen

\* Its target damages what it changes, and no write is refused.
Careful(cmd, fail) ==
    /\ fail # "flush"
    /\ cmd.target # None => cmd.layer = None /\ Covers(d, cmd.target, shown)

LEMMA CommandKeeps ==
    ASSUME DisplayInv, NEW cmd, NEW fail, Careful(cmd, fail), ExecuteCommand(cmd, fail)
    PROVE  DisplayInv'
<1>0. Sound(d, shown) /\ d.err = ""
    BY DEF DisplayInv, Sound
<1> DEFINE Over(ready, done) ==
             /\ cmd.bright # None => hardware.lamp
             /\ Finish(IF done.err = "" THEN done ELSE Restore(done, d))
             /\ shown' = IF ~cmd.present \/ done.err # "" THEN shown
                         ELSE IF ready.target = None THEN Clear ELSE ready.target
             /\ UNCHANGED <<hardware, asked>>
           Ends(ready) ==
             \E done \in {IF cmd.present THEN PresentLocked(ready, fail) ELSE ready} :
                Over(ready, done)
           Lights(accepted) ==
             \E ready \in {IF cmd.bright = None THEN accepted
                           ELSE SetBrightness(accepted, cmd.bright = "down", fail = "bright")} :
                Ends(ready)
           Accepts(validated) ==
             \E accepted \in {IF cmd.accept THEN AcceptDisplayChanges(validated) ELSE validated} :
                Lights(accepted)
           Validates(targeted) ==
             \E validated \in {IF cmd.validate THEN ValidateLocked(targeted) ELSE targeted} :
                Accepts(validated)
<1>1. PICK layered \in {IF cmd.layer = None THEN d ELSE ApplyLayerLocked(d, cmd.layer)} :
      \E targeted \in {IF cmd.target = None THEN layered
                       ELSE SetClientTargetLocked(layered, cmd.target, fail)} :
         Validates(targeted)
    BY Zenon DEF ExecuteCommand
<1>2. PICK targeted \in {IF cmd.target = None THEN layered
                         ELSE SetClientTargetLocked(layered, cmd.target, fail)} :
         Validates(targeted)
    BY <1>1, Zenon
<1>3. PICK validated \in {IF cmd.validate THEN ValidateLocked(targeted) ELSE targeted} :
         Accepts(validated)
    BY <1>2, Zenon
<1>4. PICK accepted \in {IF cmd.accept THEN AcceptDisplayChanges(validated) ELSE validated} :
         Lights(accepted)
    BY <1>3, Zenon
<1>5. PICK ready \in {IF cmd.bright = None THEN accepted
                      ELSE SetBrightness(accepted, cmd.bright = "down", fail = "bright")} :
         Ends(ready)
    BY <1>4, Zenon
<1>6. PICK done \in {IF cmd.present THEN PresentLocked(ready, fail) ELSE ready} :
         Over(ready, done)
    BY <1>5, Zenon
<1> DEFINE Kept(x) == Sound(x, shown) /\ x.powered = d.powered
<1>7. \A x : Kept(x) => DOMAIN x = Fields
    BY DEF Sound, Aimed
<1> HIDE DEF Kept
<1>8. Kept(d)
    BY <1>0 DEF Kept
<1>9. Kept(layered)
  <2>1. Kept(ApplyLayerLocked(d, cmd.layer))
      BY <1>0, <1>7, <1>8, LayerKeeps, PoweredStays DEF Kept
  <2>2. QED
      BY <1>1, <1>8, <2>1
<1>10. Kept(targeted)
  <2>1. CASE cmd.target = None
      BY <1>2, <1>9, <2>1
  <2>2. CASE cmd.target # None
    <3>1. layered = d /\ Covers(d, cmd.target, shown)
        BY <1>1, <2>2 DEF Careful
    <3>2. Kept(SetClientTargetLocked(d, cmd.target, fail))
      <4>1. Sound(SetClientTargetLocked(d, cmd.target, fail), shown)
          BY <1>0, <3>1, TargetKeeps, Zenon
      <4>2. SetClientTargetLocked(d, cmd.target, fail).powered = d.powered
          BY <1>7, <1>8, PoweredStays
      <4>3. QED
          BY <4>1, <4>2 DEF Kept
    <3>3. QED
        BY <1>2, <2>2, <3>1, <3>2
  <2>3. QED
      BY <2>1, <2>2
<1>11. \A x : Kept(x) => Kept(ValidateLocked(x)) /\ Kept(AcceptDisplayChanges(x))
    BY <1>7, ValidateAndAcceptKeep, PoweredStays DEF Kept
<1>12. Kept(validated)
    BY <1>3, <1>10, <1>11
<1>13. Kept(accepted)
    BY <1>4, <1>12, <1>11
<1>14. Kept(ready)
  <2>1. Kept(SetBrightness(accepted, cmd.bright = "down", fail = "bright"))
    <3> DEFINE negative == cmd.bright = "down"
               refused == fail = "bright"
    <3>1. negative \in BOOLEAN
        OBVIOUS
    <3> HIDE DEF negative, refused
    <3>2. Sound(accepted, shown) /\ accepted.powered = d.powered
        BY <1>13 DEF Kept
    <3>3. Sound(SetBrightness(accepted, negative, refused), shown)
        BY <3>1, <3>2, BrightnessKeeps, Zenon
    <3>4. SetBrightness(accepted, negative, refused).powered = d.powered
        BY <1>7, <1>13, <3>2, PoweredStays
    <3>5. QED
        BY <3>3, <3>4 DEF Kept, negative, refused
  <2>2. QED
      BY <1>5, <1>13, <2>1
<1>15. done.powered = d.powered
  <2>1. PresentLocked(ready, fail).powered = ready.powered
      BY <1>7, <1>14, PoweredStays
  <2>2. QED
      BY <1>6, <1>14, <2>1 DEF Kept
<1>16. CASE done.err # ""
  <2>1. Sound(done, shown)
    <3>1. PresentLocked(ready, fail).err # "" => Sound(PresentLocked(ready, fail), shown)
        BY <1>14, PresentKeeps DEF Kept, Careful
    <3>2. QED
        BY <1>6, <1>14, <1>16, <3>1 DEF Kept
  <2>2. Sound(Restore(done, d), shown) /\ Restore(done, d).powered = d.powered
      BY <1>0, <1>15, <2>1, RestoreKeeps DEF Sound
  <2>3. shown' = shown /\ d' = [Restore(done, d) EXCEPT !.err = ""] /\ UNCHANGED <<hardware, asked>>
      BY <1>6, <1>16 DEF Finish
  <2> DEFINE x == Restore(done, d)
  <2> HIDE DEF x
  <2>4. Sound(d', shown) /\ d'.err = "" /\ d'.powered = d.powered
    <3>1. Sound([x EXCEPT !.err = ""], shown) /\ [x EXCEPT !.err = ""].err = ""
          /\ [x EXCEPT !.err = ""].powered = x.powered
        BY <2>2, ErrorKeeps, Zenon DEF x
    <3>2. QED
        BY <2>2, <2>3, <3>1 DEF x
  <2>5. QED
      BY <2>3, <2>4 DEF DisplayInv, Sound, Aimed, Shows, ScreenTypes, Lit
<1>17. CASE done.err = ""
  <2>1. Sound(done, shown')
    <3>1. PresentLocked(ready, fail).err = "" => Sound(PresentLocked(ready, fail), Presented(ready))
        BY <1>14, PresentKeeps DEF Kept, Careful
    <3>2. CASE cmd.present
      <4>1. done = PresentLocked(ready, fail) /\ shown' = Presented(ready)
          BY <1>6, <1>17, <3>2 DEF Presented
      <4>2. QED
          BY <1>17, <3>1, <4>1
    <3>3. CASE ~cmd.present
      <4>1. done = ready /\ shown' = shown
          BY <1>6, <1>17, <3>3
      <4>2. QED
          BY <1>14, <4>1 DEF Kept
    <3>4. QED
        BY <3>2, <3>3
  <2>2. d' = [done EXCEPT !.err = ""] /\ UNCHANGED <<hardware, asked>>
      BY <1>6, <1>17 DEF Finish
  <2>3. Sound(d', shown') /\ d'.err = "" /\ d'.powered = d.powered
    <3>1. Sound([done EXCEPT !.err = ""], shown') /\ [done EXCEPT !.err = ""].err = ""
          /\ [done EXCEPT !.err = ""].powered = done.powered
        BY <2>1, ErrorKeeps, Zenon
    <3>2. QED
        BY <1>15, <2>2, <3>1
  <2>4. QED
      BY <2>2, <2>3 DEF DisplayInv, Sound, Aimed, Shows, ScreenTypes, Lit
<1>18. QED
    BY <1>16, <1>17


\* The calls that only rearrange layers and slots.
Rearranged(x) ==
    /\ Aimed(x, shown) /\ SameDisplay(d, x)
    /\ Finish(x) /\ UNCHANGED <<hardware, asked, shown>>

LEMMA RearrangingKeeps ==
    ASSUME DisplayInv, NEW x, Rearranged(x)
    PROVE  DisplayInv'
<1>1. Sound(d, shown)
    BY DEF DisplayInv, Sound
<1>2. Aimed(x, shown) /\ SameDisplay(d, x)
    BY DEF Rearranged
<1>3. Sound(x, shown) /\ x.powered = d.powered
    BY <1>1, <1>2, SameIsSound DEF Sound, SameDisplay, SameScreen
<1>4. Sound([x EXCEPT !.err = ""], shown) /\ [x EXCEPT !.err = ""].err = ""
      /\ [x EXCEPT !.err = ""].powered = x.powered
    BY <1>3, ErrorKeeps, Zenon
<1>5. d' = [x EXCEPT !.err = ""] /\ UNCHANGED <<hardware, asked, shown>>
    BY DEF Rearranged, Finish
<1>6. QED
    BY <1>3, <1>4, <1>5 DEF DisplayInv, Sound, Aimed, Shows, ScreenTypes, Lit

LEMMA PowerModeKeeps ==
    ASSUME DisplayInv, NEW on \in BOOLEAN, NEW fail, fail \notin {"flush", "lamp"},
           SetPowerMode(on, fail)
    PROVE  DisplayInv'
<1>1. Sound(d, shown) /\ d.err = ""
    BY DEF DisplayInv, Sound
<1> DEFINE x == SetPower(d, on, fail)
<1>2. /\ Finish(x) /\ UNCHANGED <<hardware, shown>>
      /\ asked' = IF x.err # "" THEN asked ELSE IF on THEN "ON" ELSE "OFF"
    BY Zenon DEF SetPowerMode
<1>3. Sound(x, shown) /\ x.powered = IF x.err = "" THEN on ELSE d.powered
    BY <1>1, PowerKeeps, Zenon
<1> HIDE DEF x
<1>4. Sound([x EXCEPT !.err = ""], shown) /\ [x EXCEPT !.err = ""].err = ""
      /\ [x EXCEPT !.err = ""].powered = x.powered
    BY <1>3, ErrorKeeps, Zenon
<1>5. d' = [x EXCEPT !.err = ""]
    BY <1>2 DEF Finish
<1>6. asked' = IF d'.powered THEN "ON" ELSE "OFF"
    BY <1>2, <1>3, <1>4, <1>5 DEF DisplayInv
<1>7. QED
    BY <1>2, <1>4, <1>5, <1>6 DEF DisplayInv, Sound, Aimed, Shows, ScreenTypes, Lit

\* The damage of a target the framework may hand over.
LEMMA DamageCovers ==
    ASSUME DisplayInv, NEW p \in Pictures, NEW x \in DamageOf(p), NEW s, NEW fence,
           NEW t, t = [slot |-> s, picture |-> p, damage |-> x, fence |-> fence]
    PROVE  Covers(d, t, shown)
<1>1. x \subseteq Regions /\ \A r \in Regions : p[r] # shown[r] => r \in x
    BY DEF DamageOf
<1>2. p # None
    BY ScreenFacts
<1>3. QED
    BY <1>1, <1>2 DEF Covers

LEMMA SlotDamageCovers ==
    ASSUME DisplayInv, NEW i \in DOMAIN d.slots, i - 1 + 1 = i, d.slots[i] # None,
           NEW x \in DamageOf(d.slots[i]), NEW fence,
           NEW t, t = [slot |-> i - 1, picture |-> None, damage |-> x, fence |-> fence]
    PROVE  Covers(d, t, shown)
<1>1. x \subseteq Regions /\ \A r \in Regions : d.slots[i][r] # shown[r] => r \in x
    BY DEF DamageOf
<1>2. None \notin Pictures
    BY ScreenFacts
<1>3. QED
    BY <1>1, <1>2 DEF Covers

\* No step of the display breaks what it shows, unless it is refused in the middle
\* of a frame or of its backlight.
LEMMA DisplayStep ==
    ASSUME DisplayInv, FlushFails = FALSE, LampFails = FALSE, Next
    PROVE  DisplayInv'
<1>0. Sound(d, shown) /\ Aimed(d, shown) /\ DOMAIN d = Fields
    BY DEF DisplayInv, Sound, Aimed
<1>1. ASSUME CreateLayer PROVE DisplayInv'
  <2> DEFINE x == [d EXCEPT !.layers = [i \in DOMAIN d.layers \cup {d.next} |->
                                          IF i \in DOMAIN d.layers THEN d.layers[i] ELSE "INVALID"],
                            !.next = @ + 1, !.validation = "kDirty"]
  <2>1. Finish(x) /\ UNCHANGED <<hardware, asked, shown>>
      BY <1>1 DEF CreateLayer
  <2>2. Aimed(x, shown) /\ SameDisplay(d, x)
      BY <1>0 DEF Aimed, Fields, SameDisplay, SameScreen
  <2> HIDE DEF x
  <2>3. QED
      BY <2>1, <2>2, RearrangingKeeps DEF Rearranged
<1>2. ASSUME DestroyLayer PROVE DisplayInv'
  <2>1. PICK l \in DOMAIN d.layers :
          Finish(Emptied([d EXCEPT !.layers = [i \in DOMAIN d.layers \ {l} |-> d.layers[i]],
                                   !.validation = "kDirty"]))
      BY <1>2 DEF DestroyLayer
  <2> DEFINE y == [d EXCEPT !.layers = [i \in DOMAIN d.layers \ {l} |-> d.layers[i]],
                            !.validation = "kDirty"]
  <2>2. Aimed(y, shown) /\ SameDisplay(d, y)
      BY <1>0 DEF Aimed, Fields, SameDisplay, SameScreen
  <2> HIDE DEF y
  <2>3. Aimed(Emptied(y), shown) /\ SameDisplay(d, Emptied(y))
      BY <2>2 DEF Emptied, Aimed, Fields, SameDisplay, SameScreen
  <2>4. Rearranged(Emptied(y))
      BY <1>2, <2>1, <2>3 DEF y, Rearranged, DestroyLayer
  <2>5. QED
      BY <2>4, RearrangingKeeps
<1>3. ASSUME NEW count \in 0 .. MaxSlots, SetClientTargetSlotCount(count) PROVE DisplayInv'
  <2> DEFINE x == [d EXCEPT !.target = None, !.damage = {}, !.slots = [i \in 1 .. count |-> None],
                            !.fence = FALSE]
  <2>1. Finish(x) /\ UNCHANGED <<hardware, asked, shown>>
      BY <1>3 DEF SetClientTargetSlotCount
  <2>2. Aimed(x, shown) /\ SameDisplay(d, x)
      BY <1>0 DEF Aimed, Fields, SameDisplay, SameScreen
  <2> HIDE DEF x
  <2>3. QED
      BY <2>1, <2>2, RearrangingKeeps DEF Rearranged
<1>4. \A fail \in Stages : fail # "flush"
  <2>1. None # "flush"
      BY ScreenFacts
  <2>2. QED
      BY <2>1 DEF Stages
<1>5. ASSUME NEW o \in {"CREATE", "DESTROY", "MODIFY"}, NEW l \in 1 .. MaxLayer,
             NEW c \in {None, "DEVICE"}, ExecuteCommand([Plain EXCEPT !.layer = Layer(o, l, c)], None)
      PROVE  DisplayInv'
  <2> DEFINE cmd == [Plain EXCEPT !.layer = Layer(o, l, c)]
  <2>1. cmd.target = None /\ None # "flush"
      BY ScreenFacts DEF Plain
  <2> HIDE DEF cmd
  <2>2. Careful(cmd, None)
      BY <2>1 DEF Careful
  <2>3. QED
      BY <1>5, <2>2, CommandKeeps DEF cmd
<1>6. ASSUME NEW p \in Pictures, NEW s \in 0 .. MaxSlots - 1, NEW present \in BOOLEAN,
             NEW fail \in Stages, NEW x \in DamageOf(p),
             ExecuteCommand([Plain EXCEPT
                               !.target = [slot |-> s, picture |-> p, damage |-> x, fence |-> TRUE],
                               !.validate = TRUE, !.accept = TRUE, !.present = present], fail)
      PROVE  DisplayInv'
  <2> DEFINE t == [slot |-> s, picture |-> p, damage |-> x, fence |-> TRUE]
             cmd == [Plain EXCEPT !.target = t, !.validate = TRUE, !.accept = TRUE,
                                  !.present = present]
  <2>1. Covers(d, t, shown)
      BY DamageCovers
  <2>2. ExecuteCommand(cmd, fail)
      BY <1>6
  <2> HIDE DEF t
  <2>3. cmd.target = t /\ cmd.layer = None
      BY DEF Plain
  <2> HIDE DEF cmd
  <2>4. Careful(cmd, fail)
      BY <1>4, <2>1, <2>3 DEF Careful
  <2>5. QED
      BY <2>2, <2>4, CommandKeeps
<1>7. ASSUME NEW i \in DOMAIN d.slots, NEW fail \in Stages, d.slots[i] # None,
             NEW x \in DamageOf(d.slots[i]),
             ExecuteCommand([Plain EXCEPT
                               !.target = [slot |-> i - 1, picture |-> None, damage |-> x,
                                           fence |-> FALSE],
                               !.present = TRUE], fail)
      PROVE  DisplayInv'
  <2> DEFINE t == [slot |-> i - 1, picture |-> None, damage |-> x, fence |-> FALSE]
             cmd == [Plain EXCEPT !.target = t, !.present = TRUE]
  <2>1. i - 1 + 1 = i
      BY <1>0 DEF Aimed
  <2>2. Covers(d, t, shown)
      BY <1>7, <2>1, SlotDamageCovers
  <2>3. ExecuteCommand(cmd, fail)
      BY <1>7
  <2> HIDE DEF t
  <2>4. cmd.target = t /\ cmd.layer = None
      BY DEF Plain
  <2> HIDE DEF cmd
  <2>5. Careful(cmd, fail)
      BY <1>4, <2>2, <2>4 DEF Careful
  <2>6. QED
      BY <2>3, <2>5, CommandKeeps
<1>8. ASSUME NEW v \in BOOLEAN, NEW a \in BOOLEAN, NEW present \in BOOLEAN, NEW fail \in Stages,
             ExecuteCommand([Plain EXCEPT !.validate = v, !.accept = a, !.present = present], fail)
      PROVE  DisplayInv'
  <2> DEFINE cmd == [Plain EXCEPT !.validate = v, !.accept = a, !.present = present]
  <2>1. cmd.target = None
      BY DEF Plain
  <2> HIDE DEF cmd
  <2>2. Careful(cmd, fail)
      BY <1>4, <2>1 DEF Careful
  <2>3. QED
      BY <1>8, <2>2, CommandKeeps DEF cmd
<1>9. ASSUME NEW b \in {"up", "down"}, NEW present \in BOOLEAN, NEW fail \in {None, "bright"},
             ExecuteCommand([Plain EXCEPT !.bright = b, !.present = present], fail)
      PROVE  DisplayInv'
  <2> DEFINE cmd == [Plain EXCEPT !.bright = b, !.present = present]
  <2>1. cmd.target = None /\ fail # "flush"
      BY ScreenFacts DEF Plain
  <2> HIDE DEF cmd
  <2>2. Careful(cmd, fail)
      BY <2>1 DEF Careful
  <2>3. QED
      BY <1>9, <2>2, CommandKeeps DEF cmd
<1>10. ASSUME NEW on \in BOOLEAN,
              NEW fail \in {None, "blank"} \cup (IF FlushFails THEN {"flush"} ELSE {})
                                           \cup (IF LampFails THEN {"lamp"} ELSE {}),
              SetPowerMode(on, fail)
       PROVE  DisplayInv'
  <2>1. fail \notin {"flush", "lamp"}
      BY ScreenFacts
  <2>2. QED
      BY <1>10, <2>1, PowerModeKeeps
<1>11. QED
    BY <1>1, <1>2, <1>3, <1>5, <1>6, <1>7, <1>8, <1>9, <1>10, Zenon DEF Next

-----------------------------------------------------------------------------
(* The vsync worker *)

\* The worker reads the switch again while nobody can change it, and nobody changes
\* it while the worker delivers.
LEMMA VsyncStep ==
    ASSUME Vsync!SilentWhenDisabled, Vsync!Next
    PROVE  Vsync!SilentWhenDisabled'
<1>1. Vsync!WorkerStep => Vsync!SilentWhenDisabled'
    BY DEF Vsync!WorkerStep, Vsync!Test, Vsync!Sleep, Vsync!WaitForVsync, Vsync!EnterIoctl,
           Vsync!Record, Vsync!Fallback, Vsync!Timeout, Vsync!LockCallback, Vsync!Recheck,
           Vsync!Deliver, Vsync!IoctlReturns, Vsync!StillEnabled, Vsync!state,
           Vsync!SilentWhenDisabled
<1>2. Vsync!CallStep \/ Vsync!RegisterCallback \/ Vsync!Stop => Vsync!SilentWhenDisabled'
    BY DEF Vsync!CallStep, Vsync!Notify, Vsync!InterruptVsyncWait, Vsync!Join,
           Vsync!RegisterCallback, Vsync!Stop, Vsync!Begin, Vsync!state, Vsync!SilentWhenDisabled
<1>3. ASSUME NEW on \in BOOLEAN, Vsync!SetVsyncEnabled(on) \/ Vsync!SetPowerMode(on)
      PROVE  Vsync!SilentWhenDisabled'
    BY <1>3 DEF Vsync!SetVsyncEnabled, Vsync!SetPowerMode, Vsync!CallbackFree,
                Vsync!SilentWhenDisabled
<1>4. QED
    BY <1>1, <1>2, <1>3 DEF Vsync!Next

\* What one sees is what was asked for (FbComposer, FbVsync): a display that is on
\* shows the frame of the last present that succeeded, it is lit and dark as it was
\* switched, and no onVsync() starts once vsync was switched off; whatever fails but a
\* write or msync in the middle of a frame and the write of bl_power at power-on.
THEOREM FbShowsAlways ==
    ASSUME FlushFails = FALSE, LampFails = FALSE
    PROVE  MCSpec => []FbShows
<1> DEFINE Inv == DisplayInv /\ Vsync!SilentWhenDisabled
<1>1. MCInit => Inv
  <2> SUFFICES ASSUME MCInit PROVE Inv
      OBVIOUS
  <2>1. Init /\ Vsync!Init
      BY DEF MCInit
  <2>2. /\ Clear \in Screen /\ None \notin Screen /\ MaxPages \in Nat \ {0}
      BY ScreenFacts, PicturesAssumption
  <2>3. DOMAIN d = Fields /\ d.powered = FALSE /\ d.last = None /\ d.target = None
        /\ d.pages = [p \in 1 .. MaxPages |-> Clear] /\ d.current = 1 /\ d.slots = << >>
        /\ d.down = FALSE /\ d.lamp = TRUE /\ d.damage = {} /\ d.err = "" /\ shown = Clear
        /\ d.blanked = hardware.blank /\ asked = "OFF"
      BY <2>1 DEF Init, Fields
  <2>4. hardware \in [blank : BOOLEAN, pans : BOOLEAN, lamp : BOOLEAN] /\ hardware.blank \in BOOLEAN
      BY <2>1 DEF Init
  <2>5. DisplayInv
    <3>1. DOMAIN d.slots \subseteq Nat /\ \A i \in DOMAIN d.slots : d.slots[i] \in Pictures \cup {None}
      <4>1. DOMAIN << >> = {}
          OBVIOUS
      <4>2. d.slots = << >>
          BY <2>3
      <4>3. QED
          BY <4>1, <4>2, Zenon
    <3>2. d.pages \in [1..MaxPages -> Screen] /\ d.current \in 1..MaxPages /\ d.pages[d.current] = Clear
      <4>1. d.pages = [p \in 1..MaxPages |-> Clear] /\ d.current = 1
          BY <2>3
      <4>2. 1 \in 1..MaxPages
          BY <2>2
      <4>3. [p \in 1..MaxPages |-> Clear] \in [1..MaxPages -> Screen]
          BY <2>2, Zenon
      <4>4. [p \in 1..MaxPages |-> Clear][1] = Clear
          BY <4>2, Zenon
      <4>5. QED
          BY <4>1, <4>2, <4>3, <4>4
    <3>3. Aimed(d, shown)
        BY <2>3, <3>1 DEF Aimed
    <3>4. Shows(d, shown)
        BY <2>2, <2>3, <2>4, <3>2 DEF Shows, ScreenTypes
    <3>5. Lit(d)
        BY <2>3, <3>2 DEF Lit
    <3>6. QED
        BY <2>3, <2>4, <3>3, <3>4, <3>5 DEF DisplayInv
  <2>6. Vsync!SilentWhenDisabled
      BY <2>1 DEF Vsync!Init, Vsync!SilentWhenDisabled
  <2>7. QED
      BY <2>5, <2>6
<1>2. Inv /\ [MCNext]_all => Inv'
  <2> SUFFICES ASSUME Inv, [MCNext]_all PROVE Inv'
      OBVIOUS
  <2>1. ASSUME UNCHANGED vars PROVE DisplayInv'
      BY <2>1 DEF vars, DisplayInv, Aimed, Shows, ScreenTypes, Lit
  <2>2. ASSUME UNCHANGED vsync PROVE Vsync!SilentWhenDisabled'
      BY <2>2 DEF vsync, Vsync!SilentWhenDisabled
  <2>3. CASE ComposerNext
      BY <2>2, <2>3, DisplayStep DEF ComposerNext
  <2>4. CASE VsyncNext
      BY <2>1, <2>4, VsyncStep DEF VsyncNext
  <2>5. CASE OpenNext \/ AllocNext \/ MapperNext \/ UNCHANGED all
      BY <2>1, <2>2, <2>5 DEF OpenNext, AllocNext, MapperNext, all
  <2>6. QED
      BY <2>3, <2>4, <2>5 DEF MCNext
<1>3. Inv => FbShows
  <2> SUFFICES ASSUME Inv PROVE FbShows
      OBVIOUS
  <2>1. ScreenShowsFrame
      BY DEF DisplayInv, Shows, ScreenShowsFrame
  <2>2. d.down \in BOOLEAN /\ d.lamp \in BOOLEAN /\ d.blanked \in BOOLEAN /\ d.powered \in BOOLEAN
        /\ asked = (IF d.powered THEN "ON" ELSE "OFF") /\ hardware.lamp \in BOOLEAN
      BY DEF DisplayInv, Shows, ScreenTypes
  <2>3. /\ hardware.lamp /\ d.down => ~d.lamp
        /\ d.powered => ~d.blanked /\ (hardware.lamp /\ ~d.down => d.lamp)
        /\ ~d.powered => d.blanked \/ d.pages[d.current] = Clear
      BY DEF DisplayInv, Lit
  <2>4. asked = "OFF" => ~d.powered
      BY <2>2
  <2>5. asked = "ON" => d.powered
      BY <2>2
  <2>6. d.powered /\ hardware.lamp => d.lamp = ~d.down
      BY <2>2, <2>3
  <2>7. LitAsAsked
      BY <2>3, <2>4, <2>5, <2>6, Zenon DEF LitAsAsked
  <2>8. QED
      BY <2>1, <2>7 DEF FbShows, SilentWhenDisabled
<1>4. QED
    BY <1>1, <1>2, <1>3, PTL DEF MCSpec

-----------------------------------------------------------------------------
(* Opening a device (FbGeometry)                                           *)

ModeRecords ==
    [xres : Nat, yres : Nat, vxres : Nat, vyres : Nat, yoffset : Nat, bpp : Nat, line : Nat,
     smem : Nat, layout : {"monochrome", "grayscale", "truecolor", "palette"}]

\* The fields that no second answer of the driver may change.
SamePixels(m, n) == m.xres = n.xres /\ m.yres = n.yres /\ m.bpp = n.bpp /\ m.layout = n.layout

\* A mode in which rows hold their pixels and the memory its rows.
Writable(m) ==
    /\ m \in ModeRecords
    /\ Open!SupportedLayout(m)
    /\ m.yres # 0
    /\ m.line >= Open!RequiredLineBytes(m)
    /\ Open!FitsMemory(m)

\* Up to the check the mode is what the driver says; from then on it is that,
\* normalized, and checked; and while it is an expanded one it differs from the
\* original in what does not matter to the pixels.
GeometryInv ==
    /\ driver \in Modes
    /\ opening \notin {"query", "refused"} => original \in Modes
    /\ opening \in {"expand", "restore"} => mode = original
    /\ opening \in {"expand", "check"} => mode = driver
    /\ opening = "check" /\ expanded => SamePixels(original, mode)
    /\ opening \in {"map", "fallback", "configure", "opened"} =>
          mode = Open!Normalized(driver) /\ Writable(mode)
    /\ opening = "fallback" => expanded
    /\ opening \in {"query", "expand", "restore"} => ~expanded
    /\ opening \in {"map", "fallback"} /\ expanded => SamePixels(original, mode)
    /\ opening \in {"configure", "opened"} => size = Open!FramebufferSize(mode)

LEMMA NormalizedMode ==
    ASSUME NEW m \in ModeRecords
    PROVE  Open!Normalized(m) \in ModeRecords /\ SamePixels(m, Open!Normalized(m))
    BY DEF ModeRecords, Open!Normalized, SamePixels

LEMMA CheckedIsWritable ==
    ASSUME NEW m \in ModeRecords, Open!SupportedGeometry(m), Open!FitsMemory(m)
    PROVE  Writable(m)
    BY DEF Writable, Open!SupportedGeometry, Open!RequiredLineBytes

\* What the driver answers to the fallback is checked for what matters.
LEMMA FallbackIsWritable ==
    ASSUME NEW m \in ModeRecords, Writable(mode), SamePixels(original, mode),
           Open!FallbackAccepts(m)
    PROVE  Writable(m)
<1>1. SamePixels(original, m) /\ m.line >= Open!RequiredLineBytes(mode) /\ Open!FitsMemory(m)
    BY DEF Open!FallbackAccepts, Open!SameModeExceptVirtualHeight, SamePixels
<1>2. SamePixels(m, mode)
    BY <1>1 DEF SamePixels
<1>3. Open!SupportedLayout(m) /\ m.yres # 0
    BY <1>2 DEF SamePixels, Writable, Open!SupportedLayout
<1>4. Open!RequiredLineBytes(m) = Open!RequiredLineBytes(mode)
    BY <1>2 DEF SamePixels, Open!RequiredLineBytes
<1>5. QED
    BY <1>1, <1>3, <1>4 DEF Writable

LEMMA GeometryStep ==
    ASSUME GeometryInv, Open!Next
    PROVE  GeometryInv'
<1>0. Modes \subseteq ModeRecords
    BY ModesAssumption DEF ModeRecords
<1>1. ASSUME Open!Query PROVE GeometryInv'
  <2>1. opening = "query" /\ driver \in Modes /\ ~expanded /\ driver' = driver
      BY <1>1 DEF GeometryInv, Open!Query
  <2>2. CASE Open!Refuse
      BY <2>1, <2>2 DEF GeometryInv, Open!Refuse
  <2>3. ASSUME original' = driver, mode' = driver, opening' \in {"expand", "check"},
               expanded' = expanded
        PROVE  GeometryInv'
      BY <2>1, <2>3 DEF GeometryInv
  <2>4. QED
      BY <1>1, <2>2, <2>3 DEF Open!Query
<1>2. ASSUME Open!Expand PROVE GeometryInv'
  <2>1. opening = "expand" /\ mode = original /\ mode = driver /\ ~expanded /\ original \in Modes
      BY <1>2 DEF GeometryInv, Open!Expand
  <2>2. CASE opening' = "check" /\ UNCHANGED <<driver, mode, expanded>>
      BY <1>2, <2>1, <2>2 DEF GeometryInv, Open!Expand
  <2>3. ASSUME NEW n \in Modes, driver' = n, mode' = n, expanded', opening' = "check",
               Open!SameModeExceptVirtualHeight(mode, n), original' = original
        PROVE  GeometryInv'
    <3>1. SamePixels(original, n)
        BY <2>1, <2>3 DEF Open!SameModeExceptVirtualHeight, SamePixels
    <3>2. QED
        BY <2>1, <2>3, <3>1 DEF GeometryInv, SamePixels
  <2>4. ASSUME NEW n \in Modes, driver' = n, mode' = mode, ~expanded', opening' = "restore",
               original' = original
        PROVE  GeometryInv'
      BY <2>1, <2>4 DEF GeometryInv
  <2>5. QED
      BY <1>2, <2>2, <2>3, <2>4 DEF Open!Expand, Open!Answers
<1>3. ASSUME Open!RestoreMode PROVE GeometryInv'
  <2>1. opening = "restore" /\ driver \in Modes /\ original \in Modes /\ ~expanded
      BY <1>3 DEF GeometryInv, Open!RestoreMode
  <2>2. ASSUME Open!Refuse, driver' = driver PROVE GeometryInv'
      BY <2>1, <2>2 DEF GeometryInv, Open!Refuse
  <2>3. ASSUME NEW n \in Modes, driver' = n, mode' = n, opening' = "check",
               UNCHANGED <<original, expanded>>
        PROVE  GeometryInv'
      BY <2>1, <2>3 DEF GeometryInv
  <2>4. QED
      BY <1>3, <2>1, <2>2, <2>3 DEF Open!RestoreMode, Open!Answers
<1>4. ASSUME Open!Check PROVE GeometryInv'
  <2>1. opening = "check" /\ mode = driver /\ driver \in ModeRecords /\ driver' = driver
        /\ original \in Modes
      BY <1>0, <1>4 DEF GeometryInv, Open!Check
  <2> DEFINE m == Open!Normalized(mode)
  <2>2. CASE Open!Refuse
      BY <2>1, <2>2 DEF GeometryInv, Open!Refuse
  <2>3. ASSUME Open!SupportedGeometry(m), Open!FitsMemory(m), mode' = m, opening' = "map",
               UNCHANGED <<original, expanded, size>>
        PROVE  GeometryInv'
    <3>1. m \in ModeRecords /\ SamePixels(mode, m) /\ Writable(m)
        BY <2>1, <2>3, NormalizedMode, CheckedIsWritable
    <3>2. m = Open!Normalized(driver)'
        BY <2>1 DEF Open!Normalized
    <3>3. Writable(mode)'
        BY <2>3, <3>1 DEF Writable, Open!SupportedLayout, Open!RequiredLineBytes,
              Open!FitsMemory, Open!FramebufferSize, Open!Larger
    <3>4. expanded => SamePixels(original, m)
        BY <2>1, <3>1 DEF GeometryInv, SamePixels
    <3>5. expanded' => SamePixels(original, mode)'
        BY <2>3, <3>4 DEF SamePixels
    <3>6. QED
        BY <2>1, <2>3, <3>2, <3>3, <3>5 DEF GeometryInv
  <2>4. QED
      BY <1>4, <2>2, <2>3 DEF Open!Check
<1>5. ASSUME Open!Map PROVE GeometryInv'
    BY <1>5 DEF GeometryInv, Open!Map, Open!Refuse, Writable, SamePixels, Open!Normalized,
       Open!SupportedLayout, Open!RequiredLineBytes, Open!FitsMemory, Open!FramebufferSize,
       Open!Larger
<1>6. ASSUME Open!Fallback PROVE GeometryInv'
  <2>1. opening = "fallback" /\ expanded /\ Writable(mode) /\ SamePixels(original, mode)
        /\ original \in Modes /\ driver \in Modes
      BY <1>6 DEF GeometryInv, Open!Fallback
  <2>2. ASSUME NEW n \in Modes, driver' = n, Open!Refuse PROVE GeometryInv'
      BY <2>1, <2>2 DEF GeometryInv, Open!Refuse
  <2>3. ASSUME NEW n \in Modes, driver' = n, Open!FallbackAccepts(Open!Normalized(n)),
               mode' = Open!Normalized(n), size' = Open!FramebufferSize(Open!Normalized(n)),
               opening' = "configure", UNCHANGED <<original, expanded>>
        PROVE  GeometryInv'
    <3> DEFINE m == Open!Normalized(n)
    <3>1. m \in ModeRecords
        BY <1>0, <2>3, NormalizedMode
    <3>2. Writable(m)
        BY <2>1, <2>3, <3>1, FallbackIsWritable
    <3>3. m = Open!Normalized(driver)' /\ size' = Open!FramebufferSize(mode)'
        BY <2>3 DEF Open!Normalized, Open!FramebufferSize, Open!Larger
    <3>4. Writable(mode)'
        BY <2>3, <3>2 DEF Writable, Open!SupportedLayout, Open!RequiredLineBytes,
              Open!FitsMemory, Open!FramebufferSize, Open!Larger
    <3>5. QED
        BY <2>1, <2>3, <3>3, <3>4 DEF GeometryInv
  <2>4. ASSUME Open!Refuse, driver' = driver PROVE GeometryInv'
      BY <2>1, <2>4 DEF GeometryInv, Open!Refuse
  <2>5. QED
      BY <1>6, <2>2, <2>3, <2>4 DEF Open!Fallback, Open!Answers
<1>7. ASSUME Open!Configure PROVE GeometryInv'
    BY <1>7 DEF GeometryInv, Open!Configure, Writable, Open!Normalized, Open!SupportedLayout,
       Open!RequiredLineBytes, Open!FitsMemory, Open!FramebufferSize, Open!Larger
<1>8. QED
    BY <1>1, <1>2, <1>3, <1>4, <1>5, <1>6, <1>7 DEF Open!Next

\* Pages follow each other, and the last ends in the memory.
LEMMA PagesInside ==
    ASSUME NEW v \in Nat, NEW y \in Nat \ {0}, NEW l \in Nat,
           NEW page \in 0 .. Open!Larger(1, v \div y) - 1
    PROVE  page * (y * l) + y * l <= l * Open!Larger(v, y)
<1> DEFINE q == v \div y
<1>1. q \in Nat /\ q * y <= v
    OBVIOUS
<1>2. CASE q > 1
  <2>1. page \in Nat /\ page + 1 <= q
      BY <1>1, <1>2 DEF Open!Larger
  <2>2. (page + 1) * y <= v
      BY <1>1, <2>1
  <2>3. ((page + 1) * y) * l <= v * l
      BY <2>1, <2>2
  <2>4. ((page + 1) * y) * l = page * (y * l) + y * l
      BY <2>1
  <2>5. v * l <= l * Open!Larger(v, y)
      BY <2>2 DEF Open!Larger
  <2>6. QED
      BY <2>3, <2>4, <2>5 DEF Open!Larger
<1>3. CASE ~(q > 1)
  <2>1. page = 0
      BY <1>1, <1>3 DEF Open!Larger
  <2>2. y * l <= l * Open!Larger(v, y)
      BY DEF Open!Larger
  <2>3. QED
      BY <2>1, <2>2 DEF Open!Larger
<1>4. QED
    BY <1>2, <1>3

\* Pixels of several bytes, or of any width, one after the other.
LEMMA PlainPixels ==
    ASSUME NEW bpp \in Nat, NEW x \in Nat, NEW y \in Nat, x < y
    PROVE  x * bpp + bpp <= y * bpp
<1>1. (x + 1) * bpp <= y * bpp
    OBVIOUS
<1>2. QED
    BY <1>1

\* Pixels that share a byte: where in it the one at x is.
Slot(x, bpp, way) == IF way = "reversed" THEN x % (8 \div bpp) ELSE 8 \div bpp - (x % (8 \div bpp)) - 1
FirstBit(x, bpp, way) == 8 * ((x * bpp) \div 8) + Slot(x, bpp, way) * bpp

LEMMA PackedPixels ==
    ASSUME NEW bpp \in {1, 2, 4}, NEW x \in Nat, NEW y \in Nat, NEW way \in {"packed", "reversed"}
    PROVE  /\ FirstBit(x, bpp, way) \in Nat
           /\ FirstBit(x, bpp, way) + bpp <= 8 * ((x * bpp) \div 8) + 8
           /\ x # y => \/ FirstBit(x, bpp, way) + bpp <= FirstBit(y, bpp, way)
                       \/ FirstBit(y, bpp, way) + bpp <= FirstBit(x, bpp, way)
<1>1. CASE bpp = 1
    BY <1>1 DEF FirstBit, Slot
<1>2. CASE bpp = 2
    BY <1>2 DEF FirstBit, Slot
<1>3. CASE bpp = 4
    BY <1>3 DEF FirstBit, Slot
<1>4. QED
    BY <1>1, <1>2, <1>3

\* What the open device is written with lies in its mapping.
LEMMA GeometryIsSafe ==
    ASSUME GeometryInv
    PROVE  WritesInside
<1> SUFFICES ASSUME opening = "opened" PROVE WritesInside
    BY DEF WritesInside, Open!WritesInside
<1>1. /\ Writable(mode) /\ mode = Open!Normalized(driver) /\ size = Open!FramebufferSize(mode)
      /\ mode \in ModeRecords
    BY DEF GeometryInv, Writable
<1>2. /\ mode.xres \in Nat /\ mode.yres \in Nat \ {0} /\ mode.vyres \in Nat /\ mode.bpp \in Nat
      /\ mode.line \in Nat /\ mode.smem \in Nat
    BY <1>1 DEF Writable, ModeRecords
<1>3. ASSUME NEW page \in 0 .. Open!PageCount - 1
      PROVE  Open!PageOffset(page) + Open!PageSize <= size
    BY <1>1, <1>2, PagesInside DEF Open!PageCount, Open!PageOffset, Open!PageSize,
       Open!FramebufferSize
<1>4. mode.smem # 0 => size <= mode.smem
    BY <1>1 DEF Writable, Open!FitsMemory
<1>5. mode.xres * mode.bpp <= 8 * mode.line
  <2>1. (mode.xres * mode.bpp + 7) \div 8 <= mode.line
      BY <1>1, <1>2 DEF Writable, Open!RequiredLineBytes
  <2>2. mode.xres * mode.bpp \in Nat
      BY <1>2
  <2>3. QED
      BY <1>2, <2>1, <2>2
<1>6. ASSUME NEW x \in 0 .. mode.xres - 1 PROVE x * mode.bpp + mode.bpp <= 8 * mode.line
  <2>1. x * mode.bpp + mode.bpp <= mode.xres * mode.bpp
      BY <1>2, PlainPixels
  <2>2. QED
      BY <1>2, <1>5, <2>1
<1> DEFINE Shared == mode.bpp < 8 /\ 8 % mode.bpp = 0 /\ mode.layout \in {"monochrome", "grayscale"}
<1>7. CASE Shared
  <2>1. mode.bpp \in {1, 2, 4}
      BY <1>1, <1>7 DEF Writable, Open!SupportedLayout
  <2>2. PICK way \in {"packed", "reversed"} :
           way = IF reversed /\ mode.layout = "monochrome" THEN "reversed" ELSE "packed"
      OBVIOUS
  <2>3. ASSUME NEW x \in Nat
        PROVE  Open!PixelBits(x) = {FirstBit(x, mode.bpp, way) + b : b \in 0 .. mode.bpp - 1}
      BY <1>7, <2>2 DEF Open!PixelBits, FirstBit, Slot
  <2>4. ASSUME NEW x \in 0 .. mode.xres - 1, NEW bit \in Open!PixelBits(x)
        PROVE  bit < 8 * mode.line
    <3>1. PICK b \in 0 .. mode.bpp - 1 : bit = FirstBit(x, mode.bpp, way) + b
        BY <1>2, <2>3
    <3>2. /\ FirstBit(x, mode.bpp, way) \in Nat
          /\ FirstBit(x, mode.bpp, way) + mode.bpp <= 8 * ((x * mode.bpp) \div 8) + 8
      <4>1. x \in Nat
          BY <1>2
      <4>2. QED
          BY <2>1, <2>2, <4>1, PackedPixels, Zenon
    <3>3. x * mode.bpp + mode.bpp <= 8 * mode.line /\ x * mode.bpp \in Nat
        BY <1>2, <1>6
    <3>4. 8 * ((x * mode.bpp) \div 8) + 8 <= 8 * mode.line
        BY <1>2, <2>1, <3>3
    <3>5. QED
        BY <1>2, <3>1, <3>2, <3>4
  <2>5. ASSUME NEW x \in 0 .. mode.xres - 1, NEW y \in 0 .. mode.xres - 1, x # y
        PROVE  Open!PixelBits(x) \cap Open!PixelBits(y) = {}
    <3>1. /\ FirstBit(x, mode.bpp, way) \in Nat /\ FirstBit(y, mode.bpp, way) \in Nat
          /\ \/ FirstBit(x, mode.bpp, way) + mode.bpp <= FirstBit(y, mode.bpp, way)
             \/ FirstBit(y, mode.bpp, way) + mode.bpp <= FirstBit(x, mode.bpp, way)
      <4>1. x \in Nat /\ y \in Nat
          BY <1>2
      <4>2. QED
          BY <2>1, <2>2, <2>5, <4>1, PackedPixels, Zenon
    <3>2. QED
        BY <1>2, <2>3, <3>1
  <2>6. QED
      BY <1>1, <1>3, <1>4, <2>4, <2>5 DEF WritesInside, Open!WritesInside
<1>8. CASE ~Shared
  <2>1. \A x : Open!PixelBits(x) = {x * mode.bpp + b : b \in 0 .. mode.bpp - 1}
      BY <1>8 DEF Open!PixelBits
  <2>2. ASSUME NEW x \in 0 .. mode.xres - 1, NEW bit \in Open!PixelBits(x)
        PROVE  bit < 8 * mode.line
    <3>1. PICK b \in 0 .. mode.bpp - 1 : bit = x * mode.bpp + b
        BY <1>2, <2>1
    <3>2. x * mode.bpp + mode.bpp <= 8 * mode.line /\ x * mode.bpp \in Nat
        BY <1>2, <1>6
    <3>3. QED
        BY <1>2, <3>1, <3>2
  <2>3. ASSUME NEW x \in 0 .. mode.xres - 1, NEW y \in 0 .. mode.xres - 1, x # y
        PROVE  Open!PixelBits(x) \cap Open!PixelBits(y) = {}
    <3>1. /\ x * mode.bpp \in Nat /\ y * mode.bpp \in Nat
          /\ \/ x * mode.bpp + mode.bpp <= y * mode.bpp
             \/ y * mode.bpp + mode.bpp <= x * mode.bpp
        BY <1>2, <2>3, PlainPixels
    <3>2. QED
        BY <1>2, <2>1, <3>1
  <2>4. QED
      BY <1>1, <1>3, <1>4, <2>2, <2>3 DEF WritesInside, Open!WritesInside
<1>9. QED
    BY <1>7, <1>8


-----------------------------------------------------------------------------
(* Allocating a buffer (Gralloc)                                           *)

PlaneRecords == [offset : 0 .. Half, stride : 1 .. Half - 1, size : 1 .. Half]

\* Planes next to each other that end where the last one does.
PlanesFit(p) ==
    /\ p \in Seq(PlaneRecords) /\ Len(p) > 0
    /\ Alloc!Total(p) \in 1 .. Half
    /\ \A i \in DOMAIN p :
          /\ p[i].offset + p[i].size <= Alloc!Total(p)
          /\ i > 1 => p[i].offset = p[i - 1].offset + p[i - 1].size

\* A layout whose numbers pass through the signed fields of a handle.
LayoutFits(l) ==
    /\ l = [width |-> l.width, height |-> l.height, format |-> l.format, pixels |-> l.pixels,
            size |-> l.size, reserved |-> l.reserved, planes |-> l.planes]
    /\ l.width \in 1 .. Half - 1 /\ l.height \in 1 .. Half - 1 /\ l.pixels \in 1 .. Half - 1
    /\ l.reserved \in 0 .. MaxReserved
    /\ l.format \in Alloc!Formats /\ (l.format = "BLOB" => l.height = 1)
    /\ PlanesFit(l.planes) /\ l.size = Alloc!Total(l.planes)
    /\ Len(l.planes) = Alloc!PlaneCount(l.format)

LEMMA AlignedUp ==
    ASSUME NEW v \in Nat, NEW a \in Nat \ {0}
    PROVE  /\ Alloc!AlignTo(v, a) \in Nat
           /\ Alloc!AlignTo(v, a) >= v
           /\ v > 0 => Alloc!AlignTo(v, a) >= a
<1> DEFINE q == (v + a - 1) \div a
<1>1. q \in Nat /\ v + a - 1 < q * a + a /\ q * a \in Nat
    OBVIOUS
<1>2. q * a >= v
    BY <1>1
<1>3. v > 0 => q > 0
    BY <1>1
<1>4. v > 0 => q * a >= a
    BY <1>1, <1>3
<1>5. QED
    BY <1>1, <1>2, <1>4 DEF Alloc!AlignTo

\* A number that fits into 31 bits, or is the largest allocation, comes back.
LEMMA FieldReturns ==
    ASSUME NEW n \in 0 .. Half
    PROVE  /\ Alloc!JoinU64(Alloc!SplitU64(n)) = n
           /\ Alloc!Unsigned(Alloc!Signed(n)) = n
           /\ n < Half => Alloc!Signed(n) = n
<1> DEFINE u == Alloc!UInt32Max + 1
<1>1. u = 2 * Half /\ Half \in Nat /\ Half > 1 /\ Alloc!UInt32Max = 2 * Half - 1
    BY AllocationAssumption DEF Alloc!UInt32Max
<1>2. n % u = n /\ n \div u = 0
    BY <1>1
<1>3. Alloc!Unsigned(Alloc!Signed(n)) = n /\ (n < Half => Alloc!Signed(n) = n)
    BY <1>1 DEF Alloc!Unsigned, Alloc!Signed, Alloc!Int32Max
<1>4. Alloc!Signed(0) = 0 /\ Alloc!Unsigned(0) = 0
    BY <1>1 DEF Alloc!Unsigned, Alloc!Signed, Alloc!Int32Max
<1>5. Alloc!SplitU64(n) = <<Alloc!Signed(n), Alloc!Signed(0)>>
    BY <1>2 DEF Alloc!SplitU64
<1>6. Alloc!JoinU64(Alloc!SplitU64(n)) = n + u * 0
    BY <1>3, <1>4, <1>5 DEF Alloc!JoinU64
<1>7. QED
    BY <1>1, <1>3, <1>6

LEMMA PackedFit ==
    ASSUME NEW s \in 1 .. Half - 1, NEW h \in Nat \ {0}, NEW p, p = Alloc!PackedPlanes(s, h),
           Alloc!Total(p) <= Half
    PROVE  PlanesFit(p) /\ s * h <= Half /\ Len(p) = 1
<1>1. Half \in Nat
    BY AllocationAssumption
<1>2. p = << [offset |-> 0, stride |-> s, size |-> s * h] >> /\ s * h \in Nat /\ s * h > 0
    BY <1>1 DEF Alloc!PackedPlanes, Alloc!Plane
<1>3. Len(p) = 1 /\ DOMAIN p = {1} /\ p[1] = [offset |-> 0, stride |-> s, size |-> s * h]
    BY <1>2
<1>4. Alloc!Total(p) = s * h
    BY <1>2, <1>3 DEF Alloc!Total
<1>5. p[1] \in PlaneRecords
    BY <1>1, <1>2, <1>3, <1>4 DEF PlaneRecords
<1>6. p \in Seq(PlaneRecords)
    BY <1>2, <1>3, <1>5
<1>7. QED
    BY <1>1, <1>2, <1>3, <1>4, <1>6 DEF PlanesFit

LEMMA SemiFit ==
    ASSUME NEW s \in 1 .. Half - 1, NEW h \in Nat \ {0}, NEW v \in {1, 2}, v = 2 => Alloc!Even(h),
           NEW p, p = Alloc!SemiPlanes(s, h, v), Alloc!Total(p) <= Half
    PROVE  PlanesFit(p) /\ s * h <= Half /\ Len(p) = 2
<1> DEFINE k == h \div v
           y == s * h
           c == s * k
<1>1. Half \in Nat /\ k \in Nat /\ k > 0
    BY AllocationAssumption DEF Alloc!Even
<1>2. y \in Nat /\ c \in Nat /\ y > 0 /\ c > 0
    BY <1>1
<1>3. p = << [offset |-> 0, stride |-> s, size |-> y], [offset |-> y, stride |-> s, size |-> c] >>
    BY DEF Alloc!SemiPlanes, Alloc!Plane
<1> HIDE DEF k, y, c
<1>4. /\ Len(p) = 2 /\ DOMAIN p = {1, 2} /\ p[1] = [offset |-> 0, stride |-> s, size |-> y]
      /\ p[2] = [offset |-> y, stride |-> s, size |-> c]
    BY <1>3
<1>5. Alloc!Total(p) = y + c
    BY <1>2, <1>4 DEF Alloc!Total
<1>6. p[1] \in PlaneRecords /\ p[2] \in PlaneRecords
    BY <1>1, <1>2, <1>4, <1>5 DEF PlaneRecords
<1>7. p \in Seq(PlaneRecords)
    BY <1>3, <1>4, <1>6
<1>8. PlanesFit(p) /\ y <= Half
    BY <1>1, <1>2, <1>4, <1>5, <1>7 DEF PlanesFit
<1>9. QED
    BY <1>4, <1>8 DEF y

LEMMA PlanarFit ==
    ASSUME NEW s \in 1 .. Half - 1, s >= Alignment, NEW h \in Nat \ {0}, Alloc!Even(h),
           NEW p, p = Alloc!PlanarPlanes(s, h), Alloc!Total(p) <= Half,
           \A i \in DOMAIN p : p[i].stride <= Half - 1
    PROVE  PlanesFit(p) /\ s * h <= Half /\ Len(p) = 3
<1> DEFINE k == h \div 2
           r == Alloc!AlignTo(s \div 2, Alignment \div 4)
           y == s * h
           c == r * k
<1>1. /\ Half \in Nat /\ k \in Nat /\ k > 0 /\ s \div 2 \in Nat /\ s \div 2 > 0
      /\ Alignment \div 4 \in Nat \ {0}
    BY AllocationAssumption DEF Alloc!Even
<1>2. r \in Nat /\ r > 0
    BY <1>1, AlignedUp
<1>3. p = << [offset |-> 0, stride |-> s, size |-> y], [offset |-> y, stride |-> r, size |-> c],
             [offset |-> y + c, stride |-> r, size |-> c] >>
    BY DEF Alloc!PlanarPlanes, Alloc!Plane
<1> HIDE DEF r
<1>4. y \in Nat /\ c \in Nat /\ y > 0 /\ c > 0
    BY <1>1, <1>2
<1> HIDE DEF k, y, c
<1>5. /\ Len(p) = 3 /\ DOMAIN p = {1, 2, 3} /\ p[1] = [offset |-> 0, stride |-> s, size |-> y]
      /\ p[2] = [offset |-> y, stride |-> r, size |-> c]
      /\ p[3] = [offset |-> y + c, stride |-> r, size |-> c]
    BY <1>3
<1>6. Alloc!Total(p) = y + c + c
    BY <1>4, <1>5 DEF Alloc!Total
<1>7. r \in 1 .. Half - 1
    BY <1>1, <1>2, <1>5
<1>8. p[1] \in PlaneRecords /\ p[2] \in PlaneRecords /\ p[3] \in PlaneRecords
    BY <1>1, <1>4, <1>5, <1>6, <1>7 DEF PlaneRecords
<1>9. p \in Seq(PlaneRecords)
    BY <1>3, <1>5, <1>8
<1>10. PlanesFit(p) /\ y <= Half
    BY <1>1, <1>4, <1>5, <1>6, <1>9 DEF PlanesFit
<1>11. QED
    BY <1>5, <1>10 DEF y

\* A format is packed or planar.
LEMMA FormatsApart ==
    /\ \A f \in DOMAIN Alloc!Bytes : f \notin Alloc!Planar
    /\ "BLOB" \in DOMAIN Alloc!Bytes /\ "RAW16" \in DOMAIN Alloc!Bytes
<1>1. DOMAIN Alloc!Bytes = {"RGBA_8888", "RGB_888", "RGB_565", "RGBA_FP16", "RAW16", "BLOB"}
    BY DEF Alloc!Bytes
<1>2. QED
    BY <1>1 DEF Alloc!Planar

\* A row starts on an aligned byte and holds its pixels.
LEMMA RowFits ==
    ASSUME NEW f \in Alloc!Formats, NEW w \in Nat \ {0}, Alloc!Stride(f, w) <= Half - 1
    PROVE  /\ Alloc!Stride(f, w) \in 1 .. Half - 1 /\ Alloc!Stride(f, w) >= Alignment
           /\ w <= Alloc!Stride(f, w)
           /\ Alloc!PixelStride(f, w) \in Nat /\ Alloc!PixelStride(f, w) > 0
<1>0. Half \in Nat /\ Alignment \in Nat \ {0}
    BY AllocationAssumption
<1>1. CASE f \in DOMAIN Alloc!Bytes
  <2> DEFINE b == Alloc!Bytes[f]
             s == Alloc!AlignTo(w * b, Alignment)
  <2>1. b \in {1, 2, 3, 4, 8}
      BY <1>1 DEF Alloc!Bytes
  <2>2. w * b \in Nat /\ w * b > 0 /\ w * b >= w
      BY <2>1
  <2>3. s \in Nat /\ s >= w * b /\ s >= Alignment
      BY <1>0, <2>2, AlignedUp
  <2>4. Alloc!Stride(f, w) = s /\ Alloc!PixelStride(f, w) = s \div b
    <3>1. f \notin {"YCBCR_P010", "YCBCR_P210"}
        BY <1>1, FormatsApart DEF Alloc!Planar
    <3>2. QED
        BY <1>1, <3>1 DEF Alloc!Stride, Alloc!PixelStride
  <2> HIDE DEF b, s
  <2>5. s \div b \in Nat /\ s \div b > 0
      BY <2>1, <2>2, <2>3
  <2>6. QED
      BY <1>0, <2>2, <2>3, <2>4, <2>5
<1>2. CASE f \notin DOMAIN Alloc!Bytes /\ f \in {"YCBCR_P010", "YCBCR_P210"}
  <2> DEFINE s == Alloc!AlignTo(2 * w, Alignment)
  <2>1. s \in Nat /\ s >= 2 * w /\ s >= Alignment
      BY <1>0, AlignedUp
  <2>2. Alloc!Stride(f, w) = s /\ Alloc!PixelStride(f, w) = s \div 2
      BY <1>2 DEF Alloc!Stride, Alloc!PixelStride
  <2> HIDE DEF s
  <2>3. QED
      BY <1>0, <2>1, <2>2
<1>3. CASE f \notin DOMAIN Alloc!Bytes /\ f \notin {"YCBCR_P010", "YCBCR_P210"}
  <2> DEFINE s == Alloc!AlignTo(w, Alignment)
  <2>1. s \in Nat /\ s >= w /\ s >= Alignment
      BY <1>0, AlignedUp
  <2>2. Alloc!Stride(f, w) = s /\ Alloc!PixelStride(f, w) = s
      BY <1>3 DEF Alloc!Stride, Alloc!PixelStride
  <2> HIDE DEF s
  <2>3. QED
      BY <1>0, <2>1, <2>2
<1>4. QED
    BY <1>1, <1>2, <1>3

\* The planes of every format follow each other, the first has the rows.
LEMMA PlanesOfFormat ==
    ASSUME NEW f \in Alloc!Formats, NEW w \in Nat \ {0}, NEW h \in Nat \ {0},
           Alloc!ValidDimensions(f, w, h), NEW p, p = Alloc!Planes(f, w, h),
           Alloc!Total(p) <= Half, \A i \in DOMAIN p : p[i].stride <= Half - 1
    PROVE  /\ PlanesFit(p) /\ Len(p) = Alloc!PlaneCount(f)
           /\ Alloc!Stride(f, w) * h <= Half
           /\ Alloc!Stride(f, w) <= Half - 1
<1> DEFINE s == Alloc!Stride(f, w)
<1>1. s <= Half - 1
  <2>1. CASE p = Alloc!PackedPlanes(s, h)
      BY <2>1 DEF Alloc!PackedPlanes, Alloc!Plane
  <2>2. CASE p = Alloc!PlanarPlanes(s, h)
      BY <2>2 DEF Alloc!PlanarPlanes, Alloc!Plane
  <2>3. CASE \E v \in {1, 2} : p = Alloc!SemiPlanes(s, h, v)
      BY <2>3 DEF Alloc!SemiPlanes, Alloc!Plane
  <2>4. p = Alloc!PackedPlanes(s, h) \/ p = Alloc!PlanarPlanes(s, h)
        \/ \E v \in {1, 2} : p = Alloc!SemiPlanes(s, h, v)
      BY DEF Alloc!Planes
  <2>5. QED
      BY <2>1, <2>2, <2>3, <2>4
<1>2. s \in 1 .. Half - 1 /\ s >= Alignment
    BY <1>1, RowFits
<1>3. CASE f \in DOMAIN Alloc!Bytes
  <2>1. p = Alloc!PackedPlanes(s, h) /\ Alloc!PlaneCount(f) = 1
      BY <1>3, FormatsApart DEF Alloc!Planes, Alloc!PlaneCount, Alloc!Planar
  <2> HIDE DEF s
  <2>2. QED
      BY <1>1, <1>2, <2>1, PackedFit DEF s
<1>4. CASE f \in {"YV12", "YCBCR_420_888"}
  <2>1. p = Alloc!PlanarPlanes(s, h) /\ Alloc!PlaneCount(f) = 3 /\ Alloc!Even(h)
      BY <1>4 DEF Alloc!Planes, Alloc!PlaneCount, Alloc!Bytes, Alloc!ValidDimensions, Alloc!Planar
  <2> HIDE DEF s
  <2>2. QED
      BY <1>1, <1>2, <2>1, PlanarFit DEF s
<1>5. CASE f = "YCBCR_P210"
  <2>1. p = Alloc!SemiPlanes(s, h, 1) /\ Alloc!PlaneCount(f) = 2
      BY <1>5 DEF Alloc!Planes, Alloc!PlaneCount, Alloc!Bytes
  <2> HIDE DEF s
  <2>2. QED
      BY <1>1, <1>2, <2>1, SemiFit DEF s
<1>6. CASE f \in {"YCRCB_420_SP", "YCBCR_P010"}
  <2>1. p = Alloc!SemiPlanes(s, h, 2) /\ Alloc!PlaneCount(f) = 2 /\ Alloc!Even(h)
      BY <1>6 DEF Alloc!Planes, Alloc!PlaneCount, Alloc!Bytes, Alloc!ValidDimensions, Alloc!Planar
  <2> HIDE DEF s
  <2>2. QED
      BY <1>1, <1>2, <2>1, SemiFit DEF s
<1>7. QED
    BY <1>3, <1>4, <1>5, <1>6 DEF Alloc!Formats, Alloc!Planar

\* What BuildLayout() accepts passes through a handle.
LEMMA BuiltFits ==
    ASSUME NEW desc, desc.width \in Nat, desc.height \in Nat, NEW l, l = Alloc!BuildLayout(desc), l # None
    PROVE  /\ LayoutFits(l)
           /\ l.width = desc.width /\ l.height = desc.height /\ l.format = desc.format
           /\ l.reserved = desc.reserved
           /\ Alloc!ValidDescriptor(desc) /\ desc.usage = "known"
<1> DEFINE p == Alloc!Planes(desc.format, desc.width, desc.height)
           x == Alloc!PixelStride(desc.format, desc.width)
<1>1. /\ Alloc!ValidDescriptor(desc) /\ desc.usage = "known" /\ desc.format \in Alloc!Formats
      /\ Alloc!ValidDimensions(desc.format, desc.width, desc.height)
      /\ Alloc!Total(p) <= Half /\ Alloc!TransportableStride(x, p)
      /\ l = [width |-> desc.width, height |-> desc.height, format |-> desc.format, pixels |-> x,
              size |-> Alloc!Total(p), reserved |-> desc.reserved, planes |-> p]
    BY DEF Alloc!BuildLayout, Alloc!MaxAllocation
<1>2. desc.width \in Nat \ {0} /\ desc.height \in Nat \ {0} /\ desc.reserved \in 0 .. MaxReserved
    BY <1>1 DEF Alloc!ValidDescriptor
<1>3. x <= Half - 1 /\ \A i \in DOMAIN p : p[i].stride <= Half - 1
    BY <1>1 DEF Alloc!TransportableStride, Alloc!Int32Max
<1> HIDE DEF p, x
<1>4. /\ PlanesFit(p) /\ Len(p) = Alloc!PlaneCount(desc.format)
      /\ Alloc!Stride(desc.format, desc.width) * desc.height <= Half
      /\ Alloc!Stride(desc.format, desc.width) <= Half - 1
    BY <1>1, <1>2, <1>3, PlanesOfFormat DEF p
<1>5. /\ Alloc!Stride(desc.format, desc.width) \in 1 .. Half - 1
      /\ Alloc!Stride(desc.format, desc.width) >= Alignment
      /\ desc.width <= Alloc!Stride(desc.format, desc.width) /\ x \in Nat /\ x > 0
    BY <1>1, <1>2, <1>4, RowFits DEF x
<1>6. Alignment \in Nat /\ Alignment > 1 /\ Half \in Nat /\ Half > 1
    BY AllocationAssumption
<1>7. ASSUME NEW s \in Nat, s > 1, NEW h \in Nat \ {0}, s * h <= Half PROVE h <= Half - 1
  <2>1. 2 * h <= s * h
      BY <1>7
  <2>2. QED
      BY <1>6, <1>7, <2>1
<1>8. desc.height <= Half - 1
    BY <1>2, <1>4, <1>5, <1>6, <1>7
<1>9. desc.width \in 1 .. Half - 1 /\ desc.height \in 1 .. Half - 1 /\ x \in 1 .. Half - 1
    BY <1>2, <1>3, <1>5, <1>6, <1>8
<1>10. desc.format = "BLOB" => desc.height = 1
    BY <1>1, FormatsApart DEF Alloc!ValidDimensions, Alloc!Planar
<1>11. LayoutFits(l)
    BY <1>1, <1>2, <1>4, <1>9, <1>10 DEF LayoutFits
<1>12. QED
    BY <1>1, <1>11

\* The fields of a handle say what the layout said.
LEMMA HandleSaysLayout ==
    ASSUME NEW l, LayoutFits(l)
    PROVE  Alloc!Transported(Alloc!Handle(l)) = l
<1> DEFINE h == Alloc!Handle(l)
           t == Alloc!Transported(h)
<1>0. Half \in Nat /\ MaxReserved \in 0 .. Half
    BY AllocationAssumption
<1>1. /\ l.width \in 0 .. Half /\ l.width < Half /\ l.height \in 0 .. Half /\ l.height < Half
      /\ l.pixels \in 0 .. Half /\ l.pixels < Half /\ l.size \in 0 .. Half
      /\ l.reserved \in 0 .. Half
    BY <1>0 DEF LayoutFits, PlanesFit
<1>2. h.width = l.width /\ h.height = l.height /\ h.pixels = l.pixels /\ h.format = l.format
    BY <1>1, FieldReturns DEF Alloc!Handle
<1>3. Alloc!JoinU64(h.size) = l.size /\ Alloc!JoinU64(h.reserved) = l.reserved
    BY <1>1, FieldReturns DEF Alloc!Handle
<1>4. l.planes \in Seq(PlaneRecords)
    BY DEF LayoutFits, PlanesFit
<1>5. ASSUME NEW i \in DOMAIN l.planes
      PROVE  Alloc!Plane(Alloc!JoinU64(h.planes[i].offset), Alloc!Unsigned(h.planes[i].stride),
                         Alloc!JoinU64(h.planes[i].size)) = l.planes[i]
  <2>1. l.planes[i] \in PlaneRecords
      BY <1>4, <1>5
  <2>2. /\ l.planes[i] = [offset |-> l.planes[i].offset, stride |-> l.planes[i].stride,
                          size |-> l.planes[i].size]
        /\ l.planes[i].offset \in 0 .. Half /\ l.planes[i].stride \in 0 .. Half
        /\ l.planes[i].size \in 0 .. Half
      BY <1>0, <2>1 DEF PlaneRecords
  <2>3. h.planes[i] = [offset |-> Alloc!SplitU64(l.planes[i].offset),
                       stride |-> Alloc!Signed(l.planes[i].stride),
                       size |-> Alloc!SplitU64(l.planes[i].size)]
      BY <1>5 DEF Alloc!Handle
  <2>4. /\ Alloc!JoinU64(h.planes[i].offset) = l.planes[i].offset
        /\ Alloc!Unsigned(h.planes[i].stride) = l.planes[i].stride
        /\ Alloc!JoinU64(h.planes[i].size) = l.planes[i].size
      BY <2>2, <2>3, FieldReturns
  <2>5. QED
      BY <2>2, <2>4 DEF Alloc!Plane
<1>6. DOMAIN h.planes = DOMAIN l.planes
    BY DEF Alloc!Handle
<1>7. t.planes = [i \in DOMAIN l.planes |-> l.planes[i]]
    BY <1>5, <1>6 DEF Alloc!Transported
<1>8. t.planes = l.planes
    BY <1>4, <1>7
<1>9. t = [width |-> h.width, height |-> h.height, format |-> h.format, pixels |-> h.pixels,
           size |-> Alloc!JoinU64(h.size), reserved |-> Alloc!JoinU64(h.reserved),
           planes |-> t.planes]
    BY DEF Alloc!Transported
<1>10. QED
    BY <1>2, <1>3, <1>8, <1>9 DEF LayoutFits

\* Every process accepts what BuildLayout() accepted.
LEMMA BuiltIsAccepted ==
    ASSUME NEW desc, desc.width \in Nat, desc.height \in Nat, NEW l, l = Alloc!BuildLayout(desc), l # None
    PROVE  Alloc!ValidateHandle(Alloc!Handle(l), [pixels |-> l.size, reserved |-> l.reserved]) = l
<1> DEFINE h == Alloc!Handle(l)
           f == [pixels |-> l.size, reserved |-> l.reserved]
<1>0. Half \in Nat /\ Half > 1 /\ MaxReserved \in 0 .. Half
    BY AllocationAssumption
<1>1. /\ LayoutFits(l) /\ l.width = desc.width /\ l.height = desc.height /\ l.format = desc.format
      /\ l.reserved = desc.reserved /\ Alloc!ValidDescriptor(desc) /\ desc.usage = "known"
    BY BuiltFits
<1>2. Alloc!Transported(h) = l
    BY <1>1, HandleSaysLayout
<1>3. /\ h.width = l.width /\ h.height = l.height /\ h.pixels = l.pixels
      /\ h.format = l.format /\ Alloc!JoinU64(h.size) = l.size
      /\ Alloc!JoinU64(h.reserved) = l.reserved
  <2>1. /\ Alloc!Transported(h).width = h.width /\ Alloc!Transported(h).height = h.height
        /\ Alloc!Transported(h).pixels = h.pixels /\ Alloc!Transported(h).format = h.format
        /\ Alloc!Transported(h).size = Alloc!JoinU64(h.size)
        /\ Alloc!Transported(h).reserved = Alloc!JoinU64(h.reserved)
      BY DEF Alloc!Transported
  <2>2. QED
      BY <1>2, <2>1
<1>4. h.layers = 1 /\ h.fourcc = l.format /\ h.count = Len(l.planes)
    BY DEF Alloc!Handle
<1> HIDE DEF h
<1>5. Alloc!ValidFields(h)
    BY <1>0, <1>1, <1>3, <1>4 DEF LayoutFits, PlanesFit, Alloc!ValidFields,
       Alloc!ExpectedHandleFormat, Alloc!MaxAllocation
<1>6. Alloc!ValidFiles(h, f)
    BY <1>0, <1>1, <1>3 DEF LayoutFits, PlanesFit, Alloc!ValidFiles
<1>7. Alloc!ValidPlanes(h)
  <2>1. l.planes \in Seq(PlaneRecords) /\ l.size \in 1 .. Half
        /\ \A i \in DOMAIN l.planes : l.planes[i].offset + l.planes[i].size <= l.size
      BY <1>1 DEF LayoutFits, PlanesFit
  <2>2. Half <= Alloc!UInt64Max
    <3>1. Alloc!UInt64Max = (2 * Half) * (2 * Half) - 1
        BY <1>0 DEF Alloc!UInt64Max, Alloc!UInt32Max
    <3>2. 2 * Half <= (2 * Half) * (2 * Half)
        BY <1>0
    <3>3. QED
        BY <1>0, <3>1, <3>2
  <2>3. Alloc!UInt64Max \in Nat
      BY <1>0 DEF Alloc!UInt64Max, Alloc!UInt32Max
  <2>4. ASSUME NEW i \in DOMAIN l.planes
        PROVE  /\ l.planes[i].stride # 0 /\ l.planes[i].size # 0
               /\ Alloc!Fits64(l.planes[i].offset + l.planes[i].size)
    <3>1. l.planes[i] \in PlaneRecords
        BY <2>1
    <3>2. /\ l.planes[i].stride \in 1 .. Half - 1 /\ l.planes[i].size \in 1 .. Half
          /\ l.planes[i].offset \in 0 .. Half
        BY <3>1 DEF PlaneRecords
    <3>3. QED
        BY <1>0, <2>1, <2>2, <2>3, <3>2 DEF Alloc!Fits64
  <2>5. QED
      BY <1>2, <2>1, <2>4 DEF Alloc!ValidPlanes
<1>8. Alloc!BuildLayout(Alloc!Descriptor(l)) = l
  <2> DEFINE e == Alloc!Descriptor(l)
  <2>1. /\ e.width = desc.width /\ e.height = desc.height /\ e.layers = 1 /\ e.format = desc.format
        /\ e.usage = desc.usage /\ e.reserved = desc.reserved
      BY <1>1 DEF Alloc!Descriptor
  <2>2. Alloc!ValidDescriptor(e) <=> Alloc!ValidDescriptor(desc)
      BY <1>1, <2>1 DEF Alloc!ValidDescriptor
  <2> HIDE DEF e
  <2>3. Alloc!BuildLayout(e) = Alloc!BuildLayout(desc)
      BY <2>1, <2>2 DEF Alloc!BuildLayout
  <2>4. QED
      BY <2>3 DEF e
<1> HIDE DEF f
<1>9. Alloc!ValidateHandle(h, f) = Alloc!Transported(h)
    BY <1>2, <1>5, <1>6, <1>7, <1>8 DEF Alloc!ValidateHandle
<1>10. QED
    BY <1>2, <1>9 DEF h, f

\* What was answered says what was built, written into the handle and read back.
AllocInv ==
    /\ descriptor.width \in Nat /\ descriptor.height \in Nat
    /\ answer \in {"building", "OK", "imported"} =>
          layout = Alloc!BuildLayout(descriptor) /\ layout # None
    /\ answer \in {"OK", "imported"} =>
          handle = Alloc!Handle(layout) /\ files = [pixels |-> layout.size, reserved |-> layout.reserved]
    /\ answer = "imported" => view = layout
    /\ answer # "BAD_BUFFER"

LEMMA AllocStep ==
    ASSUME AllocInv, Alloc!Next
    PROVE  AllocInv'
<1>1. ASSUME Alloc!Allocate PROVE AllocInv'
  <2>1. /\ layout' = Alloc!BuildLayout(descriptor) /\ descriptor' = descriptor
        /\ answer' \in {"BAD_DESCRIPTOR", "UNSUPPORTED", "building"}
        /\ answer' = "building" => layout' # None
      BY <1>1 DEF Alloc!Allocate
  <2>2. QED
      BY <2>1 DEF AllocInv
<1>2. ASSUME Alloc!AllocateHandle PROVE AllocInv'
    BY <1>2 DEF AllocInv, Alloc!AllocateHandle
<1>3. ASSUME Alloc!Import PROVE AllocInv'
  <2>1. /\ layout = Alloc!BuildLayout(descriptor) /\ layout # None /\ handle = Alloc!Handle(layout)
        /\ files = [pixels |-> layout.size, reserved |-> layout.reserved]
        /\ descriptor.width \in Nat /\ descriptor.height \in Nat
      BY <1>3 DEF AllocInv, Alloc!Import
  <2>2. Alloc!ValidateHandle(handle, files) = layout
      BY <2>1, BuiltIsAccepted
  <2>3. view' = layout /\ answer' = "imported" /\ UNCHANGED <<descriptor, layout, handle, files>>
      BY <1>3, <2>1, <2>2 DEF Alloc!Import
  <2>4. QED
      BY <2>1, <2>3 DEF AllocInv
<1>4. QED
    BY <1>1, <1>2, <1>3 DEF Alloc!Next

LEMMA AllocIsSafe ==
    ASSUME AllocInv
    PROVE  AllocatedImports
<1>1. answer # "BAD_BUFFER"
    BY DEF AllocInv
<1>2. CASE answer = "imported"
  <2>1. /\ view = layout /\ layout = Alloc!BuildLayout(descriptor) /\ layout # None
        /\ files.pixels = layout.size
        /\ descriptor.width \in Nat /\ descriptor.height \in Nat
      BY <1>2 DEF AllocInv
  <2>2. LayoutFits(layout)
      BY <2>1, BuiltFits
  <2>3. /\ layout.size \in Nat /\ layout.size = Alloc!Total(layout.planes)
        /\ \A i \in DOMAIN layout.planes :
              /\ layout.planes[i].offset + layout.planes[i].size <= Alloc!Total(layout.planes)
              /\ i > 1 => layout.planes[i].offset
                            = layout.planes[i - 1].offset + layout.planes[i - 1].size
      BY <2>2, AllocationAssumption DEF LayoutFits, PlanesFit
  <2>4. QED
      BY <1>1, <2>1, <2>3 DEF AllocatedImports, Alloc!AllocatedImports
<1>3. QED
    BY <1>1, <1>2 DEF AllocatedImports, Alloc!AllocatedImports


-----------------------------------------------------------------------------
(* Locking a buffer (FbMapper)                                             *)

MapperTypes ==
    /\ imports \in 0 .. MaxImports
    /\ buffers \in [Processes -> [Handles -> (1 .. MaxImports) \cup {None}]]
    /\ lockCount \in [1 .. MaxImports -> Nat]
    /\ held \in [Processes \X Handles \X (1 .. MaxImports) -> Nat]
    /\ DOMAIN threads = Mapper!All
    /\ \A t \in Mapper!All : DOMAIN threads[t] = {"pc", "handle", "import", "value"}

\* An import is under one handle of one process, and handles are not used twice.
HandlesInv ==
    \A p \in Processes, h \in Handles : buffers[p][h] # None =>
        /\ buffers[p][h] <= imports
        /\ <<p, h>> \in used
        /\ \A q \in Processes, k \in Handles :
              buffers[q][k] = buffers[p][h] => q = p /\ k = h

\* What a thread found before it waited for the fence is still under the handle,
\* or nothing is.
FenceInv ==
    \A t \in Mapper!All : threads[t].pc = "fence" =>
        LET p == Mapper!ProcessOf(t)
            h == threads[t].handle
        IN  /\ h \in Handles /\ threads[t].import \in 1 .. MaxImports
            /\ <<p, h>> \in used
            /\ buffers[p][h] # None => buffers[p][h] = threads[t].import

\* The pointers a process has from lock() are as many as the import counts; an
\* import that nobody made was not locked.
LockInv ==
    /\ \A p \in Processes, h \in Handles, i \in 1 .. MaxImports :
          /\ held[<<p, h, i>>] # 0 => buffers[p][h] = i /\ i \in mapped
          /\ buffers[p][h] = i => lockCount[i] = held[<<p, h, i>>]
    /\ \A i \in 1 .. MaxImports : i > imports => lockCount[i] = 0

MapperInv == MapperTypes /\ HandlesInv /\ FenceInv /\ LockInv

\* Threads may do what is not about locks.
LEMMA OtherThreadSteps ==
    ASSUME MapperInv, UNCHANGED <<buffers, imports, mapped, lockCount, held, used>>,
           NEW t \in Mapper!All, NEW to, threads' = [threads EXCEPT ![t] = to],
           DOMAIN to = {"pc", "handle", "import", "value"}, to.pc # "fence"
    PROVE  MapperInv'
<1>1. MapperTypes'
    BY DEF MapperInv, MapperTypes
<1>2. HandlesInv' /\ LockInv'
    BY DEF MapperInv, HandlesInv, LockInv
<1>3. FenceInv'
  <2>1. \A s \in Mapper!All : s # t => threads'[s] = threads[s]
      BY DEF MapperInv, MapperTypes
  <2>2. threads'[t] = to
      BY DEF MapperInv, MapperTypes
  <2>3. QED
      BY <2>1, <2>2 DEF MapperInv, FenceInv
<1>4. QED
    BY <1>1, <1>2, <1>3 DEF MapperInv

LEMMA ImportKeeps ==
    ASSUME MapperInv, AddressReuse = FALSE, NEW t \in Mapper!All, NEW h \in Handles,
           Mapper!ImportBuffer(t, h)
    PROVE  MapperInv'
<1> DEFINE p == Mapper!ProcessOf(t)
           new == imports + 1
<1>1. p \in Processes
    BY DEF Mapper!All, Mapper!ProcessOf
<1>2. /\ <<p, h>> \notin used /\ buffers[p][h] = None /\ imports < MaxImports
      /\ imports' = new /\ buffers' = [buffers EXCEPT ![p][h] = new]
      /\ used' = used \cup {<<p, h>>} /\ UNCHANGED <<mapped, lockCount, held, threads>>
    BY DEF Mapper!ImportBuffer
<1> HIDE DEF p
<1>3. new \in 1 .. MaxImports /\ new # None /\ None \notin Nat /\ MaxImports \in Nat
    BY <1>2, ImportsAssumption DEF MapperInv, MapperTypes
<1>4. MapperTypes'
    BY <1>1, <1>2, <1>3 DEF MapperInv, MapperTypes
<1>5. /\ buffers'[p][h] = new
      /\ \A q \in Processes, k \in Handles : <<q, k>> # <<p, h>> => buffers'[q][k] = buffers[q][k]
    BY <1>1, <1>2 DEF MapperInv, MapperTypes
<1>6. \A q \in Processes, k \in Handles : buffers[q][k] # None => buffers[q][k] <= imports
    BY DEF MapperInv, HandlesInv
<1>7. \A q \in Processes, k \in Handles : buffers[q][k] # new
    BY <1>3, <1>6 DEF MapperInv, MapperTypes
<1>8. HandlesInv'
  <2> SUFFICES ASSUME NEW q \in Processes, NEW k \in Handles, buffers'[q][k] # None
               PROVE  /\ buffers'[q][k] <= new /\ <<q, k>> \in used'
                      /\ \A q2 \in Processes, k2 \in Handles :
                            buffers'[q2][k2] = buffers'[q][k] => q2 = q /\ k2 = k
      BY <1>2 DEF HandlesInv
  <2>1. CASE <<q, k>> = <<p, h>>
      BY <1>2, <1>3, <1>5, <1>7, <2>1
  <2>2. CASE <<q, k>> # <<p, h>>
    <3>1. buffers'[q][k] = buffers[q][k] /\ buffers[q][k] # None /\ buffers[q][k] \in Nat
        BY <1>3, <1>5, <2>2 DEF MapperInv, MapperTypes
    <3>2. QED
        BY <1>2, <1>3, <1>5, <1>7, <3>1 DEF MapperInv, HandlesInv, MapperTypes
  <2>3. QED
      BY <2>1, <2>2
<1>9. FenceInv'
  <2> SUFFICES ASSUME NEW s \in Mapper!All, threads[s].pc = "fence"
               PROVE  /\ threads[s].handle \in Handles /\ threads[s].import \in 1 .. MaxImports
                      /\ <<Mapper!ProcessOf(s), threads[s].handle>> \in used'
                      /\ buffers'[Mapper!ProcessOf(s)][threads[s].handle] # None =>
                            buffers'[Mapper!ProcessOf(s)][threads[s].handle] = threads[s].import
      BY <1>2 DEF FenceInv
  <2>1. /\ threads[s].handle \in Handles /\ threads[s].import \in 1 .. MaxImports
        /\ <<Mapper!ProcessOf(s), threads[s].handle>> \in used
        /\ buffers[Mapper!ProcessOf(s)][threads[s].handle] # None =>
              buffers[Mapper!ProcessOf(s)][threads[s].handle] = threads[s].import
      BY DEF MapperInv, FenceInv
  <2>2. Mapper!ProcessOf(s) \in Processes
      BY DEF Mapper!All, Mapper!ProcessOf
  <2>3. QED
      BY <1>2, <1>5, <2>1, <2>2
<1>10. LockInv'
  <2>1. ASSUME NEW q \in Processes, NEW k \in Handles, NEW i \in 1 .. MaxImports
        PROVE  /\ held[<<q, k, i>>] # 0 => buffers'[q][k] = i /\ i \in mapped
               /\ buffers'[q][k] = i => lockCount[i] = held[<<q, k, i>>]
    <3>1. /\ held[<<q, k, i>>] # 0 => buffers[q][k] = i /\ i \in mapped
          /\ buffers[q][k] = i => lockCount[i] = held[<<q, k, i>>]
        BY DEF MapperInv, LockInv
    <3>2. CASE <<q, k>> = <<p, h>>
      <4>1. held[<<q, k, i>>] = 0
          BY <1>2, <1>3, <3>1, <3>2
      <4>2. lockCount[new] = 0
          BY <1>3 DEF MapperInv, LockInv, MapperTypes
      <4>3. QED
          BY <1>5, <3>2, <4>1, <4>2
    <3>3. CASE <<q, k>> # <<p, h>>
        BY <1>5, <3>1, <3>3
    <3>4. QED
        BY <3>2, <3>3
  <2>2. \A i \in 1 .. MaxImports : i > new => lockCount[i] = 0
      BY DEF MapperInv, LockInv, MapperTypes
  <2>3. QED
      BY <1>2, <2>1, <2>2 DEF LockInv
<1>11. QED
    BY <1>4, <1>8, <1>9, <1>10 DEF MapperInv

LEMMA FreeKeeps ==
    ASSUME MapperInv, NEW t \in Mapper!All, NEW h \in Handles, Mapper!FreeBuffer(t, h)
    PROVE  MapperInv'
<1> DEFINE p == Mapper!ProcessOf(t)
<1>1. p \in Processes
    BY DEF Mapper!All, Mapper!ProcessOf
<1>2. /\ buffers' = [buffers EXCEPT ![p][h] = None]
      /\ held' = [x \in DOMAIN held |-> IF x[1] = p /\ x[2] = h THEN 0 ELSE held[x]]
      /\ UNCHANGED <<imports, mapped, lockCount, used, threads>>
    BY DEF Mapper!FreeBuffer
<1> HIDE DEF p
<1>3. None \notin Nat
    BY ImportsAssumption
<1>4. MapperTypes'
    BY <1>1, <1>2 DEF MapperInv, MapperTypes
<1>5. /\ buffers'[p][h] = None
      /\ \A q \in Processes, k \in Handles : <<q, k>> # <<p, h>> => buffers'[q][k] = buffers[q][k]
    BY <1>1, <1>2 DEF MapperInv, MapperTypes
<1>6. \A q \in Processes, k \in Handles, i \in 1 .. MaxImports :
         held'[<<q, k, i>>] = IF q = p /\ k = h THEN 0 ELSE held[<<q, k, i>>]
    BY <1>2 DEF MapperInv, MapperTypes
<1>7. HandlesInv'
    BY <1>2, <1>5 DEF MapperInv, HandlesInv
<1>8. FenceInv'
  <2>1. \A s \in Mapper!All : Mapper!ProcessOf(s) \in Processes
      BY DEF Mapper!All, Mapper!ProcessOf
  <2>2. QED
      BY <1>2, <1>5, <2>1 DEF MapperInv, FenceInv
<1>9. LockInv'
    BY <1>2, <1>3, <1>5, <1>6 DEF MapperInv, LockInv
<1>10. QED
    BY <1>4, <1>7, <1>8, <1>9 DEF MapperInv

LEMMA FindKeeps ==
    ASSUME MapperInv, NEW t \in Mapper!All, NEW h \in Handles, NEW where, NEW value,
           Mapper!Find(t, h, where, value)
    PROVE  MapperInv'
<1> DEFINE p == Mapper!ProcessOf(t)
           to == [pc |-> where, handle |-> h, import |-> buffers[p][h], value |-> value]
<1>1. p \in Processes
    BY DEF Mapper!All, Mapper!ProcessOf
<1>2. /\ buffers[p][h] # None /\ threads' = [threads EXCEPT ![t] = to]
      /\ UNCHANGED <<buffers, imports, mapped, lockCount, held, used>>
    BY DEF Mapper!Find, Mapper!book
<1>3. buffers[p][h] \in 1 .. MaxImports /\ <<p, h>> \in used
    BY <1>1, <1>2 DEF MapperInv, MapperTypes, HandlesInv
<1>4. MapperTypes' /\ HandlesInv' /\ LockInv'
    BY <1>2 DEF MapperInv, MapperTypes, HandlesInv, LockInv
<1>5. \A s \in Mapper!All : threads'[s] = IF s = t THEN to ELSE threads[s]
    BY <1>2 DEF MapperInv, MapperTypes
<1>6. FenceInv'
  <2> SUFFICES ASSUME NEW s \in Mapper!All, threads'[s].pc = "fence"
               PROVE  /\ threads'[s].handle \in Handles /\ threads'[s].import \in 1 .. MaxImports
                      /\ <<Mapper!ProcessOf(s), threads'[s].handle>> \in used
                      /\ buffers[Mapper!ProcessOf(s)][threads'[s].handle] # None =>
                            buffers[Mapper!ProcessOf(s)][threads'[s].handle] = threads'[s].import
      BY <1>2 DEF FenceInv
  <2>1. CASE s = t
      BY <1>3, <1>5, <2>1
  <2>2. CASE s # t
      BY <1>5, <2>2 DEF MapperInv, FenceInv
  <2>3. QED
      BY <2>1, <2>2
<1>7. QED
    BY <1>4, <1>6 DEF MapperInv

LEMMA LockKeeps ==
    ASSUME MapperInv, NEW t \in Mapper!All, Mapper!LockFinish(t)
    PROVE  MapperInv'
<1> DEFINE p == Mapper!ProcessOf(t)
           h == threads[t].handle
           i == threads[t].import
<1>1. p \in Processes /\ h \in Handles /\ i \in 1 .. MaxImports
      /\ (buffers[p][h] # None => buffers[p][h] = i)
    BY DEF Mapper!All, Mapper!ProcessOf, Mapper!LockFinish, MapperInv, FenceInv
<1>2. threads' = [threads EXCEPT ![t] = Mapper!Idle] /\ UNCHANGED <<buffers, imports, used>>
    BY DEF Mapper!LockFinish, Mapper!Returns
<1>3. CASE UNCHANGED <<mapped, lockCount, held>>
  <2>1. DOMAIN Mapper!Idle = {"pc", "handle", "import", "value"} /\ Mapper!Idle.pc # "fence"
      BY DEF Mapper!Idle
  <2>2. QED
      BY <1>2, <1>3, <2>1, OtherThreadSteps
<1>4. ASSUME buffers[p][h] # None, mapped' = mapped \cup {i},
             lockCount' = [lockCount EXCEPT ![i] = @ + 1],
             held' = [held EXCEPT ![<<p, h, i>>] = @ + 1]
      PROVE  MapperInv'
  <2>1. buffers[p][h] = i /\ i \in 1 .. MaxImports /\ p \in Processes /\ h \in Handles
      BY <1>1, <1>4
  <2> HIDE DEF p, h, i
  <2>2. \A s \in Mapper!All : threads'[s] = IF s = t THEN Mapper!Idle ELSE threads[s]
      BY <1>2 DEF MapperInv, MapperTypes
  <2>3. MapperTypes'
      BY <1>2, <1>4, <2>1 DEF MapperInv, MapperTypes, Mapper!Idle
  <2>4. HandlesInv'
      BY <1>2 DEF MapperInv, HandlesInv
  <2>5. FenceInv'
      BY <1>2, <2>2 DEF MapperInv, FenceInv, Mapper!Idle
  <2>6. /\ \A j \in 1 .. MaxImports : lockCount'[j] = IF j = i THEN lockCount[i] + 1 ELSE lockCount[j]
        /\ \A q \in Processes, k \in Handles, j \in 1 .. MaxImports :
              held'[<<q, k, j>>] = IF q = p /\ k = h /\ j = i THEN held[<<p, h, i>>] + 1
                                   ELSE held[<<q, k, j>>]
      BY <1>4, <2>1 DEF MapperInv, MapperTypes
  <2>7. buffers[p][h] # None
      BY <1>4 DEF p, h
  <2>8. \A q \in Processes, k \in Handles : buffers[q][k] = i => q = p /\ k = h
      BY <2>1, <2>7 DEF MapperInv, HandlesInv
  <2>9. i <= imports
      BY <2>1, <2>7 DEF MapperInv, HandlesInv
  <2>10. ASSUME NEW q \in Processes, NEW k \in Handles, NEW j \in 1 .. MaxImports
        PROVE  /\ held'[<<q, k, j>>] # 0 => buffers[q][k] = j /\ j \in mapped'
               /\ buffers[q][k] = j => lockCount'[j] = held'[<<q, k, j>>]
    <3>1. /\ held[<<q, k, j>>] # 0 => buffers[q][k] = j /\ j \in mapped
          /\ buffers[q][k] = j => lockCount[j] = held[<<q, k, j>>]
        BY DEF MapperInv, LockInv
    <3>2. QED
        BY <1>4, <2>1, <2>6, <2>8, <3>1
  <2>11. \A j \in 1 .. MaxImports : j > imports => lockCount'[j] = 0
    <3>1. \A j \in 1 .. MaxImports : j > imports => lockCount[j] = 0
        BY DEF MapperInv, LockInv
    <3>2. \A j \in 1 .. MaxImports : j > imports => j # i
        BY <2>1, <2>9 DEF MapperInv, MapperTypes
    <3>3. QED
        BY <2>6, <3>1, <3>2
  <2>12. LockInv'
      BY <1>2, <2>10, <2>11 DEF LockInv
  <2>13. QED
      BY <2>3, <2>4, <2>5, <2>12 DEF MapperInv
<1>5. QED
    BY <1>3, <1>4 DEF Mapper!LockFinish, Mapper!StillImported

LEMMA UnlockKeeps ==
    ASSUME MapperInv, NEW t \in Mapper!All, NEW h \in Handles, Mapper!Unlock(t, h)
    PROVE  MapperInv'
<1> DEFINE p == Mapper!ProcessOf(t)
           i == buffers[p][h]
<1>1. p \in Processes
    BY DEF Mapper!All, Mapper!ProcessOf
<1>2. /\ i # None /\ held[<<p, h, i>>] > 0 /\ lockCount[i] # 0
      /\ lockCount' = [lockCount EXCEPT ![i] = @ - 1]
      /\ held' = [held EXCEPT ![<<p, h, i>>] = @ - 1]
      /\ UNCHANGED <<buffers, imports, mapped, used, threads>>
    BY DEF Mapper!Unlock
<1>3. i \in 1 .. MaxImports /\ buffers[p][h] = i
    BY <1>1, <1>2 DEF MapperInv, MapperTypes
<1> HIDE DEF p, i
<1>4. /\ held[<<p, h, i>>] \in Nat /\ lockCount[i] \in Nat /\ held[<<p, h, i>>] = lockCount[i]
      /\ i \in mapped
    BY <1>1, <1>2, <1>3 DEF MapperInv, MapperTypes, LockInv
<1>5. /\ \A j \in 1 .. MaxImports : lockCount'[j] = IF j = i THEN lockCount[i] - 1 ELSE lockCount[j]
      /\ \A q \in Processes, k \in Handles, j \in 1 .. MaxImports :
            held'[<<q, k, j>>] = IF q = p /\ k = h /\ j = i THEN held[<<p, h, i>>] - 1
                                 ELSE held[<<q, k, j>>]
    BY <1>1, <1>2, <1>3 DEF MapperInv, MapperTypes
<1>6. MapperTypes'
    BY <1>1, <1>2, <1>3, <1>4 DEF MapperInv, MapperTypes
<1>7. HandlesInv' /\ FenceInv'
    BY <1>2 DEF MapperInv, HandlesInv, FenceInv
<1>8. i <= imports /\ \A q \in Processes, k \in Handles : buffers[q][k] = i => q = p /\ k = h
    BY <1>1, <1>2, <1>3 DEF MapperInv, HandlesInv
<1>9. ASSUME NEW q \in Processes, NEW k \in Handles, NEW j \in 1 .. MaxImports
      PROVE  /\ held'[<<q, k, j>>] # 0 => buffers[q][k] = j /\ j \in mapped
             /\ buffers[q][k] = j => lockCount'[j] = held'[<<q, k, j>>]
  <2>1. /\ held[<<q, k, j>>] # 0 => buffers[q][k] = j /\ j \in mapped
        /\ buffers[q][k] = j => lockCount[j] = held[<<q, k, j>>]
      BY DEF MapperInv, LockInv
  <2>2. QED
      BY <1>3, <1>4, <1>5, <1>8, <2>1
<1>10. \A j \in 1 .. MaxImports : j > imports => lockCount'[j] = 0
  <2>1. \A j \in 1 .. MaxImports : j > imports => lockCount[j] = 0
      BY DEF MapperInv, LockInv
  <2>2. \A j \in 1 .. MaxImports : j > imports => j # i
      BY <1>3, <1>8 DEF MapperInv, MapperTypes
  <2>3. QED
      BY <1>5, <2>1, <2>2
<1>11. QED
    BY <1>2, <1>6, <1>7, <1>9, <1>10 DEF MapperInv, LockInv

LEMMA MapperStep ==
    ASSUME MapperInv, AddressReuse = FALSE, Mapper!Next
    PROVE  MapperInv'
<1> PICK t \in Mapper!All :
        \/ \E h \in Handles :
              \/ Mapper!ImportBuffer(t, h) \/ Mapper!FreeBuffer(t, h) \/ Mapper!LockStart(t, h)
              \/ Mapper!Unlock(t, h) \/ Mapper!GetStart(t, h)
              \/ \E v \in Values : Mapper!SetStart(t, h, v)
        \/ Mapper!LockFinish(t) \/ Mapper!LockFails(t) \/ Mapper!LockMetadata(t)
        \/ Mapper!SetFirst(t) \/ Mapper!SetSecond(t) \/ Mapper!GetFirst(t)
        \/ Mapper!GetSecond(t) \/ Mapper!UnlockMetadata(t)
    BY DEF Mapper!Next
<1>1. ASSUME NEW h \in Handles,
             \/ Mapper!LockStart(t, h) \/ Mapper!GetStart(t, h)
             \/ \E v \in Values : Mapper!SetStart(t, h, v)
      PROVE  MapperInv'
    BY <1>1, FindKeeps DEF Mapper!LockStart, Mapper!GetStart, Mapper!SetStart
<1>2. CASE Mapper!LockFails(t) \/ Mapper!UnlockMetadata(t)
  <2>1. DOMAIN Mapper!Idle = {"pc", "handle", "import", "value"} /\ Mapper!Idle.pc # "fence"
      BY DEF Mapper!Idle
  <2>2. threads' = [threads EXCEPT ![t] = Mapper!Idle] /\ UNCHANGED Mapper!book
      BY <1>2 DEF Mapper!LockFails, Mapper!UnlockMetadata, Mapper!Returns
  <2>3. QED
      BY <2>1, <2>2, OtherThreadSteps DEF Mapper!book
<1>3. ASSUME NEW x, Mapper!Goes(t, x), x # "fence", UNCHANGED Mapper!book PROVE MapperInv'
  <2> DEFINE to == [threads[t] EXCEPT !.pc = x]
  <2>1. DOMAIN threads[t] = {"pc", "handle", "import", "value"}
      BY DEF MapperInv, MapperTypes
  <2>2. threads' = [threads EXCEPT ![t] = to]
      BY <1>3 DEF Mapper!Goes
  <2>3. DOMAIN to = {"pc", "handle", "import", "value"} /\ to.pc # "fence"
      BY <1>3, <2>1
  <2> HIDE DEF to
  <2>4. QED
      BY <1>3, <2>2, <2>3, OtherThreadSteps DEF Mapper!book
<1>4. CASE Mapper!LockMetadata(t) \/ Mapper!SetFirst(t) \/ Mapper!SetSecond(t)
    BY <1>3, <1>4 DEF Mapper!LockMetadata, Mapper!SetFirst, Mapper!SetSecond
<1>5. ASSUME NEW x, NEW v, x # "fence", UNCHANGED Mapper!book,
             threads' = [threads EXCEPT ![t] = [threads[t] EXCEPT !.pc = x, !.value = v]]
      PROVE  MapperInv'
  <2> DEFINE to == [threads[t] EXCEPT !.pc = x, !.value = v]
  <2>1. DOMAIN threads[t] = {"pc", "handle", "import", "value"}
      BY DEF MapperInv, MapperTypes
  <2>2. DOMAIN to = {"pc", "handle", "import", "value"} /\ to.pc # "fence"
      BY <1>5, <2>1
  <2>3. threads' = [threads EXCEPT ![t] = to]
      BY <1>5
  <2> HIDE DEF to
  <2>4. QED
      BY <1>5, <2>2, <2>3, OtherThreadSteps DEF Mapper!book
<1>6. CASE Mapper!GetFirst(t) \/ Mapper!GetSecond(t)
  <2>1. DOMAIN threads = Mapper!All /\ DOMAIN threads[t] = {"pc", "handle", "import", "value"}
      BY DEF MapperInv, MapperTypes
  <2>2. CASE Mapper!GetFirst(t)
    <3>1. threads' = [threads EXCEPT ![t] =
                        [threads[t] EXCEPT !.pc = "get_second", !.value = metadata[1]]]
        BY <2>1, <2>2 DEF Mapper!GetFirst
    <3>2. QED
        BY <1>5, <2>2, <3>1 DEF Mapper!GetFirst
  <2>3. CASE Mapper!GetSecond(t)
    <3>1. threads' = [threads EXCEPT ![t] =
                [threads[t] EXCEPT !.pc = "got", !.value = <<threads[t].value, metadata[2]>>]]
        BY <2>1, <2>3 DEF Mapper!GetSecond
    <3>2. QED
        BY <1>5, <2>3, <3>1 DEF Mapper!GetSecond
  <2>4. QED
      BY <1>6, <2>2, <2>3
<1>7. QED
    BY <1>1, <1>2, <1>4, <1>6, ImportKeeps, FreeKeeps, LockKeeps, UnlockKeeps

LEMMA MapperIsSafe ==
    ASSUME MapperInv
    PROVE  LockedIsMapped
<1> SUFFICES ASSUME NEW p \in Processes, NEW h \in Handles, NEW i \in 1 .. MaxImports,
                    held[<<p, h, i>>] > 0
             PROVE  /\ buffers[p][h] = i /\ i \in mapped /\ Mapper!Flushable(p, h)
                    /\ lockCount[i] = held[<<p, h, i>>]
    BY DEF LockedIsMapped, Mapper!LockedIsMapped, Mapper!Imports
<1>1. held[<<p, h, i>>] # 0
    BY DEF MapperInv, MapperTypes
<1>2. buffers[p][h] = i /\ i \in mapped /\ lockCount[i] = held[<<p, h, i>>]
    BY <1>1 DEF MapperInv, LockInv
<1>3. Mapper!Flushable(p, h)
    BY <1>1, <1>2, ImportsAssumption DEF Mapper!Flushable
<1>4. QED
    BY <1>2, <1>3

-----------------------------------------------------------------------------
\* No pixel is written outside its memory (MemorySound): an opened display is
\* written inside its mapping, whatever modes the driver answered with; an
\* allocated buffer is accepted by every process with the layout it was given;
\* and what lock() returned stays mapped until the buffer is freed, where no
\* freed address is given out again (FbdevDevice::InitPath, Buffer.cpp,
\* Mapper.cpp).
THEOREM MemorySoundAlways ==
    ASSUME AddressReuse = FALSE
    PROVE  MCSpec => []MemorySound
<1> DEFINE Inv == GeometryInv /\ AllocInv /\ MapperInv
<1>1. MCInit => Inv
  <2> SUFFICES ASSUME MCInit PROVE Inv
      OBVIOUS
  <2>1. Open!Init /\ Alloc!Init /\ Mapper!Init
      BY DEF MCInit
  <2>2. GeometryInv
      BY <2>1 DEF Open!Init, GeometryInv
  <2>3. AllocInv
      BY <2>1, AllocationAssumption DEF Alloc!Init, AllocInv
  <2>4. MapperInv
    <3>1. MapperTypes
        BY <2>1, ImportsAssumption DEF Mapper!Init, Mapper!Imports, Mapper!Idle, MapperTypes
    <3>2. \A p \in Processes, h \in Handles : buffers[p][h] = None
        BY <2>1 DEF Mapper!Init
    <3>3. \A t \in Mapper!All : threads[t].pc = "idle"
        BY <2>1 DEF Mapper!Init, Mapper!Idle
    <3>4. /\ \A x \in Processes \X Handles \X (1 .. MaxImports) : held[x] = 0
          /\ \A i \in 1 .. MaxImports : lockCount[i] = 0
        BY <2>1 DEF Mapper!Init, Mapper!Imports
    <3>5. LockInv
        BY <3>2, <3>4 DEF LockInv
    <3>6. QED
        BY <3>1, <3>2, <3>3, <3>5 DEF MapperInv, HandlesInv, FenceInv
  <2>5. QED
      BY <2>2, <2>3, <2>4
<1>2. Inv /\ [MCNext]_all => Inv'
  <2> SUFFICES ASSUME Inv, [MCNext]_all PROVE Inv'
      OBVIOUS
  <2>1. ASSUME UNCHANGED open PROVE GeometryInv'
      BY <2>1 DEF open, GeometryInv, Writable, SamePixels, Open!Normalized,
         Open!SupportedLayout, Open!RequiredLineBytes, Open!FitsMemory, Open!FramebufferSize,
         Open!Larger
  <2>2. ASSUME UNCHANGED alloc PROVE AllocInv'
      BY <2>2 DEF alloc, AllocInv
  <2>3. ASSUME UNCHANGED mapper PROVE MapperInv'
      BY <2>3 DEF mapper, MapperInv, MapperTypes, HandlesInv, FenceInv, LockInv
  <2>4. CASE OpenNext
      BY <2>2, <2>3, <2>4, GeometryStep DEF OpenNext
  <2>5. CASE AllocNext
      BY <2>1, <2>3, <2>5, AllocStep DEF AllocNext
  <2>6. CASE MapperNext
      BY <2>1, <2>2, <2>6, MapperStep DEF MapperNext
  <2>7. CASE ComposerNext \/ VsyncNext \/ UNCHANGED all
      BY <2>1, <2>2, <2>3, <2>7 DEF ComposerNext, VsyncNext, all
  <2>8. QED
      BY <2>4, <2>5, <2>6, <2>7 DEF MCNext
<1>3. Inv => MemorySound
    BY GeometryIsSafe, AllocIsSafe, MapperIsSafe DEF MemorySound
<1>4. QED
    BY <1>1, <1>2, <1>3, PTL DEF MCSpec
=============================================================================
