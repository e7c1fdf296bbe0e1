----------------------------- MODULE FbGeometry -----------------------------
(***************************************************************************)
(* How the framebuffer composer opens a device (FbdevDevice::InitPath):    *)
(* it asks for a second page by doubling yres_virtual, checks whatever the *)
(* driver then reports, maps it and falls back to the original mode when   *)
(* the larger mapping is refused; and which bits of the mapping the pages, *)
(* rows and pixels of the device it accepted occupy.                       *)
(*                                                                         *)
(* A mode is the part of fb_fix_screeninfo and fb_var_screeninfo that the  *)
(* arithmetic uses; `layout` stands for the visual, the type, the channels *)
(* and the FOURCC.  uint32_t has 2 * Half numbers.                         *)
(***************************************************************************)
EXTENDS Naturals, FiniteSets

CONSTANTS
    None,
    Modes,      \* the modes a driver may report
    Half,       \* half the numbers of a uint32_t
    MaxAltered  \* bound on the fields a driver changes in one answer

VARIABLES
    driver,     \* the mode the driver is in
    original,   \* the mode it was found in, None before it was queried
    mode,       \* fixed and info of InitPath, later fixed_ and info_
    expanded,   \* expanded_virtual_height
    size,       \* the size of the mapping, None while there is none
    pc,         \* where InitPath is; "opened" or "refused" in the end
    reversed    \* FB_NONSTD_REV_PIX_IN_B

vars == <<driver, original, mode, expanded, size, pc, reversed>>

Larger(x, y) == IF x > y THEN x ELSE y

(* The driver may take any mode it likes when it is asked for one. *)
Answers(m) ==
    {n \in Modes : Cardinality({f \in DOMAIN n : n[f] # m[f]}) <= MaxAltered}

(* __builtin_mul_overflow(info.yres, 2U, &double_height) *)
DoubleHeight(m) == 2 * m.yres
Doubles(m) == m.yres # 0 /\ DoubleHeight(m) < 2 * Half /\ m.vyres < DoubleHeight(m)

SameModeExceptVirtualHeight(m, n) ==
    \A f \in {"xres", "yres", "vxres", "yoffset", "bpp", "layout"} : m[f] = n[f]

FramebufferSize(m) == m.line * Larger(m.vyres, m.yres)

FitsMemory(m) ==
    LET s == FramebufferSize(m) IN s # 0 /\ (m.smem = 0 \/ s <= m.smem)

(* A virtual size of 0 means the visible one. *)
Normalized(m) ==
    [m EXCEPT !.vxres = IF @ = 0 THEN m.xres ELSE @, !.vyres = IF @ = 0 THEN m.yres ELSE @]

RequiredLineBytes(m) == (m.xres * m.bpp + 7) \div 8

(* The depths each layout may have. *)
SupportedLayout(m) ==
    \/ m.layout = "monochrome" /\ m.bpp = 1
    \/ m.layout = "grayscale" /\ m.bpp \in {2, 4, 8, 16}
    \/ m.layout = "truecolor" /\ m.bpp \in 3 .. 32
    \/ m.layout = "palette" /\ m.bpp = 8

SupportedGeometry(m) ==
    /\ SupportedLayout(m)
    /\ m.xres # 0 /\ m.yres # 0
    /\ m.yoffset % Larger(m.yres, 1) = 0
    /\ m.vxres >= m.xres /\ m.vyres >= m.yres
    /\ m.yoffset <= m.vyres - m.yres
    /\ m.line # 0 /\ m.line >= RequiredLineBytes(m)

-----------------------------------------------------------------------------
Init ==
    /\ driver \in Modes
    /\ original = None /\ mode = None /\ size = None
    /\ expanded = FALSE
    /\ pc = "query"
    /\ reversed \in BOOLEAN

Refuse == pc' = "refused" /\ UNCHANGED <<original, mode, expanded, size, reversed>>

(* FBIOGET_FSCREENINFO and FBIOGET_VSCREENINFO *)
Query ==
    /\ pc = "query"
    /\ \/ Refuse
       \/ /\ original' = driver /\ mode' = driver
          /\ pc' = IF Doubles(driver) THEN "expand" ELSE "check"
          /\ UNCHANGED <<expanded, size, reversed>>
    /\ UNCHANGED driver

(* FBIOPUT_VSCREENINFO with the doubled yres_virtual: the driver refuses,  *)
(* or takes a mode of its choice that is read back (or cannot be).         *)
Expand ==
    /\ pc = "expand"
    /\ \/ pc' = "check" /\ UNCHANGED <<driver, mode, expanded>>
       \/ \E n \in Answers(driver), queried \in BOOLEAN :
             LET accepted ==
                    /\ queried
                    /\ n.vyres >= DoubleHeight(mode)
                    /\ SameModeExceptVirtualHeight(mode, n)
                    /\ FitsMemory(n)
             IN  /\ driver' = n
                 /\ mode' = IF accepted THEN n ELSE mode
                 /\ expanded' = accepted
                 /\ pc' = IF accepted THEN "check" ELSE "restore"
    /\ UNCHANGED <<original, size, reversed>>

(* The original mode is put back; what the driver then reports is used.    *)
RestoreMode ==
    /\ pc = "restore"
    /\ \/ Refuse /\ UNCHANGED driver
       \/ \E n \in {original} \cup Answers(original) :
             /\ driver' = n
             /\ mode' = n
             /\ pc' = "check"
             /\ UNCHANGED <<original, expanded, size, reversed>>

Check ==
    /\ pc = "check"
    /\ \E m \in {Normalized(mode)} :
         IF SupportedGeometry(m) /\ FitsMemory(m)
         THEN mode' = m /\ pc' = "map" /\ UNCHANGED <<original, expanded, size, reversed>>
         ELSE Refuse
    /\ UNCHANGED driver

(* mmap() may fail; an expanded mode is given up once for the original. *)
Map ==
    /\ pc = "map"
    /\ \/ /\ size' = FramebufferSize(mode)
          /\ pc' = "configure"
          /\ UNCHANGED <<original, mode, expanded, reversed>>
       \/ expanded /\ pc' = "fallback" /\ UNCHANGED <<original, mode, expanded, size, reversed>>
       \/ ~expanded /\ Refuse
    /\ UNCHANGED driver

FallbackTrusts(n) == SameModeExceptVirtualHeight(original, n)

(* What the driver reports after the second change is checked again. *)
FallbackAccepts(n) ==
    /\ SameModeExceptVirtualHeight(original, n)
    /\ n.line = original.line
    /\ n.line >= RequiredLineBytes(mode)
    /\ FitsMemory(n)

Fallback ==
    /\ pc = "fallback"
    /\ \/ Refuse /\ UNCHANGED driver
       \/ \E n \in Answers(driver) :
             /\ driver' = n
             /\ \E m \in {Normalized(n)} :
                  IF FallbackAccepts(m)
                  THEN /\ mode' = m
                       /\ size' = FramebufferSize(m)
                       /\ pc' = "configure"
                       /\ UNCHANGED <<original, expanded, reversed>>
                  ELSE Refuse

(* Blank, palettes and ramps, each of which may be refused. *)
Configure ==
    /\ pc = "configure"
    /\ \/ pc' = "opened" /\ UNCHANGED size
       \/ pc' = "refused" /\ size' = None
    /\ UNCHANGED <<driver, original, mode, expanded, reversed>>

Next == Query \/ Expand \/ RestoreMode \/ Check \/ Map \/ Fallback \/ Configure

Spec == Init /\ [][Next]_vars

-----------------------------------------------------------------------------
(* The device once it is open *)

PageCount == Larger(1, mode.vyres \div mode.yres)

PageSize == mode.yres * mode.line

(* Copy, SaveCurrentFrame and RestoreCurrentFrame take whole pages. *)
PageOffset(page) == page * PageSize

(* WritePixel: the bits of its row that a pixel is stored in.  Packed      *)
(* pixels are counted from the top of a byte unless the device reverses    *)
(* them.                                                                   *)
PixelBits(x) ==
    LET first == x * mode.bpp
        perByte == 8 \div mode.bpp
        slot == IF reversed /\ mode.layout = "monochrome" THEN x % perByte
                ELSE perByte - (x % perByte) - 1
    IN  IF mode.bpp < 8 /\ 8 % mode.bpp = 0 /\ mode.layout \in {"monochrome", "grayscale"}
        THEN {8 * (first \div 8) + slot * mode.bpp + b : b \in 0 .. mode.bpp - 1}
        ELSE {first + b : b \in 0 .. mode.bpp - 1}

(* Whatever the driver answers to the three changes of its mode, a display *)
(* that was opened is written inside its mapping only: every page lies in  *)
(* it, the rows of a page hold their pixels, no pixel shares a bit with    *)
(* another, and the driver is in the mode the arithmetic uses.             *)
WritesInside ==
    pc = "opened" =>
        /\ size = FramebufferSize(mode)
        /\ \A page \in 0 .. PageCount - 1 : PageOffset(page) + PageSize <= size
        /\ \A x \in 0 .. mode.xres - 1 : \A b \in PixelBits(x) : b < 8 * mode.line
        /\ \A x, y \in 0 .. mode.xres - 1 : x # y => PixelBits(x) \cap PixelBits(y) = {}
        /\ mode = Normalized(driver)
        /\ mode.smem # 0 => size <= mode.smem

=============================================================================
