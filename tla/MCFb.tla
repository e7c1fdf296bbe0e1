-------------------------------- MODULE MCFb --------------------------------
(***************************************************************************)
(* The framebuffer graphics stack for TLC: the commands of a display       *)
(* (FbComposer), its vsync worker (FbVsync), the opening of a device       *)
(* (FbGeometry), the allocation of a buffer (Gralloc) and the mapper       *)
(* (FbMapper).  They share no state below, so a behaviour is one of `part` *)
(* and leaves the variables of the others alone.                           *)
(***************************************************************************)
EXTENDS FbComposer

CONSTANTS
    MaxCalls,                                                               \* of FbVsync
    Modes, Half, MaxAltered,                                                \* of FbGeometry
    Alignment, Dimensions, MaxReserved,                                     \* of Gralloc
    Processes, Threads, Handles, MaxImports, MaxLocks, AddressReuse, Values \* of FbMapper

\* Modes are what the two structures of a framebuffer hold.
ASSUME ModesAssumption ==
    Modes \subseteq [xres : Nat, yres : Nat, vxres : Nat, vyres : Nat, yoffset : Nat, bpp : Nat,
                     line : Nat, smem : Nat,
                     layout : {"monochrome", "grayscale", "truecolor", "palette"}]

\* Rows are aligned to a multiple of four bytes, and what may be reserved is not
\* more than what may be allocated.
ASSUME AllocationAssumption ==
    /\ Half \in Nat /\ Half > 1
    /\ Alignment \in Nat /\ Alignment > 0 /\ Alignment % 4 = 0
    /\ MaxReserved \in 0 .. Half
    /\ Dimensions \subseteq Nat

\* Imports are numbered, and no number is None.
ASSUME ImportsAssumption == MaxImports \in Nat /\ None \notin Nat

VARIABLES
    part,           \* "composer", "vsync", "open", "gralloc" or "mapper"
    enabled, powered, supported, sample, pc, aware, registered, requested, signal, call, calls,
    stopping,
    driver, original, mode, expanded, size, opening, reversed,
    descriptor, layout, handle, files, view, answer,
    buffers, imports, mapped, lockCount, held, used, threads, mutex, flocks, metadata

(* Modes a driver may report: too short lines, missing memory, one page or *)
(* two, with room to spare or not.                                         *)
MCModes ==
    {m \in [xres : {0, 3}, yres : {1, 2}, vxres : {0, 3}, vyres : {0, 2, 4}, yoffset : {0},
            bpp : {1, 2, 12}, line : {1, 5}, smem : {0, 12},
            layout : {"monochrome", "grayscale", "truecolor"}] :
        m.layout = CASE m.bpp = 1 -> "monochrome" [] m.bpp = 2 -> "grayscale"
                     [] OTHER -> "truecolor"}

OneMode == CHOOSE m \in Modes : TRUE

OneDescriptor ==
    [width |-> 1, height |-> 1, layers |-> 1, format |-> "BLOB", usage |-> "known",
     reserved |-> 0]

MCPictures == {[r \in Regions |-> "a"], [r \in Regions |-> IF r = 1 THEN "a" ELSE "b"]}

Vsync == INSTANCE FbVsync
Open == INSTANCE FbGeometry WITH pc <- opening
Alloc == INSTANCE Gralloc
Mapper == INSTANCE FbMapper

vsync == <<enabled, powered, supported, sample, pc, aware, registered, requested, signal, call,
           calls, stopping>>
open == <<driver, original, mode, expanded, size, opening, reversed>>
alloc == <<descriptor, layout, handle, files, view, answer>>
mapper == <<buffers, imports, mapped, lockCount, held, used, threads, mutex, flocks, metadata>>
all == <<part, vars, vsync, open, alloc, mapper>>

-----------------------------------------------------------------------------
MCInit ==
    /\ part \in {"composer", "vsync", "open", "gralloc", "mapper"}
    /\ part # "composer" => hardware = [blank |-> TRUE, pans |-> TRUE, lamp |-> TRUE]
    /\ part # "vsync" => supported = FALSE
    /\ part # "open" => driver = OneMode /\ reversed = FALSE
    /\ part # "gralloc" => descriptor = OneDescriptor
    /\ Init /\ Vsync!Init /\ Open!Init /\ Alloc!Init /\ Mapper!Init
    /\ part # "mapper" => \A v \in Values : metadata[1] <= v

ComposerNext == part = "composer" /\ Next /\ UNCHANGED <<part, vsync, open, alloc, mapper>>
VsyncNext == part = "vsync" /\ Vsync!Next /\ UNCHANGED <<part, vars, open, alloc, mapper>>
OpenNext == part = "open" /\ Open!Next /\ UNCHANGED <<part, vars, vsync, alloc, mapper>>
AllocNext == part = "gralloc" /\ Alloc!Next /\ UNCHANGED <<part, vars, vsync, open, mapper>>
MapperNext == part = "mapper" /\ Mapper!Next /\ UNCHANGED <<part, vars, vsync, open, alloc>>

MCNext == ComposerNext \/ VsyncNext \/ OpenNext \/ AllocNext \/ MapperNext

\* The fairness of FbVsync in the behaviours of that part.
MCSpec ==
    /\ MCInit /\ [][MCNext]_all
    /\ WF_all(VsyncNext /\ Vsync!WorkerStep)
    /\ WF_all(VsyncNext /\ Vsync!CallStep)

-----------------------------------------------------------------------------
\* A display that was opened is written inside its mapping only, whatever modes
\* the driver answered with.
WritesInside == Open!WritesInside

\* Every buffer that was allocated is accepted everywhere with the same layout.
AllocatedImports == Alloc!AllocatedImports

\* What lock() returned stays good until the buffer is freed.
LockedIsMapped == Mapper!LockedIsMapped

\* Threads of one process never read half of a metadata value.
MetadataWhole == Mapper!MetadataWhole

\* A lit display with vsync enabled is served for ever, and no onVsync() starts
\* after a call switched it off.
VsyncArrives == part = "vsync" => Vsync!VsyncArrives
SilentWhenDisabled == Vsync!SilentWhenDisabled

\* What one sees is what was asked for: the frame, the light and the vsyncs
\* (FbComposer, FbVsync).
FbShows == ScreenShowsFrame /\ LitAsAsked /\ SilentWhenDisabled

\* No pixel is written outside its memory: of the display, of a buffer whatever
\* process it is in, or of one that another thread frees (FbGeometry, Gralloc,
\* FbMapper).
MemorySound == WritesInside /\ AllocatedImports /\ LockedIsMapped
=============================================================================
