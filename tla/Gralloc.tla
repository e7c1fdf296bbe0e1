------------------------------ MODULE Gralloc ------------------------------
(***************************************************************************)
(* A buffer from the allocator to another process (Buffer.cpp and          *)
(* Allocator.cpp): BuildLayout computes the planes of a description,       *)
(* AllocateHandle writes them into the 32-bit fields of a native handle,   *)
(* ValidateHandle reads them back, checks them and computes them again.    *)
(*                                                                         *)
(* An int32_t holds Half non-negative numbers, 2^31 in the code, so that   *)
(* uint32_t has twice as many numbers and uint64_t the square of those;    *)
(* the largest allocation is Half bytes and rows are aligned to Alignment, *)
(* which is 64.                                                            *)
(***************************************************************************)
EXTENDS Naturals, Integers, Sequences

CONSTANTS
    None,
    Half,           \* half the numbers of a uint32_t
    Alignment,      \* of a row
    Dimensions,     \* the widths and heights asked for
    MaxReserved     \* kMaxReservedSize

VARIABLES
    descriptor,     \* what was asked for
    layout,         \* BufferLayout, None where it is refused
    handle,         \* the fields of the native handle
    files,          \* the sizes of the two memfds
    view,           \* the HandleView of another process
    answer          \* what the caller was told

vars == <<descriptor, layout, handle, files, view, answer>>

Int32Max == Half - 1
UInt32Max == 2 * Half - 1
UInt64Max == (UInt32Max + 1) * (UInt32Max + 1) - 1
MaxAllocation == Half

-----------------------------------------------------------------------------
(* The formats: bytes of a pixel of the packed ones; what divides the      *)
(* width and the height of the others.                                     *)
Bytes ==
    [RGBA_8888 |-> 4, RGB_888 |-> 3, RGB_565 |-> 2, RGBA_FP16 |-> 8, RAW16 |-> 2, BLOB |-> 1]

Planar == {"YV12", "YCBCR_420_888", "YCRCB_420_SP", "YCBCR_P010", "YCBCR_P210"}

Formats == DOMAIN Bytes \cup Planar

(* ExpectedHandleFormat: the number of planes and the FourCC, which names  *)
(* the format.                                                             *)
PlaneCount(f) ==
    CASE f \in DOMAIN Bytes -> 1
      [] f \in {"YV12", "YCBCR_420_888"} -> 3
      [] OTHER -> 2

ExpectedHandleFormat(f, planes, fourcc) == planes = PlaneCount(f) /\ fourcc = f

AlignTo(value, alignment) == ((value + alignment - 1) \div alignment) * alignment

(* Add and Multiply refuse what a uint64_t does not hold. *)
Fits64(n) == n <= UInt64Max

Plane(offset, stride, size) == [offset |-> offset, stride |-> stride, size |-> size]

Total(planes) == planes[Len(planes)].offset + planes[Len(planes)].size

(* The planes of a width and a height, for a luma row of `stride` bytes.   *)
PackedPlanes(stride, h) == <<Plane(0, stride, stride * h)>>

PlanarPlanes(stride, h) ==
    LET chroma == AlignTo(stride \div 2, Alignment \div 4)
        y == stride * h
        c == chroma * (h \div 2)
    IN  <<Plane(0, stride, y), Plane(y, chroma, c), Plane(y + c, chroma, c)>>

SemiPlanes(stride, h, vertical) ==
    <<Plane(0, stride, stride * h), Plane(stride * h, stride, stride * (h \div vertical))>>

Even(n) == n % 2 = 0

(* The alignment a format asks of the dimensions. *)
ValidDimensions(f, w, h) ==
    CASE f = "RAW16" -> Even(w) /\ Even(h)
      [] f = "BLOB" -> h = 1
      [] f = "YCBCR_P210" -> Even(w)
      [] f \in Planar -> Even(w) /\ Even(h)
      [] OTHER -> TRUE

Stride(f, w) ==
    CASE f \in DOMAIN Bytes -> AlignTo(w * Bytes[f], Alignment)
      [] f \in {"YCBCR_P010", "YCBCR_P210"} -> AlignTo(2 * w, Alignment)
      [] OTHER -> AlignTo(w, Alignment)

PixelStride(f, w) ==
    CASE f \in DOMAIN Bytes -> Stride(f, w) \div Bytes[f]
      [] f \in {"YCBCR_P010", "YCBCR_P210"} -> Stride(f, w) \div 2
      [] OTHER -> Stride(f, w)

Planes(f, w, h) ==
    CASE f \in DOMAIN Bytes -> PackedPlanes(Stride(f, w), h)
      [] f \in {"YV12", "YCBCR_420_888"} -> PlanarPlanes(Stride(f, w), h)
      [] f = "YCBCR_P210" -> SemiPlanes(Stride(f, w), h, 1)
      [] OTHER -> SemiPlanes(Stride(f, w), h, 2)

(* Strides have to pass through a signed field. *)
AnyStride(pixels, planes) == TRUE

TransportableStride(pixels, planes) ==
    pixels <= Int32Max /\ \A i \in DOMAIN planes : planes[i].stride <= Int32Max

ValidDescriptor(d) ==
    /\ d.width > 0 /\ d.height > 0 /\ d.layers = 1
    /\ d.reserved \in 0 .. MaxReserved

BuildLayout(d) ==
    LET planes == Planes(d.format, d.width, d.height)
        pixels == PixelStride(d.format, d.width)
    IN  IF /\ ValidDescriptor(d)
           /\ d.usage = "known"
           /\ d.format \in Formats
           /\ ValidDimensions(d.format, d.width, d.height)
           /\ Fits64(Total(planes))
           /\ Total(planes) <= MaxAllocation
           /\ Stride(d.format, d.width) <= UInt32Max
           /\ TransportableStride(pixels, planes)
        THEN [width |-> d.width, height |-> d.height, format |-> d.format, pixels |-> pixels,
              size |-> Total(planes), reserved |-> d.reserved, planes |-> planes]
        ELSE None

-----------------------------------------------------------------------------
(* The handle: signed fields; a uint64_t takes two of them. *)

Signed(n) == IF n > Int32Max THEN n - (UInt32Max + 1) ELSE n

SplitU64(n) == <<Signed(n % (UInt32Max + 1)), Signed(n \div (UInt32Max + 1))>>

Unsigned(n) == IF n < 0 THEN n + UInt32Max + 1 ELSE n

JoinU64(f) == Unsigned(f[1]) + (UInt32Max + 1) * Unsigned(f[2])

Handle(l) ==
    [width |-> Signed(l.width), height |-> Signed(l.height), layers |-> 1, format |-> l.format,
     pixels |-> Signed(l.pixels), fourcc |-> l.format, size |-> SplitU64(l.size),
     reserved |-> SplitU64(l.reserved), count |-> Len(l.planes),
     planes |-> [i \in DOMAIN l.planes |->
                    [offset |-> SplitU64(l.planes[i].offset), stride |-> Signed(l.planes[i].stride),
                     size |-> SplitU64(l.planes[i].size)]]]

(* The layout the fields say. *)
Transported(h) ==
    [width |-> h.width, height |-> h.height, format |-> h.format, pixels |-> h.pixels,
     size |-> JoinU64(h.size), reserved |-> JoinU64(h.reserved),
     planes |-> [i \in DOMAIN h.planes |->
                    Plane(JoinU64(h.planes[i].offset), Unsigned(h.planes[i].stride),
                          JoinU64(h.planes[i].size))]]

(* ValidateHandle: the fields, the files behind them, and the layout that  *)
(* the description in the fields would have.                               *)
ValidFields(h) ==
    /\ h.width > 0 /\ h.height > 0 /\ h.layers = 1 /\ h.pixels > 0
    /\ JoinU64(h.size) \in 1 .. MaxAllocation
    /\ JoinU64(h.reserved) <= MaxReserved
    /\ ExpectedHandleFormat(h.format, h.count, h.fourcc)
    /\ h.format = "BLOB" => h.height = 1

ValidFiles(h, f) == f.pixels >= JoinU64(h.size) /\ f.reserved >= JoinU64(h.reserved)

ValidPlanes(h) ==
    LET l == Transported(h)
    IN  \A i \in DOMAIN l.planes :
           /\ l.planes[i].stride # 0 /\ l.planes[i].size # 0
           /\ Fits64(l.planes[i].offset + l.planes[i].size)
           /\ l.planes[i].offset + l.planes[i].size <= l.size

Descriptor(l) ==
    [width |-> l.width, height |-> l.height, layers |-> 1, format |-> l.format,
     usage |-> "known", reserved |-> l.reserved]

ValidateHandle(h, f) ==
    IF ValidFields(h) /\ ValidFiles(h, f) /\ ValidPlanes(h)
       /\ BuildLayout(Descriptor(Transported(h))) = Transported(h)
    THEN Transported(h) ELSE None

-----------------------------------------------------------------------------
Init ==
    /\ descriptor \in [width : Dimensions, height : Dimensions \cup {0}, layers : {1, 2},
                       format : Formats \cup {"IMPLEMENTATION_DEFINED"},
                       usage : {"known", "protected"}, reserved : {0, MaxReserved + 1}]
    /\ layout = None /\ handle = None /\ files = None /\ view = None
    /\ answer = "none"

(* Allocator::Allocate and isSupported *)
Allocate ==
    /\ answer = "none"
    /\ layout' = BuildLayout(descriptor)
    /\ answer' = IF ~ValidDescriptor(descriptor) THEN "BAD_DESCRIPTOR"
                 ELSE IF layout' = None THEN "UNSUPPORTED" ELSE "building"
    /\ UNCHANGED <<descriptor, handle, files, view>>

(* AllocateHandle; the files or the handle may not be had. *)
AllocateHandle ==
    /\ answer = "building"
    /\ \/ /\ handle' = Handle(layout)
          /\ files' = [pixels |-> layout.size, reserved |-> layout.reserved]
          /\ answer' = "OK"
       \/ answer' = "NO_RESOURCES" /\ UNCHANGED <<handle, files>>
    /\ UNCHANGED <<descriptor, layout, view>>

(* Another process, or the composer, gets the handle. *)
Import ==
    /\ answer = "OK"
    /\ view' = ValidateHandle(handle, files)
    /\ answer' = IF view' = None THEN "BAD_BUFFER" ELSE "imported"
    /\ UNCHANGED <<descriptor, layout, handle, files>>

Next == Allocate \/ AllocateHandle \/ Import

Spec == Init /\ [][Next]_vars

-----------------------------------------------------------------------------
(* Every buffer the allocator hands out is accepted by every process with  *)
(* the layout it was given, up to the largest sizes and strides, and its   *)
(* planes lie next to each other inside the allocation.                    *)
AllocatedImports ==
    /\ answer # "BAD_BUFFER"
    /\ answer = "imported" =>
          /\ view = layout
          /\ view.size <= files.pixels
          /\ \A i \in DOMAIN view.planes :
                /\ view.planes[i].offset + view.planes[i].size <= view.size
                /\ i > 1 => view.planes[i].offset
                               = view.planes[i - 1].offset + view.planes[i - 1].size

=============================================================================
