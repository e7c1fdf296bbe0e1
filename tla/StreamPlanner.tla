---------------------------- MODULE StreamPlanner ----------------------------
(***************************************************************************)
(* Which capture modes a video device has (camera v4l2/V4l2VideoDevice.cpp)*)
(* and which output sizes a camera offers and which mode feeds a set of    *)
(* outputs (device/StreamPlanner.cpp).  Sizes are <<width, height>>; a     *)
(* mode has the shortest of its frame durations.                           *)
(***************************************************************************)
EXTENDS Integers, Sequences, FiniteSets, FiniteSetsExt

CONSTANTS
    AllFormats,     \* what a driver says of a format: [sizes, steps, largest,
                    \* durations, range, current, isp, compressed]
    EnumSizes, EnumDurations, DefaultDuration,
                    \* kStandardSizes, kStandardFrameRates and kDefaultInterval of V4L2
    StandardSizes,  \* kStandardSizes
    Preferred       \* kPreferredFrameDurationNs

VARIABLES
    modes_,         \* the usable modes of a camera
    outputs,        \* sizes asked for by configureStreams()
    planned         \* what Plan() returned: a set of at most one mode

InStepRange(v, min, max, step) == v \in min..max /\ (step <= 1 \/ (v - min) % step = 0)

\* EnumerateSizes(): discrete sizes, or of a range the standard ones and the
\* largest; without any, what the driver makes of a huge frame.
EnumerateSizes(f) ==
    LET listed == f.sizes \cup
            UNION {{s \in EnumSizes : \A i \in 1..2 : InStepRange(s[i], r.min[i], r.max[i], r.step)}
                     \cup {r.max} : r \in f.steps}
    IN IF listed # {} THEN listed ELSE f.largest

\* EnumerateIntervals(), as durations: those of nothing are left out.
EnumerateIntervals(f) ==
    LET listed == (f.durations \cup
            UNION {{r.min} \cup (EnumDurations \cap r.min..r.max) : r \in f.range}) \ {0}
    IN IF listed # {} THEN listed
       ELSE IF f.current \ {0} # {} THEN f.current ELSE {DefaultDuration}

\* The modes of the formats a camera has; sizes without an extent are left out.
ModesOf(formats) ==
    UNION {{[size |-> s, duration |-> Min(EnumerateIntervals(f)), isp |-> f.isp,
             compressed |-> f.compressed] : s \in {t \in EnumerateSizes(f) : t[1] > 0 /\ t[2] > 0}} :
            f \in formats}

Area(s) == s[1] * s[2]
Contains(s, t) == s[1] >= t[1] /\ s[2] >= t[2]
Larger(a, b) == IF a > b THEN a ELSE b

MaxSize == CHOOSE s \in {m.size : m \in modes_} : \A m \in modes_ : Area(m.size) <= Area(s)

\* The constructor: the sizes of the modes, and the standard ones that fit into
\* the largest, each with the shortest frame duration of the modes containing it.
OutputSizes ==
    {[size |-> s, duration |-> Min({m.duration : m \in {n \in modes_ : Contains(n.size, s)}})] :
        s \in {m.size : m \in modes_} \cup {t \in StandardSizes : Contains(MaxSize, t)}}

\* Plan(): a mode that contains all outputs: 30 fps or more, the smallest size, not
\* through the software ISP, not compressed.
Number(b) == IF b THEN 1 ELSE 0
Score(m) == <<Larger(m.duration, Preferred), Area(m.size), Number(m.isp), Number(m.compressed)>>
Less(a, b) == \E i \in 1..4 : a[i] < b[i] /\ \A j \in 1..(i-1) : a[j] = b[j]

Plan(sizes) ==
    LET needed == <<Max({s[1] : s \in sizes}), Max({s[2] : s \in sizes})>>
        fit == {m \in modes_ : Contains(m.size, needed)}
    IN {m \in fit : \A n \in fit : ~Less(Score(n), Score(m))}

Init ==
    /\ modes_ \in {ModesOf(formats) : formats \in SUBSET AllFormats} \ {{}}
    /\ outputs = {} /\ planned = {}

\* configureStreams() and isStreamCombinationSupported(): sizes that are offered.
Configure ==
    /\ \E sizes \in {s \in SUBSET {o.size : o \in OutputSizes} : Cardinality(s) \in 1..2} :
        outputs' = sizes /\ planned' = Plan(sizes)
    /\ UNCHANGED modes_

-----------------------------------------------------------------------------
\* A single output that is offered can be captured, at the frame rate that was
\* announced for it up to 30 fps; two outputs are captured by one mode only if it
\* contains both.
PlannedAsOffered ==
    /\ \A m \in planned : \A s \in outputs : Contains(m.size, s)
    /\ Cardinality(outputs) = 1 =>
         /\ planned # {}
         /\ \A m \in planned : \A o \in OutputSizes :
              o.size \in outputs => Larger(m.duration, Preferred) <= Larger(o.duration, Preferred)
=============================================================================
